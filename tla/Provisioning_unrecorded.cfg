\* An application whose ID was not written back to Central, then removed.
SPECIFICATION Spec
CONSTANTS
    m1 = m1  r1 = r1  r2 = r2  c1 = c1  api = api
    ManagedApps = {m1}
    Requests = {r1, r2}
    Credentials = {c1}
    Apis = {api}
    AppOf <- MCAppOf
    ApiOf <- MCApiOf
    Tiered = {r2}
    Faults = {"writeBack"}
    MaxFaults = 1
    MaxCrashes = 0
    MaxRotations = 0
    Nobody = Nobody
INVARIANTS
    NotYetProvisioned
CHECK_DEADLOCK FALSE
