\* One managed application with two requests for the same API, only one of which
\* names a tier, and a credential; one failure with or without effect, one crash.
\* A removed application may leave nothing to do, so the system may stop.
SPECIFICATION FairSpec
CONSTANTS
    m1 = m1  r1 = r1  r2 = r2  c1 = c1  api = api
    ManagedApps = {m1}
    Requests = {r1, r2}
    Credentials = {c1}
    Apis = {api}
    AppOf <- MCAppOf
    ApiOf <- MCApiOf
    Tiered = {r2}
    Faults = {"createApp", "writeBack", "tiers", "createTier", "contract",
              "revoke", "deleteContract", "deleteApp", "getApp", "reset"}
    MaxFaults = 1
    MaxCrashes = 1
    MaxRotations = 1
    Nobody = Nobody
INVARIANTS
    TypeOK
    LeaksBounded
    AccessIsReal
    RemovedIsGone
    OneTier
    SecretHeld
    NeverStuck
PROPERTIES
    RequestsAnswered
CHECK_DEADLOCK FALSE
