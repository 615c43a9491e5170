\* Every asset of at most three files, the policies an API may have, both modes,
\* and any call failing.  A handling ends, so a state without successors is its end.
SPECIFICATION Spec
CONSTANTS
    Assets <- AssetsUpTo3
    PolicyLists <- MCPolicyLists
    Originals = {TRUE, FALSE}
    None = None
INVARIANTS
    TypeOK
    BestIsDelivered
    ConversionIsTold
    CredentialFits
CHECK_DEADLOCK FALSE
