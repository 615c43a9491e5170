\* Two configuration changes and a signal at any time, a lifetime with room for
\* two retries.  A failed login or the
\* end of Run ends the process, so the system may stop.
SPECIFICATION FairSpec
CONSTANTS
    Changes = {"c1", "c2"}
    Boot = "boot"
    Lifetimes = {12}
    RetryDelay = 1
    MaxChanges = 2
    MaxErrors = 2
INVARIANTS
    TypeOK
    TokenTypeOK
    AtMostOnePublisher
    NeverIdle
    OneRefresher
    TokenFresh
    WaitsAreMet
PROPERTIES
    ChangeCompletes
    ChangeEnds
    ShutdownCompletes
    PollingContinues
CHECK_DEADLOCK FALSE
