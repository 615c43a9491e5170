\* An API with calls, an idle one and an instance without asset ID, either source,
\* days of four units, one fault.
SPECIFICATION FairSpec
CONSTANTS
    a1 = a1  a2 = a2  a3 = a3
    Apis = {a1, a2, a3}
    Asset <- OwnAsset
    None = None
    Called = {a1}
    Codes = {"200"}
    Sources = {TRUE, FALSE}
    DayLength = 4
    MaxTime = 5
    MaxRequests = 2
    MaxFaults = 1
INVARIANTS
    TypeOK
    NotCountedTwice
    NeverStuck
PROPERTIES
    WindowLosesNothing
    EventuallyReported
    RunsGoOn
