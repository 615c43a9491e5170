\* Two APIs of one asset, nothing fails.
SPECIFICATION FairSpec
CONSTANTS
    a1 = a1  a2 = a2  a3 = a3
    Apis = {a1, a2}
    Asset <- SameAsset
    None = None
    Called = {a1, a2}
    Codes = {"200"}
    Sources = {TRUE, FALSE}
    DayLength = 3
    MaxTime = 5
    MaxRequests = 2
    MaxFaults = 0
PROPERTIES
    StartTimePerApi
