\* One API read from the archive, two days, nothing fails.
SPECIFICATION FairSpec
CONSTANTS
    a1 = a1  a2 = a2  a3 = a3
    Apis = {a1}
    Asset <- OwnAsset
    None = None
    Called = {a1}
    Codes = {"200"}
    Sources = {TRUE}
    DayLength = 3
    MaxTime = 5
    MaxRequests = 1
    MaxFaults = 0
PROPERTIES
    Gathered
