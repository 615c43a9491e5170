\* A change that is undone, no failure at all: the older revision stays the latest.
SPECIFICATION FairSpec
CONSTANTS
    a1 = a1  a2 = a2  w1 = w1  w2 = w2  p0 = p0  p1 = p1
    internal = internal  Internal = Internal  blank = blank
    Tags <- MCTags
    Blank = blank
    Lower <- MCLower
    Trim <- MCTrim
    TagConfigs <- JustHide
    TagConfig <- HideInternal
    Apis = {a1}
    Listings <- OnlyLoneApi
    Listing <- LoneApi
    PageSize = 1
    ChanCap = 1
    Workers = {w1, w2}
    Contents <- MCContents
    Proxies = {p0}
    PolicyLists <- OpenBasic
    WithSpec = {a1}
    Initial <- MCInitial
    Overlap = FALSE
    Revert = TRUE
    Faults = {}
    MaxEdits = 2
    MaxFaults = 0
    MaxCrashes = 0
    None = None
PROPERTIES
    EventuallyLatest
