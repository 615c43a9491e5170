\* Passes that do not overlap, values that are not undone, a list that shrinks,
\* one crash and one failing call: the promise of RevisionLedger.
SPECIFICATION FairSpec
CONSTANTS
    a1 = a1  a2 = a2  w1 = w1  w2 = w2  p0 = p0  p1 = p1
    internal = internal  Internal = Internal  blank = blank
    Tags <- MCTags
    Blank = blank
    Lower <- MCLower
    Trim <- MCTrim
    TagConfigs <- AllOrOnly
    TagConfig <- ShowAll
    Apis = {a1, a2}
    Listings <- Shrinking
    Listing <- TwoAssets
    PageSize = 1
    ChanCap = 1
    Workers = {w1, w2}
    Contents <- MCContents
    Proxies = {p0}
    PolicyLists <- BasicCustom
    WithSpec = {a1, a2}
    Initial <- OneCustom
    Overlap = FALSE
    Revert = FALSE
    Faults = {"detail", "policies"}
    MaxEdits = 2
    MaxFaults = 1
    MaxCrashes = 1
    None = None
INVARIANTS
    NoDuplicateRevision
    RevisionsKnown
    TypeOK
    NeverStuck
PROPERTIES
    KeepsLedger
    PassesGoOn
