\* Overlapping passes, an edit or a list that grows in the middle of a pass, any
\* one failing call, the fatal one of GetAPI included, and a crash: what is on its
\* way is lost only to the two calls that drop it, and a restart makes up for it.
SPECIFICATION FairSpec
CONSTANTS
    a1 = a1  a2 = a2  w1 = w1  w2 = w2  p0 = p0  p1 = p1
    internal = internal  Internal = Internal  blank = blank
    Tags <- MCTags
    Blank = blank
    Lower <- MCLower
    Trim <- MCTrim
    TagConfigs <- HideOrAll
    TagConfig <- HideInternal
    Apis = {a1, a2}
    Listings <- Reordering
    Listing <- TwoAssets
    PageSize = 1
    ChanCap = 1
    Workers = {w1, w2}
    Contents <- MCContents
    Proxies = {p0, p1}
    PolicyLists <- JustOpen
    WithSpec = {a1, a2}
    Initial <- OneInternal
    Overlap = TRUE
    Revert = TRUE
    Faults = {"revisions", "list", "detail", "policies", "spec", "publish"}
    MaxEdits = 1
    MaxFaults = 1
    MaxCrashes = 1
    None = None
INVARIANTS
    CacheAccounted
    OncePerGoroutine
PROPERTIES
    StaysInOrder
    EventuallySynced
