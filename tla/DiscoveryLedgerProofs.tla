----------------------- MODULE DiscoveryLedgerProofs -----------------------
(***************************************************************************)
(* What the pipeline leaves in Central, for any number of APIs, assets,    *)
(* goroutines, edits, faults and crashes.  As long as passes do not        *)
(* overlap and no API is moved to a later place of the list: no revision   *)
(* twice, and only revisions that RevisionLedger allows.  With passes that *)
(* overlap as well: what keeps the latest revision of an API its present   *)
(* state, and that every API to be discovered comes to Central.            *)
(***************************************************************************)
EXTENDS DiscoveryPipelineProofs, SequenceTheorems, WellFoundedInduction
-----------------------------------------------------------------------------
(* A sequence without repetition, and the same for the APIs of an asset.   *)
Once(s) == \A i, j \in DOMAIN s : s[i] = s[j] => i = j
ApisOf(asset) == {asset[i].api : i \in DOMAIN asset}
ApisOnce(asset) == \A i, j \in DOMAIN asset : asset[i].api = asset[j].api => i = j

(* The assumptions.  Passes do not overlap, nor does a change of the       *)
(* configuration; the list changes once; the revisions can be loaded.  No  *)
(* list has an API twice, and no API is moved to a later place.            *)
Serial == ~Overlap /\ ~Revert /\ "revisions" \notin Faults
ListsOnce ==
    \A list \in Listings : \A i, j \in DOMAIN list :
        /\ Once(list[i])
        /\ i # j => Elements(list[i]) \cap Elements(list[j]) = {}
NothingMovesBack ==
    \A list \in Listings : \A i \in DOMAIN Listing, j \in DOMAIN list :
        i < j => Elements(Listing[i]) \cap Elements(list[j]) = {}

TodoOf(w) == ApisOf(worker[w].todo)
OnPage == UNION {ApisOf(poll.page[i]) : i \in DOMAIN poll.page}
Handled == OnPage \cup UNION {TodoOf(w) : w \in Workers}
Ahead == UNION {Elements(listing[i]) : i \in {k \in DOMAIN listing : k > poll.offset}}
Behind == UNION {Elements(Listing[i]) : i \in {k \in DOMAIN Listing : k <= poll.offset}}

(* No API is in the hands of two goroutines, or of one and still on the    *)
(* page, or handled and still to be listed in this pass.                   *)
WorkDisjoint ==
    /\ \A w \in Workers : ApisOnce(worker[w].todo)
    /\ \A v, w \in Workers : v # w => TodoOf(v) \cap TodoOf(w) = {}
PageDisjoint ==
    /\ \A i \in DOMAIN poll.page : ApisOnce(poll.page[i])
    /\ \A i, j \in DOMAIN poll.page : i # j => ApisOf(poll.page[i]) \cap ApisOf(poll.page[j]) = {}
    /\ \A w \in Workers : TodoOf(w) \cap OnPage = {}
RestDisjoint ==
    poll.pc \in {"list", "hand"} =>
        /\ Handled \cap Ahead = {}
        /\ listing = Listing => Handled \subseteq Behind

(* Outside of a pass and of the wait for the next one nothing is under way. *)
QuietOutside ==
    /\ \A w \in Workers : worker[w].pc = "idle" => worker[w].todo = <<>>
    /\ poll.pc \notin {"list", "hand", "sleep"} => Drained
    /\ poll.pc # "hand" => poll.page = <<>>

ApisApart == WorkDisjoint /\ PageDisjoint /\ RestDisjoint /\ QuietOutside

(* Each detail is in one place: with the goroutine that builds it, with    *)
(* the one that has built it, in the channel, with the publisher or in     *)
(* Central.                                                                *)
PlacesOnce == /\ Once(central) /\ Once(apiChan)
              /\ \A w \in Workers : Once(worker[w].out)
PlacesApart ==
    /\ Elements(central) \cap InFlight = {}
    /\ Elements(apiChan) \cap (Building \cup Built \cup {pub}) = {}
    /\ pub \notin Building \cup Built
    /\ Building \cap Built = {}
    /\ \A v, w \in Workers : v # w => Elements(worker[v].out) \cap Elements(worker[w].out) = {}
SaveIsNew == \A w \in Workers : At(w, "save") => worker[w].sum \notin cache

OncePlaced == PlacesOnce /\ PlacesApart /\ SaveIsNew
-----------------------------------------------------------------------------
(* Assets and their APIs.                                                  *)

LEMMA TailApis ==
    ASSUME NEW s \in Seq(Entry), s # <<>>
    PROVE  /\ ApisOf(Tail(s)) \subseteq ApisOf(s)
           /\ ApisOnce(s) => ApisOnce(Tail(s))
<1>1. \A i \in DOMAIN Tail(s) : i + 1 \in DOMAIN s /\ Tail(s)[i] = s[i + 1] /\ i \in Nat
  OBVIOUS
<1>2. ApisOf(Tail(s)) \subseteq ApisOf(s)
  BY <1>1 DEF ApisOf
<1>3. ASSUME ApisOnce(s), NEW i \in DOMAIN Tail(s), NEW j \in DOMAIN Tail(s),
             Tail(s)[i].api = Tail(s)[j].api
      PROVE  i = j
  <2>1. i + 1 = j + 1
    BY <1>1, <1>3 DEF ApisOnce
  <2> QED BY <1>1, <2>1
<1> QED BY <1>2, <1>3 DEF ApisOnce

LEMMA NoApis == ApisOf(<<>>) = {} /\ ApisOnce(<<>>)
BY DEF ApisOf, ApisOnce

(* What a step of a goroutine does to the APIs it has to do.               *)
LEMMA TodoStep ==
    ASSUME TypeOK, NEW w \in Workers, Process(w)
    PROVE  /\ UNCHANGED <<listing, poll, central, pub>>
           /\ \A v \in Workers : v # w => worker'[v] = worker[v]
           /\ worker[w].pc # "idle" /\ worker'[w] \in WorkerState
           /\ \/ worker'[w].todo = worker[w].todo /\ worker'[w].pc # "idle"
              \/ worker[w].todo # <<>> /\ worker'[w].todo = Tail(worker[w].todo)
              \/ worker'[w].todo = <<>>
           /\ worker'[w].pc = "idle" => worker'[w].todo = <<>>
<1>0. worker[w] \in WorkerState /\ worker \in [Workers -> WorkerState]
  BY DEF TypeOK
<1>1. worker' \in [Workers -> WorkerState]
  BY WorkerStepType
<1>2. UNCHANGED <<listing, poll, central, pub>> /\ worker[w].pc # "idle"
  BY DEF Process, SkipUnwanted, GetAPI, GetPolicies, PoliciesFail, Lookup, Save,
         BuildDetail, BuildFails, Send, At, world
<1>3. ASSUME NEW todo, NEW out
      PROVE  /\ Resume(todo, out).todo = todo
             /\ Resume(todo, out).pc = "idle" => todo = <<>>
  BY DEF Resume, Idle
<1>4. ASSUME NEW found, NextApi(w, found),
             worker[w].pc \in {"detail", "policies", "lookup", "save", "spec"}
      PROVE  /\ \A v \in Workers : v # w => worker'[v] = worker[v]
             /\ worker[w].todo # <<>> /\ worker'[w].todo = Tail(worker[w].todo)
             /\ worker'[w].pc = "idle" => worker'[w].todo = <<>>
  <2>1. worker[w].todo # <<>>
    BY <1>0, <1>4 DEF WorkerState
  <2>2. worker' = [worker EXCEPT ![w] = Resume(Tail(worker[w].todo), worker[w].out \o found)]
    BY <1>4 DEF NextApi
  <2> DEFINE todo == Tail(worker[w].todo)
             out == worker[w].out \o found
  <2>3. worker'[w] = Resume(todo, out) /\ \A v \in Workers : v # w => worker'[v] = worker[v]
    BY <1>0, <2>2
  <2> HIDE DEF todo, out
  <2>4. worker'[w].todo = todo /\ (worker'[w].pc = "idle" => todo = <<>>)
    BY <1>3, <2>3
  <2> QED BY <2>1, <2>3, <2>4 DEF todo
<1>5. ASSUME NEW r, worker' = [worker EXCEPT ![w] = r], r.todo = worker[w].todo, r.pc # "idle"
      PROVE  /\ \A v \in Workers : v # w => worker'[v] = worker[v]
             /\ worker'[w].todo = worker[w].todo /\ worker'[w].pc # "idle"
  BY <1>0, <1>5
<1>6. CASE SkipUnwanted(w) \/ PoliciesFail(w) \/ BuildDetail(w) \/ BuildFails(w)
  BY <1>1, <1>2, <1>4, <1>6 DEF SkipUnwanted, PoliciesFail, BuildDetail, BuildFails, At
<1>7. CASE GetAPI(w)
  <2> DEFINE r == [worker[w] EXCEPT !.pc = "policies", !.proxy = live[Job(w).api].proxy]
  <2>1. worker' = [worker EXCEPT ![w] = r]
    BY <1>0, <1>7 DEF GetAPI
  <2>2. r.todo = worker[w].todo /\ r.pc = "policies"
    BY <1>0 DEF WorkerState, WorkerType
  <2> QED BY <1>1, <1>2, <1>5, <2>1, <2>2
<1>8. CASE GetPolicies(w)
  <2>1. CASE Incompatible(live[Job(w).api].policies)
    BY <1>1, <1>2, <1>4, <1>8, <2>1 DEF GetPolicies, At
  <2>2. CASE ~Incompatible(live[Job(w).api].policies)
    <3> DEFINE sum == [api |-> Job(w).api, content |-> Job(w).content,
                       proxy |-> worker[w].proxy,
                       config |-> Configuration(live[Job(w).api].policies)]
               r == [worker[w] EXCEPT !.pc = "lookup", !.proxy = None, !.sum = sum]
    <3>1. worker' = [worker EXCEPT ![w] = r]
      BY <1>0, <1>8, <2>2 DEF GetPolicies
    <3>2. r.todo = worker[w].todo /\ r.pc = "lookup"
      BY <1>0 DEF WorkerState, WorkerType
    <3> QED BY <1>1, <1>2, <1>5, <3>1, <3>2
  <2> QED BY <2>1, <2>2
<1>9. CASE Lookup(w)
  <2>1. CASE worker[w].sum \in cache
    BY <1>1, <1>2, <1>4, <1>9, <2>1 DEF Lookup, At
  <2>2. CASE worker[w].sum \notin cache
    <3> DEFINE r == [worker[w] EXCEPT !.pc = "save"]
    <3>1. worker' = [worker EXCEPT ![w] = r]
      BY <1>0, <1>9, <2>2 DEF Lookup
    <3>2. r.todo = worker[w].todo /\ r.pc = "save"
      BY <1>0 DEF WorkerState, WorkerType
    <3> QED BY <1>1, <1>2, <1>5, <3>1, <3>2
  <2> QED BY <2>1, <2>2
<1>10. CASE Save(w)
  <2> DEFINE r == [worker[w] EXCEPT !.pc = "spec"]
  <2>1. worker' = [worker EXCEPT ![w] = r]
    BY <1>0, <1>10 DEF Save
  <2>2. r.todo = worker[w].todo /\ r.pc = "spec"
    BY <1>0 DEF WorkerState, WorkerType
  <2> QED BY <1>1, <1>2, <1>5, <2>1, <2>2
<1>11. CASE Send(w)
  <2> DEFINE out == Tail(worker[w].out)
  <2>1. worker' = [worker EXCEPT ![w] = Resume(<<>>, out)]
    BY <1>0, <1>11 DEF Send
  <2>2. worker'[w] = Resume(<<>>, out) /\ \A v \in Workers : v # w => worker'[v] = worker[v]
    BY <1>0, <2>1
  <2> HIDE DEF out
  <2>3. worker'[w].todo = <<>>
    BY <1>3, <2>2
  <2> QED BY <1>1, <1>2, <2>2, <2>3
<1> QED BY <1>6, <1>7, <1>8, <1>9, <1>10, <1>11 DEF Process
-----------------------------------------------------------------------------
(* The APIs stay apart.                                                    *)

(* A step that neither lists nor hands out, and after which each goroutine *)
(* has no more to do than before.                                          *)
LEMMA ApartLess ==
    ASSUME ApisApart, UNCHANGED <<listing, poll>>,
           \A w \in Workers : TodoOf(w)' \subseteq TodoOf(w) /\ ApisOnce(worker'[w].todo)
    PROVE  WorkDisjoint' /\ PageDisjoint' /\ RestDisjoint'
<1>1. WorkDisjoint'
  <2>1. ASSUME NEW v \in Workers, NEW w \in Workers, v # w
        PROVE  TodoOf(v)' \cap TodoOf(w)' = {}
    BY <2>1 DEF ApisApart, WorkDisjoint
  <2> QED BY <2>1 DEF WorkDisjoint
<1>2. OnPage' = OnPage
  BY DEF OnPage
<1>3. PageDisjoint'
  BY <1>2 DEF ApisApart, PageDisjoint
<1>4. Handled' \subseteq Handled
  BY <1>2 DEF Handled
<1>5. RestDisjoint'
  BY <1>4 DEF ApisApart, RestDisjoint, Ahead, Behind
<1> QED BY <1>1, <1>3, <1>5

(* A step of the poller, or of a handler, that keeps the goroutines.       *)
LEMMA ApartPoll ==
    ASSUME ApisApart, UNCHANGED worker, poll'.page = <<>>,
           \/ poll'.pc \notin {"list", "hand"}
           \/ Drained
           \/ poll.pc \in {"list", "hand"} /\ UNCHANGED listing /\ poll'.offset = poll.offset
    PROVE  WorkDisjoint' /\ PageDisjoint' /\ RestDisjoint'
<1>1. WorkDisjoint'
  BY DEF ApisApart, WorkDisjoint, TodoOf
<1>2. OnPage' = {}
  BY DEF OnPage
<1>3. PageDisjoint'
  BY <1>2 DEF PageDisjoint
<1>4. Handled' = UNION {TodoOf(w) : w \in Workers}
  BY <1>2 DEF Handled, TodoOf
<1>5. CASE Drained
  <2>1. \A w \in Workers : TodoOf(w) = {}
    BY <1>5, NoApis DEF Drained, ApisApart, QuietOutside, TodoOf
  <2>2. Handled' = {}
    BY <1>4, <2>1
  <2> QED BY <1>1, <1>3, <2>2 DEF RestDisjoint
<1>6. CASE poll'.pc \notin {"list", "hand"}
  BY <1>1, <1>3, <1>6 DEF RestDisjoint
<1>7. CASE poll.pc \in {"list", "hand"} /\ UNCHANGED listing /\ poll'.offset = poll.offset
  <2>1. Handled' \subseteq Handled
    BY <1>4 DEF Handled
  <2>2. Ahead' = Ahead /\ Behind' = Behind
    BY <1>7 DEF Ahead, Behind
  <2> QED BY <1>1, <1>3, <1>7, <2>1, <2>2 DEF ApisApart, RestDisjoint
<1> QED BY <1>5, <1>6, <1>7

(* What lies in a sequence from behind a place to another.                 *)
LEMMA Slice ==
    ASSUME NEW S, NEW s \in Seq(S), NEW from \in Nat, NEW to \in Nat, to <= Len(s),
           NEW i, i \in DOMAIN SubSeq(s, from + 1, to)
    PROVE  /\ i \in Nat \ {0} /\ from + i <= to
           /\ from + i \in DOMAIN s
           /\ SubSeq(s, from + 1, to)[i] = s[from + i]
<1> DEFINE slice == SubSeq(s, from + 1, to)
<1>1. /\ slice \in Seq(S)
      /\ Len(slice) = IF from + 1 <= to THEN to - (from + 1) + 1 ELSE 0
      /\ \A k \in 1..to - (from + 1) + 1 : slice[k] = s[from + 1 + k - 1]
  <2>1. \A k \in from + 1..to : s[k] \in S
    OBVIOUS
  <2> QED BY <2>1, SubSeqProperties
<1> HIDE DEF slice
<1>2. i \in 1..Len(slice)
  BY <1>1 DEF slice
<1>3. i \in Nat \ {0} /\ from + i <= to
  BY <1>1, <1>2
<1>4. from + i \in DOMAIN s
  BY <1>3
<1>5. slice[i] = s[from + i]
  <2>1. i \in 1..to - (from + 1) + 1 /\ from + 1 + i - 1 = from + i
    BY <1>3
  <2> QED BY <1>1, <2>1
<1> QED BY <1>3, <1>4, <1>5 DEF slice

(* The assets of a page are those behind the offset.                       *)
LEMMA PageIsListed ==
    ASSUME TypeOK, ListPage
    PROVE  /\ poll'.pc = "hand" /\ poll'.offset = poll.offset + PageSize
           /\ \A i \in DOMAIN poll'.page :
                /\ i \in Nat \ {0} /\ i <= PageSize
                /\ poll.offset + i \in DOMAIN listing
                /\ DOMAIN poll'.page[i] = DOMAIN listing[poll.offset + i]
                /\ \A j \in DOMAIN poll'.page[i] :
                     /\ poll'.page[i][j].api = listing[poll.offset + i][j]
                     /\ poll'.page[i][j].content = live[listing[poll.offset + i][j]].content
<1> USE PipelineAssumption
<1> DEFINE first == poll.offset + 1
           last == IF Len(listing) < poll.offset + PageSize THEN Len(listing)
                   ELSE poll.offset + PageSize
           assets == SubSeq(listing, first, last)
           entries == [i \in DOMAIN assets |->
                          [j \in DOMAIN assets[i] |->
                              [api |-> assets[i][j],
                               content |-> live[assets[i][j]].content]]]
<1>1. poll' = [pc |-> "hand", offset |-> poll.offset + PageSize, page |-> entries,
               more |-> Len(assets) = PageSize]
  BY DEF ListPage
<1>2. poll.offset \in Nat /\ listing \in Seq(Seq(Apis))
  BY DEF TypeOK
<1>3. last \in Nat /\ last <= Len(listing) /\ last <= poll.offset + PageSize
  BY <1>2
<1> HIDE DEF last
<1>4. ASSUME NEW i \in DOMAIN assets
      PROVE  /\ i \in Nat \ {0} /\ poll.offset + i <= last
             /\ poll.offset + i \in DOMAIN listing
             /\ assets[i] = listing[poll.offset + i]
  <2> DEFINE from == poll.offset
             S == Seq(Apis)
  <2>1. /\ from \in Nat /\ last \in Nat /\ last <= Len(listing) /\ listing \in Seq(S)
        /\ i \in DOMAIN SubSeq(listing, from + 1, last)
    BY <1>2, <1>3, <1>4
  <2> HIDE DEF from, S
  <2>2. /\ i \in Nat \ {0} /\ from + i <= last
        /\ from + i \in DOMAIN listing
        /\ SubSeq(listing, from + 1, last)[i] = listing[from + i]
    <3> HIDE DEF assets, first
    <3> QED BY ONLY <2>1, Slice
  <2> QED BY <2>2 DEF from
<1>5. ASSUME NEW i \in DOMAIN assets PROVE i <= PageSize
  BY <1>2, <1>3, <1>4
<1> HIDE DEF assets
<1>6. DOMAIN entries = DOMAIN assets
  OBVIOUS
<1>7. ASSUME NEW i \in DOMAIN assets
      PROVE  /\ DOMAIN entries[i] = DOMAIN assets[i]
             /\ \A j \in DOMAIN entries[i] :
                  /\ entries[i][j].api = assets[i][j]
                  /\ entries[i][j].content = live[assets[i][j]].content
  OBVIOUS
<1> HIDE DEF entries
<1> QED BY <1>1, <1>4, <1>5, <1>6, <1>7

LEMMA ListPageApart ==
    ASSUME TypeOK, ApisApart, ListPage, ListsOnce
    PROVE  /\ WorkDisjoint' /\ PageDisjoint' /\ RestDisjoint'
           /\ Handled' \subseteq Handled \cup Ahead
           /\ Handled' \cap Ahead' = {} /\ Ahead' \subseteq Ahead
           /\ Behind \subseteq Behind'
<1> DEFINE asset(i) == listing[poll.offset + i]
<1>1. /\ poll'.pc = "hand" /\ poll'.offset = poll.offset + PageSize
      /\ poll.pc = "list" /\ UNCHANGED <<listing, worker>>
      /\ poll.offset \in Nat /\ PageSize \in Nat /\ listing \in Listings
  BY PageIsListed, PipelineAssumption DEF ListPage, world, TypeOK
<1>n. DOMAIN listing \subseteq Nat
  <2>1. listing \in Seq(Seq(Apis))
    BY <1>1, PipelineAssumption
  <2> QED BY <2>1
<1>2. ASSUME NEW i \in DOMAIN poll'.page
      PROVE  /\ i \in Nat \ {0} /\ i <= PageSize /\ poll.offset + i \in DOMAIN listing
             /\ ApisOf(poll'.page[i]) = Elements(asset(i))
             /\ ApisOnce(poll'.page[i])
  <2>1. /\ i \in Nat \ {0} /\ i <= PageSize /\ poll.offset + i \in DOMAIN listing
        /\ DOMAIN poll'.page[i] = DOMAIN asset(i)
        /\ \A j \in DOMAIN poll'.page[i] : poll'.page[i][j].api = asset(i)[j]
    BY PageIsListed
  <2>2. Once(asset(i))
    BY <1>1, <2>1 DEF ListsOnce
  <2> HIDE DEF asset
  <2>3. ApisOf(poll'.page[i]) = Elements(asset(i))
    BY <2>1 DEF ApisOf, Elements
  <2>4. ApisOnce(poll'.page[i])
    BY <2>1, <2>2 DEF ApisOnce, Once
  <2> QED BY <2>1, <2>3, <2>4
<1>3. WorkDisjoint'
  BY <1>1 DEF ApisApart, WorkDisjoint, TodoOf
<1>4. OnPage' \subseteq Ahead
  <2> SUFFICES ASSUME NEW a \in OnPage' PROVE a \in Ahead
    OBVIOUS
  <2>1. PICK i \in DOMAIN poll'.page : a \in Elements(asset(i))
    BY <1>2 DEF OnPage
  <2>2. poll.offset + i \in DOMAIN listing /\ poll.offset + i > poll.offset
    BY <1>1, <1>2
  <2> QED BY <2>1, <2>2 DEF Ahead
<1>5. \A w \in Workers : TodoOf(w)' = TodoOf(w) /\ TodoOf(w) \cap Ahead = {}
  BY <1>1 DEF ApisApart, RestDisjoint, Handled, TodoOf
<1>6. PageDisjoint'
  <2>1. ASSUME NEW i \in DOMAIN poll'.page, NEW j \in DOMAIN poll'.page, i # j
        PROVE  ApisOf(poll'.page[i]) \cap ApisOf(poll'.page[j]) = {}
    <3>1. poll.offset + i # poll.offset + j
      BY <1>1, <1>2, <2>1
    <3> QED BY <1>1, <1>2, <3>1 DEF ListsOnce
  <2>2. \A w \in Workers : TodoOf(w)' \cap OnPage' = {}
    BY <1>4, <1>5
  <2> QED BY <1>2, <2>1, <2>2 DEF PageDisjoint
<1>7. Ahead' \subseteq Ahead
  BY <1>1, <1>n DEF Ahead
<1>8. OnPage' \cap Ahead' = {}
  <2> SUFFICES ASSUME NEW a \in OnPage', a \in Ahead' PROVE FALSE
    OBVIOUS
  <2>1. PICK i \in DOMAIN poll'.page : a \in Elements(asset(i))
    BY <1>2 DEF OnPage
  <2>2. PICK k \in DOMAIN listing : k > poll.offset + PageSize /\ a \in Elements(listing[k])
    BY <1>1 DEF Ahead
  <2>3. poll.offset + i \in DOMAIN listing /\ poll.offset + i # k
    BY <1>1, <1>2, <2>2
  <2> QED BY <1>1, <2>1, <2>2, <2>3 DEF ListsOnce
<1>9. Handled' \cap Ahead' = {}
  BY <1>5, <1>7, <1>8 DEF Handled
<1>b. Behind \subseteq Behind'
  <2>1. DOMAIN Listing \subseteq Nat
    BY PipelineAssumption
  <2> QED BY <1>1, <2>1 DEF Behind
<1>h. Handled' \subseteq Handled \cup Ahead
  BY <1>4, <1>5 DEF Handled
<1>10. ASSUME listing' = Listing PROVE Handled' \subseteq Behind'
  <2>1. \A w \in Workers : TodoOf(w) \subseteq Behind
    BY <1>1, <1>10 DEF ApisApart, RestDisjoint, Handled
  <2>3. OnPage' \subseteq Behind'
    <3> SUFFICES ASSUME NEW a \in OnPage' PROVE a \in Behind'
      OBVIOUS
    <3>1. PICK i \in DOMAIN poll'.page : a \in Elements(asset(i))
      BY <1>2 DEF OnPage
    <3>2. poll.offset + i \in DOMAIN Listing /\ poll.offset + i <= poll'.offset
      BY <1>1, <1>2, <1>10
    <3> QED BY <1>1, <1>10, <3>1, <3>2 DEF Behind
  <2> QED BY <1>5, <1>b, <2>1, <2>3 DEF Handled
<1> QED BY <1>3, <1>6, <1>7, <1>9, <1>10, <1>b, <1>h DEF RestDisjoint

(* A goroutine takes an asset from the page.                               *)
LEMMA HandOutApart ==
    ASSUME TypeOK, ApisApart, HandOut
    PROVE  /\ WorkDisjoint' /\ PageDisjoint' /\ RestDisjoint'
           /\ Handled' \subseteq Handled
           /\ \A w \in Workers : worker'[w].pc = "idle" => worker'[w].todo = <<>>
<1>1. PICK w \in Workers :
          worker[w].pc = "idle" /\ worker' = [worker EXCEPT ![w] = Resume(Head(poll.page), <<>>)]
  BY DEF HandOut
<1> DEFINE s == poll.page
           a == Head(s)
<1>2. /\ s \in Seq(Seq(Entry)) /\ s # <<>> /\ UNCHANGED listing /\ poll.pc = "hand"
      /\ poll'.page = Tail(s) /\ poll'.offset = poll.offset /\ poll'.pc = "hand"
  BY DEF HandOut, TypeOK, world
<1>3. worker'[w] = Resume(a, <<>>) /\ \A v \in Workers : v # w => worker'[v] = worker[v]
  BY <1>1 DEF TypeOK
<1>4. /\ a = s[1] /\ 1 \in DOMAIN s
      /\ \A i \in DOMAIN Tail(s) : i + 1 \in DOMAIN s /\ Tail(s)[i] = s[i + 1] /\ i \in Nat \ {0}
  BY <1>2
<1>5. worker'[w].todo = a /\ (worker'[w].pc = "idle" => a = <<>>)
  <2> HIDE DEF a
  <2> QED BY <1>3 DEF Resume, Idle
<1> HIDE DEF a, s
<1>6. TodoOf(w)' = ApisOf(a) /\ \A v \in Workers : v # w => TodoOf(v)' = TodoOf(v)
  BY <1>3, <1>5 DEF TodoOf
<1>7. ApisOf(a) \subseteq OnPage /\ ApisOnce(a)
  BY <1>4 DEF ApisApart, PageDisjoint, OnPage, s
<1>8. OnPage' \subseteq OnPage
  BY <1>2, <1>4 DEF OnPage, s
<1>9. OnPage' \cap ApisOf(a) = {}
  <2> SUFFICES ASSUME NEW i \in DOMAIN Tail(s) PROVE ApisOf(Tail(s)[i]) \cap ApisOf(a) = {}
    BY <1>2 DEF OnPage
  <2>1. i + 1 \in DOMAIN s /\ i + 1 # 1 /\ Tail(s)[i] = s[i + 1]
    BY <1>4
  <2> QED BY <1>4, <2>1 DEF ApisApart, PageDisjoint, s
<1>10. WorkDisjoint'
  <2>1. \A v \in Workers : ApisOnce(worker'[v].todo)
    BY <1>3, <1>5, <1>7 DEF ApisApart, WorkDisjoint
  <2>2. ASSUME NEW u \in Workers, NEW v \in Workers, u # v
        PROVE  TodoOf(u)' \cap TodoOf(v)' = {}
    BY <1>6, <1>7, <2>2 DEF ApisApart, WorkDisjoint, PageDisjoint
  <2> QED BY <2>1, <2>2 DEF WorkDisjoint
<1>11. PageDisjoint'
  <2>1. \A i \in DOMAIN Tail(s) : ApisOnce(Tail(s)[i])
    BY <1>4 DEF ApisApart, PageDisjoint, s
  <2>2. ASSUME NEW i \in DOMAIN Tail(s), NEW j \in DOMAIN Tail(s), i # j
        PROVE  ApisOf(Tail(s)[i]) \cap ApisOf(Tail(s)[j]) = {}
    <3>1. i + 1 # j + 1
      BY <1>4, <2>2
    <3> QED BY <1>4, <3>1 DEF ApisApart, PageDisjoint, s
  <2>3. \A v \in Workers : TodoOf(v)' \cap OnPage' = {}
    BY <1>6, <1>8, <1>9 DEF ApisApart, PageDisjoint
  <2> QED BY <1>2, <2>1, <2>2, <2>3 DEF PageDisjoint
<1>12. Handled' \subseteq Handled
  BY <1>6, <1>7, <1>8 DEF Handled
<1>13. RestDisjoint'
  BY <1>2, <1>12 DEF ApisApart, RestDisjoint, Ahead, Behind
<1>14. \A v \in Workers : worker'[v].pc = "idle" => worker'[v].todo = <<>>
  BY <1>3, <1>5 DEF ApisApart, QuietOutside
<1> QED BY <1>10, <1>11, <1>12, <1>13, <1>14

(* The list changes: what the pass has left behind stays behind.           *)
LEMMA RelistApart ==
    ASSUME TypeOK, ApisApart, Relist, ~Revert, NothingMovesBack
    PROVE  WorkDisjoint' /\ PageDisjoint' /\ RestDisjoint'
<1>1. /\ UNCHANGED <<worker, poll>> /\ listing = Listing
      /\ listing' \in Listings /\ listing' # Listing
  BY DEF Relist, process
<1>2. WorkDisjoint'
  BY <1>1 DEF ApisApart, WorkDisjoint, TodoOf
<1>3. PageDisjoint'
  BY <1>1 DEF ApisApart, PageDisjoint, TodoOf, OnPage
<1>4. Handled' = Handled
  BY <1>1 DEF Handled, OnPage, TodoOf
<1>5. ASSUME poll.pc \in {"list", "hand"} PROVE Handled' \cap Ahead' = {}
  <2> SUFFICES ASSUME NEW x \in Handled, x \in Ahead' PROVE FALSE
    BY <1>4
  <2>1. PICK i \in DOMAIN Listing : i <= poll.offset /\ x \in Elements(Listing[i])
    BY <1>1, <1>5 DEF ApisApart, RestDisjoint, Behind
  <2>2. PICK j \in DOMAIN listing' : j > poll.offset /\ x \in Elements(listing'[j])
    BY <1>1 DEF Ahead
  <2>3. i < j
    <3>1. Listing \in Seq(Seq(Apis)) /\ listing' \in Seq(Seq(Apis))
      BY <1>1, PipelineAssumption
    <3>2. DOMAIN Listing \subseteq Nat /\ DOMAIN listing' \subseteq Nat
      BY <3>1
    <3>3. poll.offset \in Nat
      BY DEF TypeOK
    <3> QED BY <2>1, <2>2, <3>2, <3>3
  <2> QED BY <1>1, <2>1, <2>2, <2>3 DEF NothingMovesBack
<1> QED BY <1>1, <1>2, <1>3, <1>5 DEF RestDisjoint

(* All goroutines go, and all that is under way with them.                 *)
LEMMA DieApart == ASSUME Die PROVE ApisApart'
<1>1. /\ \A w \in Workers : worker'[w].pc = "idle" /\ worker'[w].todo = <<>>
      /\ poll'.page = <<>> /\ poll'.pc = "down" /\ apiChan' = <<>> /\ pub' = None
  BY DEF Die, Idle, Stopped
<1>2. \A w \in Workers : TodoOf(w)' = {} /\ ApisOnce(worker'[w].todo)
  BY <1>1, NoApis DEF TodoOf
<1>3. WorkDisjoint' /\ PageDisjoint' /\ RestDisjoint'
  BY <1>1, <1>2 DEF WorkDisjoint, PageDisjoint, RestDisjoint, OnPage
<1> QED BY <1>1, <1>3 DEF ApisApart, QuietOutside, Drained

LEMMA ApartStep ==
    ASSUME Serial, ListsOnce, NothingMovesBack
    PROVE  TypeOK /\ ApisApart /\ [Next]_vars => ApisApart'
<1> SUFFICES ASSUME TypeOK, ApisApart, [Next]_vars PROVE ApisApart'
  OBVIOUS
<1>q. QuietOutside
  BY DEF ApisApart
<1>1. ASSUME UNCHANGED <<listing, poll, worker, apiChan, pub>> PROVE ApisApart'
  <2>1. \A w \in Workers : TodoOf(w)' \subseteq TodoOf(w) /\ ApisOnce(worker'[w].todo)
    BY <1>1 DEF ApisApart, WorkDisjoint, TodoOf
  <2>2. QuietOutside'
    BY <1>q, <1>1 DEF QuietOutside, Drained
  <2> QED BY <1>1, <2>1, <2>2, ApartLess DEF ApisApart
<1>2. ASSUME UNCHANGED <<worker, apiChan, pub>>, poll'.page = <<>>,
             \/ Drained
             \/ poll'.pc \in {"list", "sleep"} /\ poll.pc = "list"
             \/ poll'.pc = "sleep"
             \/ poll'.pc = "list" /\ poll.pc = "hand"
      PROVE  QuietOutside'
  BY <1>q, <1>2 DEF QuietOutside, Drained
<1>3. ASSUME UNCHANGED <<worker, apiChan, pub>>, poll'.page = <<>>, Drained
      PROVE  ApisApart'
  BY <1>2, <1>3, ApartPoll DEF ApisApart
<1>4. CASE (\E a \in Apis : Edit(a)) \/ Reconfigure
  BY <1>1, <1>4 DEF Edit, Reconfigure, process
<1>5. CASE Relist
  <2>1. QuietOutside'
    BY <1>q, <1>5 DEF QuietOutside, Drained, Relist, process
  <2> QED BY <1>5, <2>1, RelistApart DEF ApisApart, Serial
<1>6. CASE GetRevisions \/ Restart \/ StopPublishing \/ SetTags \/ SetIgnoreTags
  <2>1. poll.pc \notin {"list", "hand", "sleep"} /\ poll'.page = <<>>
        /\ UNCHANGED <<worker, apiChan, pub>>
    BY <1>6 DEF GetRevisions, Restart, StopPublishing, SetTags, SetIgnoreTags, Stopped
  <2>2. Drained
    BY <1>q, <2>1 DEF QuietOutside
  <2> QED BY <1>3, <2>1, <2>2
<1>7. CASE Tick \/ StopPolling
  <2>1. Drained /\ poll'.page = <<>> /\ UNCHANGED <<worker, apiChan, pub>>
    BY <1>7 DEF Tick, StopPolling, Stopped, Serial
  <2> QED BY <1>3, <2>1
<1>8. CASE ListFails
  <2>1. poll'.pc = "sleep" /\ poll'.page = <<>> /\ UNCHANGED <<worker, apiChan, pub>>
    BY <1>8 DEF ListFails, Stopped
  <2> QED BY <1>2, <2>1, ApartPoll DEF ApisApart
<1>9. CASE PageDone
  <2>1. /\ poll.pc = "hand" /\ poll'.page = <<>>
        /\ UNCHANGED <<listing, worker, apiChan, pub>>
        /\ \/ poll'.pc = "list" /\ poll'.offset = poll.offset
           \/ poll'.pc = "sleep"
    BY <1>9 DEF PageDone, Stopped, world, TypeOK
  <2>2. WorkDisjoint' /\ PageDisjoint' /\ RestDisjoint'
    BY <2>1, ApartPoll
  <2> QED BY <1>2, <2>1, <2>2 DEF ApisApart
<1>10. CASE ListPage
  <2>1. poll'.pc = "hand" /\ UNCHANGED <<worker, apiChan, pub>>
    BY <1>10 DEF ListPage
  <2>2. QuietOutside'
    BY <1>q, <2>1 DEF QuietOutside
  <2> QED BY <1>10, <2>2, ListPageApart DEF ApisApart
<1>11. CASE HandOut
  <2>1. poll'.pc = "hand"
    BY <1>11 DEF HandOut, TypeOK
  <2> QED BY <1>11, <2>1, HandOutApart DEF ApisApart, QuietOutside
<1>12. ASSUME NEW w \in Workers, Process(w) PROVE ApisApart'
  <2>1. /\ UNCHANGED <<listing, poll, pub>>
        /\ \A v \in Workers : v # w => worker'[v] = worker[v]
        /\ worker[w].pc # "idle"
        /\ worker'[w].pc = "idle" => worker'[w].todo = <<>>
    BY <1>12, TodoStep
  <2>2. TodoOf(w)' \subseteq TodoOf(w) /\ ApisOnce(worker'[w].todo)
    <3>1. ApisOnce(worker[w].todo)
      BY DEF ApisApart, WorkDisjoint
    <3>2. worker[w].todo \in Seq(Entry)
      BY DEF TypeOK, WorkerState, WorkerType
    <3>3. CASE worker'[w].todo = worker[w].todo
      BY <3>1, <3>3 DEF TodoOf
    <3>4. CASE worker[w].todo # <<>> /\ worker'[w].todo = Tail(worker[w].todo)
      BY <3>1, <3>2, <3>4, TailApis DEF TodoOf
    <3>5. CASE worker'[w].todo = <<>>
      BY <3>5, NoApis DEF TodoOf
    <3> QED BY <1>12, <3>3, <3>4, <3>5, TodoStep
  <2>3. \A v \in Workers : TodoOf(v)' \subseteq TodoOf(v) /\ ApisOnce(worker'[v].todo)
    BY <2>1, <2>2 DEF ApisApart, WorkDisjoint, TodoOf
  <2>4. WorkDisjoint' /\ PageDisjoint' /\ RestDisjoint'
    BY <2>1, <2>3, ApartLess
  <2>5. poll.pc \in {"list", "hand", "sleep"}
    BY <1>q, <2>1 DEF QuietOutside, Drained
  <2> QED BY <1>q, <2>1, <2>4, <2>5 DEF ApisApart, QuietOutside
<1>13. CASE \E w \in Workers : GetAPIPanics(w)
  BY <1>13, DieApart DEF GetAPIPanics
<1>14. CASE Crash
  BY <1>14, DieApart DEF Crash
<1>15. CASE Publisher
  <2>1. UNCHANGED <<listing, poll, worker>> /\ (apiChan # <<>> \/ pub # None)
    BY <1>15 DEF Publisher, Receive, Publish, PublishFails, world
  <2>2. \A v \in Workers : TodoOf(v)' \subseteq TodoOf(v) /\ ApisOnce(worker'[v].todo)
    BY <2>1 DEF ApisApart, WorkDisjoint, TodoOf
  <2>3. WorkDisjoint' /\ PageDisjoint' /\ RestDisjoint'
    BY <2>1, <2>2, ApartLess
  <2>4. poll.pc \in {"list", "hand", "sleep"}
    BY <1>q, <2>1 DEF QuietOutside, Drained
  <2> QED BY <1>q, <2>1, <2>3, <2>4 DEF ApisApart, QuietOutside
<1>16. CASE UNCHANGED vars
  BY <1>1, <1>16 DEF vars
<1> QED BY <1>4, <1>5, <1>6, <1>7, <1>8, <1>9, <1>10, <1>11, <1>12, <1>13, <1>14, <1>15, <1>16
        DEF Next, Poller, Handler
-----------------------------------------------------------------------------
(* Each detail stays in one place.                                         *)

LEMMA OnceAppend ==
    ASSUME NEW S, NEW s \in Seq(S), NEW e \in S, Once(s), e \notin Elements(s)
    PROVE  Once(Append(s, e))
<1>1. \A i \in DOMAIN Append(s, e) :
        \/ i \in DOMAIN s /\ Append(s, e)[i] = s[i]
        \/ i = Len(s) + 1 /\ Append(s, e)[i] = e
  OBVIOUS
<1>2. \A i \in DOMAIN s : s[i] # e
  BY DEF Elements
<1> QED BY <1>1, <1>2 DEF Once

LEMMA OnceTail ==
    ASSUME NEW S, NEW s \in Seq(S), s # <<>>, Once(s)
    PROVE  Once(Tail(s)) /\ Head(s) \notin Elements(Tail(s))
<1>1. /\ \A i \in DOMAIN Tail(s) : i + 1 \in DOMAIN s /\ Tail(s)[i] = s[i + 1] /\ i \in Nat \ {0}
      /\ 1 \in DOMAIN s /\ Head(s) = s[1]
  OBVIOUS
<1>2. ASSUME NEW i \in DOMAIN Tail(s), NEW j \in DOMAIN Tail(s), Tail(s)[i] = Tail(s)[j]
      PROVE  i = j
  <2>1. i + 1 = j + 1
    BY <1>1, <1>2 DEF Once
  <2> QED BY <1>1, <2>1
<1>3. ASSUME NEW i \in DOMAIN Tail(s) PROVE Tail(s)[i] # Head(s)
  <2>1. i + 1 # 1
    BY <1>1
  <2> QED BY <1>1, <2>1 DEF Once
<1> QED BY <1>2, <1>3 DEF Once, Elements

LEMMA PlacesType ==
    ASSUME TypeOK
    PROVE  Building \cup Built \cup Elements(apiChan) \subseteq Checksum
<1>1. \A w \in Workers : worker[w] \in WorkerState /\ worker[w].out \in Seq(Checksum)
  BY DEF TypeOK, WorkerState, WorkerType
<1>2. Building \subseteq Checksum
  BY <1>1 DEF Building, At, WorkerState
<1>3. Built \subseteq Checksum
  <2>1. \A w \in Workers : Elements(worker[w].out) \subseteq Checksum
    BY <1>1 DEF Elements
  <2> QED BY <2>1 DEF Built
<1>4. Elements(apiChan) \subseteq Checksum
  BY DEF TypeOK, Elements
<1> QED BY <1>2, <1>3, <1>4

(* Two goroutines never have the same checksum in their hands.             *)
LEMMA SumsDiffer ==
    ASSUME TypeOK, ApisApart, NEW v \in Workers, NEW w \in Workers, v # w,
           worker[v].pc \in {"save", "spec"}, worker[w].pc \in {"save", "spec"}
    PROVE  worker[v].sum # worker[w].sum
<1>1. ASSUME NEW u \in Workers, worker[u].pc \in {"save", "spec"}
      PROVE  worker[u].sum.api \in TodoOf(u)
  <2>1. /\ worker[u].todo \in Seq(Entry) /\ worker[u].todo # <<>>
        /\ worker[u].sum.api = Head(worker[u].todo).api
    BY <1>1 DEF TypeOK, WorkerState, WorkerType
  <2>2. 1 \in DOMAIN worker[u].todo /\ Head(worker[u].todo) = worker[u].todo[1]
    BY <2>1
  <2> QED BY <2>1, <2>2 DEF TodoOf, ApisOf
<1> QED BY <1>1 DEF ApisApart, WorkDisjoint

(* A step of a goroutine that keeps what it has built.                     *)
LEMMA PlacedQuiet ==
    ASSUME OncePlaced, NEW w \in Workers,
           \A v \in Workers : v # w => worker'[v] = worker[v],
           worker'[w].out = worker[w].out, worker'[w].pc # "spec",
           worker'[w].pc = "save" => worker'[w].sum \notin cache,
           UNCHANGED <<central, cache, apiChan, pub>>
    PROVE  OncePlaced'
<1>1. \A v \in Workers : worker'[v].out = worker[v].out
  OBVIOUS
<1>2. Built' = Built
  BY <1>1 DEF Built
<1>3. Building' \subseteq Building
  BY DEF Building, At
<1>4. PlacesOnce'
  BY <1>1 DEF OncePlaced, PlacesOnce
<1>5. PlacesApart'
  BY <1>1, <1>2, <1>3 DEF OncePlaced, PlacesApart, InFlight
<1>6. SaveIsNew'
  BY DEF OncePlaced, SaveIsNew, At
<1> QED BY <1>4, <1>5, <1>6 DEF OncePlaced

LEMMA SavePlaced ==
    ASSUME TypeOK, Known, ApisApart, OncePlaced, NEW w \in Workers, Save(w)
    PROVE  OncePlaced'
<1> DEFINE sum == worker[w].sum
<1>0. worker \in [Workers -> WorkerState] /\ worker[w] \in WorkerState
  BY DEF TypeOK
<1>1. /\ \A v \in Workers : v # w => worker'[v] = worker[v]
      /\ worker'[w].pc = "spec" /\ worker'[w].sum = sum /\ worker'[w].out = worker[w].out
      /\ UNCHANGED <<central, apiChan, pub>> /\ cache' = cache \cup {sum}
      /\ worker[w].pc = "save"
  BY <1>0 DEF Save, At, WorkerState, WorkerType
<1>2. poll.pc \notin {"down", "revisions"}
  BY <1>1 DEF ApisApart, QuietOutside, Drained
<1>3. sum \notin Elements(central) \cup InFlight
  BY <1>1, <1>2 DEF OncePlaced, SaveIsNew, At, Known, RevisionsKnown
<1>4. sum \in Checksum
  BY <1>0, <1>1 DEF WorkerState
<1>5. sum # pub
  BY <1>3, <1>4, NoneAssumption DEF InFlight
<1>6. \A v \in Workers : worker'[v].out = worker[v].out
  BY <1>1
<1>7. Built' = Built
  BY <1>6 DEF Built
<1>8. Building' = Building \cup {sum}
  BY <1>1 DEF Building, At
<1>9. PlacesOnce'
  BY <1>1, <1>6 DEF OncePlaced, PlacesOnce
<1> HIDE DEF sum
<1>10. PlacesApart'
  BY <1>1, <1>3, <1>5, <1>6, <1>7, <1>8 DEF OncePlaced, PlacesApart, InFlight
<1>11. ASSUME NEW v \in Workers, worker'[v].pc = "save" PROVE worker'[v].sum \notin cache'
  <2>1. v # w /\ worker'[v] = worker[v] /\ worker[v].pc = "save"
    BY <1>1, <1>11
  <2>2. worker[v].sum # sum
    BY <1>1, <2>1, SumsDiffer DEF sum
  <2> QED BY <1>1, <2>1, <2>2 DEF OncePlaced, SaveIsNew, At
<1>12. SaveIsNew'
  BY <1>11 DEF SaveIsNew, At
<1> QED BY <1>9, <1>10, <1>12 DEF OncePlaced

LEMMA BuildPlaced ==
    ASSUME TypeOK, ApisApart, OncePlaced, NEW w \in Workers, BuildDetail(w),
           Job(w).api \in WithSpec
    PROVE  OncePlaced'
<1> DEFINE sum == worker[w].sum
<1>0. worker \in [Workers -> WorkerState] /\ worker[w] \in WorkerState /\ worker[w].pc = "spec"
  BY DEF TypeOK, BuildDetail, At
<1>1. sum \in Checksum /\ worker[w].out \in Seq(Checksum)
  BY <1>0 DEF WorkerState, WorkerType
<1>2. UNCHANGED <<central, cache, apiChan, pub>> /\ NextApi(w, <<sum>>)
  BY DEF BuildDetail, known
<1> HIDE DEF sum
<1>3. worker[w].out \o <<sum>> = Append(worker[w].out, sum)
  BY <1>1
<1>4. /\ \A v \in Workers : v # w => worker'[v] = worker[v]
      /\ worker'[w] = Resume(Tail(worker[w].todo), Append(worker[w].out, sum))
  BY <1>0, <1>2, <1>3 DEF NextApi
<1>5. /\ worker'[w].out = Append(worker[w].out, sum)
      /\ worker'[w].pc \in {"idle", "detail", "send"}
  <2> DEFINE todo == Tail(worker[w].todo)
             out == Append(worker[w].out, sum)
  <2>1. worker'[w] = Resume(todo, out)
    BY <1>4
  <2> HIDE DEF todo, out
  <2>2. worker'[w].out = out /\ worker'[w].pc \in {"idle", "detail", "send"}
    BY <2>1, ResumePlaces
  <2> QED BY <2>2 DEF out
<1>6. sum \in Building
  BY <1>0 DEF Building, At, sum
<1>7. /\ sum \notin Elements(central) \cup Elements(apiChan) \cup Built /\ sum # pub
  BY <1>6 DEF OncePlaced, PlacesApart, InFlight
<1>8. Elements(worker'[w].out) = Elements(worker[w].out) \cup {sum}
  BY <1>1, <1>5, AppendElements
<1>9. sum \notin Building' /\ Building' \subseteq Building
  <2>1. \A v \in Workers : v # w /\ worker[v].pc = "spec" => worker[v].sum # sum
    BY <1>0, SumsDiffer DEF sum
  <2> QED BY <1>4, <1>5, <2>1 DEF Building, At
<1>10. Built' \subseteq Built \cup {sum}
  BY <1>4, <1>8 DEF Built
<1>11. \A v \in Workers : sum \notin Elements(worker[v].out)
  BY <1>7 DEF Built
<1>12. PlacesOnce'
  <2>1. Once(worker'[w].out)
    BY <1>1, <1>5, <1>11, OnceAppend DEF OncePlaced, PlacesOnce
  <2> QED BY <1>2, <1>4, <2>1 DEF OncePlaced, PlacesOnce
<1>13. PlacesApart'
  <2>1. ASSUME NEW u \in Workers, NEW v \in Workers, u # v
        PROVE  Elements(worker'[u].out) \cap Elements(worker'[v].out) = {}
    BY <1>4, <1>8, <1>11, <2>1 DEF OncePlaced, PlacesApart
  <2> QED BY <1>2, <1>6, <1>7, <1>9, <1>10, <2>1 DEF OncePlaced, PlacesApart, InFlight
<1>14. SaveIsNew'
  BY <1>2, <1>4, <1>5 DEF OncePlaced, SaveIsNew, At
<1> QED BY <1>12, <1>13, <1>14 DEF OncePlaced

LEMMA SendPlaced ==
    ASSUME TypeOK, OncePlaced, NEW w \in Workers, Send(w)
    PROVE  OncePlaced'
<1> DEFINE out == worker[w].out
           sum == Head(out)
<1>0. worker \in [Workers -> WorkerState] /\ worker[w] \in WorkerState /\ worker[w].pc = "send"
  BY DEF TypeOK, Send, At
<1>1. out \in Seq(Checksum) /\ out # <<>> /\ apiChan \in Seq(Checksum)
  BY <1>0 DEF WorkerState, WorkerType, TypeOK
<1>2. UNCHANGED <<central, cache, pub>> /\ apiChan' = Append(apiChan, sum)
  BY DEF Send, known
<1>3. worker' = [worker EXCEPT ![w] = Resume(<<>>, Tail(out))]
  BY <1>0 DEF Send
<1>4. Once(out)
  BY DEF OncePlaced, PlacesOnce
<1> HIDE DEF out, sum
<1>5. /\ \A v \in Workers : v # w => worker'[v] = worker[v]
      /\ worker'[w].out = Tail(out) /\ worker'[w].pc \in {"idle", "detail", "send"}
  BY <1>0, <1>3, ResumePlaces
<1>6. /\ sum \in Checksum /\ sum \notin Elements(Tail(out)) /\ Once(Tail(out))
      /\ Elements(out) = {sum} \cup Elements(Tail(out))
  BY <1>1, <1>4, HeadTailElements, OnceTail DEF sum
<1>7. \A v \in Workers : v # w => sum \notin Elements(worker'[v].out)
  BY <1>5, <1>6 DEF OncePlaced, PlacesApart, out
<1>8. \A v \in Workers : Elements(worker'[v].out) \subseteq Elements(worker[v].out)
  BY <1>5, <1>6 DEF out
<1>9. Built' \subseteq Built /\ sum \notin Built' /\ sum \in Built
  <2>1. \A v \in Workers : sum \notin Elements(worker'[v].out)
    BY <1>5, <1>6, <1>7
  <2>2. sum \in Elements(worker[w].out)
    BY <1>6 DEF out
  <2> QED BY <1>8, <2>1, <2>2 DEF Built
<1>10. Building' \subseteq Building
  BY <1>5 DEF Building, At
<1>11. Elements(apiChan') = Elements(apiChan) \cup {sum} /\ sum \notin Elements(apiChan)
  BY <1>1, <1>2, <1>6, <1>9, AppendElements DEF OncePlaced, PlacesApart
<1>12. PlacesOnce'
  <2>1. Once(apiChan')
    BY <1>1, <1>2, <1>6, <1>11, OnceAppend DEF OncePlaced, PlacesOnce
  <2> QED BY <1>2, <1>5, <1>6, <2>1 DEF OncePlaced, PlacesOnce
<1>13. PlacesApart'
  <2>1. ASSUME NEW u \in Workers, NEW v \in Workers, u # v
        PROVE  Elements(worker'[u].out) \cap Elements(worker'[v].out) = {}
    BY <1>8, <2>1 DEF OncePlaced, PlacesApart
  <2>2. InFlight' \subseteq InFlight
    BY <1>2, <1>9, <1>10, <1>11 DEF InFlight
  <2>3. sum \notin Building' /\ sum # pub
    BY <1>9, <1>10 DEF OncePlaced, PlacesApart
  <2>4. Elements(apiChan') \cap (Building' \cup Built' \cup {pub}) = {}
    BY <1>9, <1>10, <1>11, <2>3 DEF OncePlaced, PlacesApart
  <2> QED BY <1>2, <1>9, <1>10, <2>1, <2>2, <2>4 DEF OncePlaced, PlacesApart
<1>14. SaveIsNew'
  BY <1>2, <1>5 DEF OncePlaced, SaveIsNew, At
<1> QED BY <1>12, <1>13, <1>14 DEF OncePlaced

LEMMA ProcessPlaced ==
    ASSUME TypeOK, Known, ApisApart, OncePlaced, NEW w \in Workers, Process(w)
    PROVE  OncePlaced'
<1> USE DEF known
<1>0. worker \in [Workers -> WorkerState] /\ worker[w] \in WorkerState
  BY DEF TypeOK
<1>1. ASSUME UNCHANGED <<central, cache, apiChan, pub>>, NextApi(w, <<>>)
      PROVE  OncePlaced'
  <2> DEFINE todo == Tail(worker[w].todo)
             out == worker[w].out
  <2>1. out \o <<>> = out
    BY <1>0 DEF WorkerState, WorkerType
  <2>2. worker' = [worker EXCEPT ![w] = Resume(todo, out)]
    BY <1>1, <2>1 DEF NextApi
  <2>3. worker'[w] = Resume(todo, out) /\ \A v \in Workers : v # w => worker'[v] = worker[v]
    BY <1>0, <2>2
  <2> HIDE DEF todo, out
  <2>4. worker'[w].out = out /\ worker'[w].pc \in {"idle", "detail", "send"}
    BY <2>3, ResumePlaces
  <2> QED BY <1>1, <2>3, <2>4, PlacedQuiet DEF out
<1>2. ASSUME UNCHANGED <<central, cache, apiChan, pub>>, NEW r, worker' = [worker EXCEPT ![w] = r],
             r.out = worker[w].out, r.pc # "spec", r.pc = "save" => r.sum \notin cache
      PROVE  OncePlaced'
  <2>1. worker'[w] = r /\ \A v \in Workers : v # w => worker'[v] = worker[v]
    BY <1>0, <1>2
  <2> QED BY <1>2, <2>1, PlacedQuiet
<1>3. CASE SkipUnwanted(w) \/ PoliciesFail(w) \/ BuildFails(w)
  BY <1>1, <1>3 DEF SkipUnwanted, PoliciesFail, BuildFails
<1>4. CASE GetAPI(w)
  <2> DEFINE r == [worker[w] EXCEPT !.pc = "policies", !.proxy = live[Job(w).api].proxy]
  <2>1. worker' = [worker EXCEPT ![w] = r]
    BY <1>0, <1>4 DEF GetAPI
  <2>2. r.out = worker[w].out /\ r.pc = "policies"
    BY <1>0 DEF WorkerState, WorkerType
  <2> QED BY <1>2, <1>4, <2>1, <2>2 DEF GetAPI
<1>5. CASE GetPolicies(w)
  <2>1. CASE Incompatible(live[Job(w).api].policies)
    BY <1>1, <1>5, <2>1 DEF GetPolicies
  <2>2. CASE ~Incompatible(live[Job(w).api].policies)
    <3> DEFINE sum == [api |-> Job(w).api, content |-> Job(w).content,
                       proxy |-> worker[w].proxy,
                       config |-> Configuration(live[Job(w).api].policies)]
               r == [worker[w] EXCEPT !.pc = "lookup", !.proxy = None, !.sum = sum]
    <3>1. worker' = [worker EXCEPT ![w] = r]
      BY <1>0, <1>5, <2>2 DEF GetPolicies
    <3>2. r.out = worker[w].out /\ r.pc = "lookup"
      BY <1>0 DEF WorkerState, WorkerType
    <3> QED BY <1>2, <1>5, <3>1, <3>2 DEF GetPolicies
  <2> QED BY <2>1, <2>2
<1>6. CASE Lookup(w)
  <2>1. CASE worker[w].sum \in cache
    BY <1>1, <1>6, <2>1 DEF Lookup
  <2>2. CASE worker[w].sum \notin cache
    <3> DEFINE r == [worker[w] EXCEPT !.pc = "save"]
    <3>1. worker' = [worker EXCEPT ![w] = r]
      BY <1>0, <1>6, <2>2 DEF Lookup
    <3>2. r.out = worker[w].out /\ r.pc = "save" /\ r.sum = worker[w].sum
      BY <1>0 DEF WorkerState, WorkerType
    <3> QED BY <1>2, <1>6, <2>2, <3>1, <3>2 DEF Lookup
  <2> QED BY <2>1, <2>2
<1>7. CASE BuildDetail(w)
  BY <1>1, <1>7, BuildPlaced DEF BuildDetail
<1> QED BY <1>3, <1>4, <1>5, <1>6, <1>7, SavePlaced, SendPlaced DEF Process

LEMMA PublisherPlaced ==
    ASSUME TypeOK, OncePlaced, Publisher
    PROVE  OncePlaced'
<1>1. UNCHANGED <<worker, cache>>
  BY DEF Publisher, Receive, Publish, PublishFails, known
<1>2. Building' = Building /\ Built' = Built
  BY <1>1 DEF Building, Built, At
<1>3. SaveIsNew' /\ \A w \in Workers : Once(worker'[w].out)
  BY <1>1 DEF OncePlaced, SaveIsNew, PlacesOnce, At
<1>4. \A v, w \in Workers : v # w => Elements(worker'[v].out) \cap Elements(worker'[w].out) = {}
  BY <1>1 DEF OncePlaced, PlacesApart
<1>5. central \in Seq(Checksum) /\ apiChan \in Seq(Checksum) /\ Once(central) /\ Once(apiChan)
  BY DEF TypeOK, OncePlaced, PlacesOnce
<1>6. None \notin Building \cup Built \cup Elements(apiChan)
  BY PlacesType, NoneAssumption
(* Enough: what leaves one place for another is in no third.               *)
<1>7. ASSUME Once(central'), Once(apiChan'),
             Elements(central') \cap InFlight' = {},
             Elements(apiChan') \cap (Building \cup Built \cup {pub'}) = {},
             pub' \notin Building \cup Built
      PROVE  OncePlaced'
  <2>1. PlacesOnce'
    BY <1>3, <1>7 DEF PlacesOnce
  <2>2. PlacesApart'
    BY <1>2, <1>4, <1>7 DEF OncePlaced, PlacesApart
  <2> QED BY <1>3, <2>1, <2>2 DEF OncePlaced
<1>8. CASE Receive
  <2>1. apiChan # <<>> /\ pub' = Head(apiChan) /\ apiChan' = Tail(apiChan) /\ central' = central
    BY <1>8 DEF Receive
  <2>2. /\ Once(apiChan') /\ pub' \notin Elements(apiChan')
        /\ Elements(apiChan) = {pub'} \cup Elements(apiChan')
    BY <1>5, <2>1, HeadTailElements, OnceTail
  <2>3. InFlight' \subseteq InFlight
    BY <1>2, <1>6, <2>2 DEF InFlight
  <2> QED BY <1>5, <1>7, <2>1, <2>2, <2>3 DEF OncePlaced, PlacesApart
<1>9. CASE Publish
  <2>1. pub # None /\ central' = Append(central, pub) /\ pub' = None /\ apiChan' = apiChan
    BY <1>9 DEF Publish
  <2>2. pub \in Checksum /\ pub \in InFlight /\ pub \notin Elements(central)
    BY <2>1 DEF TypeOK, InFlight, OncePlaced, PlacesApart
  <2>3. Once(central') /\ Elements(central') = Elements(central) \cup {pub}
    BY <1>5, <2>1, <2>2, OnceAppend, AppendElements
  <2>4. InFlight' \subseteq InFlight /\ pub \notin InFlight'
    BY <1>2, <2>1 DEF InFlight, OncePlaced, PlacesApart
  <2> QED BY <1>5, <1>6, <1>7, <2>1, <2>3, <2>4 DEF OncePlaced, PlacesApart
<1>10. CASE PublishFails
  <2>1. pub' = None /\ apiChan' = apiChan /\ central' = central
    BY <1>10 DEF PublishFails
  <2>2. InFlight' \subseteq InFlight
    BY <1>2, <2>1 DEF InFlight
  <2> QED BY <1>5, <1>6, <1>7, <2>1, <2>2 DEF OncePlaced, PlacesApart
<1> QED BY <1>8, <1>9, <1>10 DEF Publisher

(* Nothing is under way, and Central is as it was.                         *)
LEMMA DiePlaced ==
    ASSUME OncePlaced, Die, UNCHANGED central
    PROVE  OncePlaced'
<1>1. \A w \in Workers : worker'[w].pc = "idle" /\ worker'[w].out = <<>>
  BY DEF Die, Idle
<1>2. InFlight' = {} /\ Building' \cup Built' = {}
  BY DieEmpties DEF InFlight
<1>3. Once(<<>>) /\ Elements(<<>>) = {} /\ apiChan' = <<>>
  BY DEF Once, Elements, Die
<1>4. PlacesOnce'
  BY <1>1, <1>3 DEF OncePlaced, PlacesOnce
<1>5. PlacesApart'
  BY <1>1, <1>2, <1>3 DEF PlacesApart
<1>6. SaveIsNew'
  BY <1>1 DEF SaveIsNew, At
<1> QED BY <1>4, <1>5, <1>6 DEF OncePlaced

LEMMA PlacedStep ==
    TypeOK /\ Known /\ ApisApart /\ OncePlaced /\ [Next]_vars => OncePlaced'
<1> SUFFICES ASSUME TypeOK, Known, ApisApart, OncePlaced, [Next]_vars PROVE OncePlaced'
  OBVIOUS
<1> USE DEF known
<1>1. ASSUME UNCHANGED <<central, worker, apiChan, pub>>, SaveIsNew' PROVE OncePlaced'
  <2>1. Building' = Building /\ Built' = Built /\ InFlight' = InFlight
    BY <1>1 DEF InFlight, Building, Built, At
  <2>2. PlacesOnce'
    BY <1>1 DEF OncePlaced, PlacesOnce
  <2>3. PlacesApart'
    BY <1>1, <2>1 DEF OncePlaced, PlacesApart
  <2> QED BY <1>1, <2>2, <2>3 DEF OncePlaced
<1>2. ASSUME UNCHANGED <<central, cache, worker, apiChan, pub>> PROVE OncePlaced'
  BY <1>1, <1>2 DEF OncePlaced, SaveIsNew, At
<1>3. CASE Relist \/ Reconfigure \/ \E a \in Apis : Edit(a)
  BY <1>2, <1>3 DEF Edit, Relist, Reconfigure, process
<1>4. CASE GetRevisions
  <2>1. poll.pc = "revisions" /\ UNCHANGED <<central, worker, apiChan, pub>>
    BY <1>4 DEF GetRevisions
  <2>2. \A w \in Workers : worker[w].pc = "idle"
    BY <2>1 DEF ApisApart, QuietOutside, Drained
  <2>3. SaveIsNew'
    BY <2>1, <2>2 DEF SaveIsNew, At
  <2> QED BY <1>1, <2>1, <2>3
<1>5. CASE ListPage \/ ListFails \/ PageDone \/ Tick \/ Handler \/ Restart
  BY <1>2, <1>5 DEF ListPage, ListFails, PageDone, Tick, Handler, StopPolling, StopPublishing,
                    SetTags, SetIgnoreTags, Restart
<1>6. CASE HandOut
  <2>1. PICK w \in Workers : /\ worker[w].pc = "idle"
                             /\ worker' = [worker EXCEPT ![w] = Resume(Head(poll.page), <<>>)]
    BY <1>6 DEF HandOut
  <2> DEFINE todo == Head(poll.page)
  <2>2. /\ worker'[w] = Resume(todo, <<>>) /\ \A v \in Workers : v # w => worker'[v] = worker[v]
        /\ worker[w].out = <<>>
    BY <2>1 DEF TypeOK, WorkerState
  <2> HIDE DEF todo
  <2>3. worker'[w].out = <<>> /\ worker'[w].pc \in {"idle", "detail", "send"}
    BY <2>2, ResumePlaces
  <2>4. UNCHANGED <<central, cache, apiChan, pub>>
    BY <1>6 DEF HandOut
  <2> QED BY <2>2, <2>3, <2>4, PlacedQuiet
<1>7. CASE \E w \in Workers : Process(w)
  BY <1>7, ProcessPlaced
<1>8. CASE \E w \in Workers : GetAPIPanics(w)
  BY <1>8, DiePlaced DEF GetAPIPanics
<1>9. CASE Crash
  BY <1>9, DiePlaced DEF Crash
<1>10. CASE Publisher
  BY <1>10, PublisherPlaced
<1>11. CASE UNCHANGED vars
  BY <1>2, <1>11 DEF vars
<1> QED BY <1>3, <1>4, <1>5, <1>6, <1>7, <1>8, <1>9, <1>10, <1>11 DEF Next, Poller
-----------------------------------------------------------------------------
LEMMA OnceInit == Init => Known /\ ApisApart /\ OncePlaced
<1> SUFFICES ASSUME Init PROVE Known /\ ApisApart /\ OncePlaced
  OBVIOUS
<1>1. /\ poll.pc = "revisions" /\ poll.page = <<>> /\ apiChan = <<>> /\ pub = None
      /\ central = <<>>
      /\ \A w \in Workers : /\ worker[w].pc = "idle"
                            /\ worker[w].todo = <<>> /\ worker[w].out = <<>>
  BY DEF Init, Stopped, Idle
<1>2. Elements(<<>>) = {} /\ Once(<<>>)
  BY DEF Elements, Once
<1>3. Building = {} /\ Built = {} /\ InFlight = {}
  BY <1>1, <1>2 DEF InFlight, Building, Built, At
<1>4. Known
  BY <1>1, <1>3 DEF Known, RevisionsKnown
<1>5. \A w \in Workers : TodoOf(w) = {} /\ ApisOnce(worker[w].todo)
  BY <1>1, NoApis DEF TodoOf
<1>6. ApisApart
  BY <1>1, <1>5 DEF ApisApart, WorkDisjoint, PageDisjoint, RestDisjoint, QuietOutside, OnPage,
                    Drained
<1>7. PlacesOnce /\ PlacesApart /\ SaveIsNew
  BY <1>1, <1>2, <1>3 DEF PlacesOnce, PlacesApart, SaveIsNew, At
<1> QED BY <1>4, <1>6, <1>7 DEF OncePlaced

(* No checksum reaches Central twice, across pages, passes, edits, a       *)
(* changing list, failing calls, changes of the configuration, crashes and *)
(* restarts, as long as a pass waits for the one before, the revisions can *)
(* be loaded, and the list, which names no API twice, changes at most once *)
(* and then moves no API to a later place.                                 *)
THEOREM RevisionsAreUnique ==
    ASSUME Serial, ListsOnce, NothingMovesBack
    PROVE  Spec => []NoDuplicateRevision
<1>1. Init => Known /\ ApisApart /\ OncePlaced
  BY OnceInit
<1>2. TypeOK /\ Known /\ [Next]_vars => Known'
  BY KnownStep DEF Serial
<1>3. TypeOK /\ ApisApart /\ [Next]_vars => ApisApart'
  BY ApartStep
<1>4. TypeOK /\ Known /\ ApisApart /\ OncePlaced /\ [Next]_vars => OncePlaced'
  BY PlacedStep
<1>5. OncePlaced => NoDuplicateRevision
  BY DEF OncePlaced, PlacesOnce, Once, NoDuplicateRevision
<1> QED BY <1>1, <1>2, <1>3, <1>4, <1>5, TypeCorrect, PTL DEF Spec
-----------------------------------------------------------------------------
(* What is on its way to Central was really there, part by part, and was   *)
(* to be discovered: what makes the pipeline a RevisionLedger.             *)

Wanted(content) ==
    \E lists \in {TagConfig, configured} :
        ShouldDiscover(Cleaned(lists), content.endpoint, content.tags)
RealEntry(e) ==
    /\ e.content \in seen[e.api].content
    /\ \E list \in Listings : \E i \in DOMAIN list : e.api \in Elements(list[i])
RealSum(c) ==
    /\ RealEntry(c)
    /\ Wanted(c.content)
    /\ c.proxy \in seen[c.api].proxy
    /\ \E ps \in seen[c.api].policies : ~Incompatible(ps) /\ c.config = Configuration(ps)

SeenLive == \A a \in Apis : /\ live[a].content \in seen[a].content
                            /\ live[a].proxy \in seen[a].proxy
                            /\ live[a].policies \in seen[a].policies
(* The service handler goes by the lists configured first or by those      *)
(* configured since, but for a moment between two assignments.             *)
FilterKnown ==
    /\ poll.pc \in {"stopping", "tags", "ignoreTags"} => configured # TagConfig
    /\ poll.pc = "ignoreTags" => filter.discovery = Cleaned(configured).discovery
    /\ poll.pc \notin {"down", "ignoreTags"} => filter \in {Cleaned(TagConfig), Cleaned(configured)}
    /\ configured = TagConfig => filter = Cleaned(TagConfig)
PageReal == \A i \in DOMAIN poll.page : \A e \in Elements(poll.page[i]) : RealEntry(e)
TodoReal == \A w \in Workers : \A e \in Elements(worker[w].todo) : RealEntry(e)
WorkReal ==
    \A w \in Workers :
        /\ At(w, "policies") => /\ Wanted(Job(w).content)
                                /\ worker[w].proxy \in seen[Job(w).api].proxy
        /\ worker[w].pc \in {"lookup", "save", "spec"} => RealSum(worker[w].sum)
LeavingReal == \A c \in Leaving : RealSum(c) /\ c.api \in WithSpec

AllReal == SeenLive /\ FilterKnown /\ PageReal /\ TodoReal /\ WorkReal /\ LeavingReal

(* What was real stays so.                                                 *)
LEMMA StaysReal ==
    ASSUME TypeOK, [Next]_vars, NEW c
    PROVE  /\ Wanted(c) => Wanted(c)'
           /\ c \in Apis => /\ seen[c].content \subseteq seen'[c].content
                            /\ seen[c].proxy \subseteq seen'[c].proxy
                            /\ seen[c].policies \subseteq seen'[c].policies
           /\ c.api \in Apis => /\ RealEntry(c) => RealEntry(c)'
                                /\ RealSum(c) => RealSum(c)'
<1>1. ASSUME NEW a \in Apis
      PROVE  /\ seen[a].content \subseteq seen'[a].content
             /\ seen[a].proxy \subseteq seen'[a].proxy
             /\ seen[a].policies \subseteq seen'[a].policies
  <2>1. CASE UNCHANGED seen
    BY <2>1
  <2>2. CASE \E b \in Apis : Edit(b)
    <3>0. PICK b \in Apis : Edit(b)
      BY <2>2
    <3>1. PICK new \in Live, part \in {"content", "proxy", "policies"} :
              seen' = [seen EXCEPT ![b][part] = @ \cup {new[part]}]
      BY <3>0 DEF Edit
    <3>2. seen \in [Apis -> [content : SUBSET Contents, proxy : SUBSET Proxies,
                             policies : SUBSET PolicyLists]]
      BY DEF TypeOK
    <3> QED BY <3>1, <3>2
  <2> QED BY <2>1, <2>2 DEF Next, Relist, Reconfigure, Poller, GetRevisions, ListPage, ListFails,
                HandOut, PageDone, Tick, Handler, StopPolling, StopPublishing, SetTags,
                SetIgnoreTags, Process, SkipUnwanted, GetAPI, GetPolicies, PoliciesFail, Lookup,
                Save, BuildDetail, BuildFails, Send, GetAPIPanics, Publisher, Receive, Publish,
                PublishFails, Crash, Restart, world, vars
<1>2. configured' = configured \/ configured = TagConfig
  BY DEF Next, Edit, Relist, Reconfigure, Poller, GetRevisions, ListPage, ListFails,
         HandOut, PageDone, Tick, Handler, StopPolling, StopPublishing, SetTags,
         SetIgnoreTags, Process, SkipUnwanted, GetAPI, GetPolicies, PoliciesFail, Lookup,
         Save, BuildDetail, BuildFails, Send, GetAPIPanics, Publisher, Receive, Publish,
         PublishFails, Crash, Restart, world, vars
<1>3. ASSUME NEW content PROVE Wanted(content) => Wanted(content)'
  BY <1>2 DEF Wanted
<1>4. ASSUME c.api \in Apis PROVE RealEntry(c) => RealEntry(c)'
  BY <1>1, <1>4 DEF RealEntry
<1>5. ASSUME c.api \in Apis PROVE RealSum(c) => RealSum(c)'
  <2>1. Wanted(c.content) => Wanted(c.content)'
    BY <1>3
  <2> QED BY <1>1, <1>4, <1>5, <2>1 DEF RealSum
<1> QED BY <1>1, <1>3, <1>4, <1>5

(* What is on the page, with the goroutines and on its way concerns APIs.  *)
LEMMA ApisType ==
    ASSUME TypeOK
    PROVE  /\ \A i \in DOMAIN poll.page : \A e \in Elements(poll.page[i]) : e.api \in Apis
           /\ \A w \in Workers : \A e \in Elements(worker[w].todo) : e.api \in Apis
           /\ \A w \in Workers : worker[w].pc \in {"lookup", "save", "spec"} =>
                                    worker[w].sum.api \in Apis
           /\ \A c \in Leaving : c.api \in Apis
<1>1. ASSUME NEW s \in Seq(Entry), NEW e \in Elements(s) PROVE e.api \in Apis
  <2>1. PICK i \in DOMAIN s : e = s[i]
    BY <1>1 DEF Elements
  <2>2. e \in Entry
    BY <2>1
  <2> QED BY <2>2 DEF Entry
<1>2. \A i \in DOMAIN poll.page : poll.page[i] \in Seq(Entry)
  BY DEF TypeOK
<1>3. \A w \in Workers : worker[w].todo \in Seq(Entry)
  BY DEF TypeOK, WorkerState, WorkerType
<1>4. \A w \in Workers : worker[w].pc \in {"lookup", "save", "spec"} => worker[w].sum \in Checksum
  BY DEF TypeOK, WorkerState
<1>5. Leaving \subseteq Checksum
  <2>1. pub \in Checksum \cup {None}
    BY DEF TypeOK
  <2> QED BY <2>1, PlacesType DEF Leaving
<1> QED BY <1>1, <1>2, <1>3, <1>4, <1>5 DEF Checksum

(* The world changes, and everything in the agent is as it was.            *)
LEMMA RealStays ==
    ASSUME TypeOK, AllReal, [Next]_vars, UNCHANGED <<poll, worker, apiChan, pub>>
    PROVE  PageReal' /\ TodoReal' /\ WorkReal' /\ LeavingReal'
<1>1. PageReal'
  BY ApisType, StaysReal DEF AllReal, PageReal
<1>2. TodoReal'
  BY ApisType, StaysReal DEF AllReal, TodoReal
<1>3. ASSUME NEW w \in Workers, worker[w].pc = "policies"
      PROVE  Wanted(Job(w).content)' /\ worker'[w].proxy \in seen'[Job(w)'.api].proxy
  <2>1. PICK job : job = Job(w)
    OBVIOUS
  <2>2. Wanted(job.content) /\ worker[w].proxy \in seen[job.api].proxy
    BY <1>3, <2>1 DEF AllReal, WorkReal, At
  <2>3. job.api \in Apis
    BY <1>3, <2>1, JobType DEF Entry
  <2>4. Wanted(job.content)' /\ worker[w].proxy \in seen'[job.api].proxy
    BY <2>2, <2>3, StaysReal
  <2>5. Job(w)' = job
    BY <2>1 DEF Job
  <2>6. Wanted(Job(w).content)'
    BY <2>4, <2>5 DEF Wanted
  <2> QED BY <2>4, <2>5, <2>6
<1>4. ASSUME NEW w \in Workers, worker[w].pc \in {"lookup", "save", "spec"}
      PROVE  RealSum(worker[w].sum)'
  <2>1. PICK sum : sum = worker[w].sum
    OBVIOUS
  <2>2. RealSum(sum)'
    BY <1>4, <2>1, ApisType, StaysReal DEF AllReal, WorkReal
  <2>3. worker'[w].sum = sum
    BY <2>1
  <2> QED BY <2>2, <2>3 DEF RealSum, RealEntry, Wanted
<1>5. WorkReal'
  BY <1>3, <1>4 DEF WorkReal, At
<1>6. Leaving' = Leaving
  BY DEF Leaving, Built
<1>7. LeavingReal'
  BY <1>6, ApisType, StaysReal DEF AllReal, LeavingReal
<1> QED BY <1>1, <1>2, <1>5, <1>7

(* A step of a goroutine, after which what it has is real.                 *)
LEMMA RealWork ==
    ASSUME AllReal, UNCHANGED <<world, filter, poll>>, NEW w \in Workers,
           \A v \in Workers : v # w => worker'[v] = worker[v],
           Elements(worker'[w].todo) \subseteq Elements(worker[w].todo),
           worker'[w].pc = "policies" => /\ Wanted(Head(worker'[w].todo).content)
                                         /\ worker'[w].proxy \in seen[Head(worker'[w].todo).api].proxy,
           worker'[w].pc \in {"lookup", "save", "spec"} => RealSum(worker'[w].sum),
           \A c \in Leaving' : c \in Leaving \/ (RealSum(c) /\ c.api \in WithSpec)
    PROVE  AllReal'
<1>1. UNCHANGED <<live, seen, listing, configured>>
  BY DEF world
<1>2. \A e : /\ RealEntry(e)' <=> RealEntry(e)
             /\ RealSum(e)' <=> RealSum(e)
             /\ Wanted(e)' <=> Wanted(e)
  BY <1>1 DEF RealEntry, RealSum, Wanted
<1>3. SeenLive' /\ FilterKnown'
  BY <1>1 DEF AllReal, SeenLive, FilterKnown
<1>4. PageReal'
  BY <1>2 DEF AllReal, PageReal
<1>5. TodoReal'
  <2>1. ASSUME NEW v \in Workers PROVE Elements(worker'[v].todo) \subseteq Elements(worker[v].todo)
    OBVIOUS
  <2> QED BY <1>2, <2>1 DEF AllReal, TodoReal
<1>6. WorkReal'
  <2>1. ASSUME NEW v \in Workers, worker'[v].pc = "policies"
        PROVE  Wanted(Job(v).content)' /\ worker'[v].proxy \in seen'[Job(v)'.api].proxy
    BY <1>1, <2>1 DEF AllReal, WorkReal, At, Job, Wanted
  <2>2. ASSUME NEW v \in Workers, worker'[v].pc \in {"lookup", "save", "spec"}
        PROVE  RealSum(worker[v].sum)'
    <3>1. RealSum(worker'[v].sum)
      BY <2>2 DEF AllReal, WorkReal
    <3> QED BY <1>1, <3>1 DEF RealSum, RealEntry, Wanted
  <2> QED BY <2>1, <2>2 DEF WorkReal, At
<1>7. LeavingReal'
  BY <1>2 DEF AllReal, LeavingReal
<1> QED BY <1>3, <1>4, <1>5, <1>6, <1>7 DEF AllReal

LEMMA RealQuiet ==
    ASSUME AllReal, UNCHANGED <<world, filter, poll>>, NEW w \in Workers,
           \A v \in Workers : v # w => worker'[v] = worker[v],
           Elements(worker'[w].todo) \subseteq Elements(worker[w].todo),
           worker'[w].pc \in {"idle", "detail", "send"},
           \A c \in Leaving' : c \in Leaving \/ (RealSum(c) /\ c.api \in WithSpec)
    PROVE  AllReal'
<1>1. worker'[w].pc # "policies" /\ worker'[w].pc \notin {"lookup", "save", "spec"}
  OBVIOUS
<1> QED BY <1>1, RealWork

LEMMA LeavingAdds ==
    ASSUME NEW w \in Workers, NEW S, UNCHANGED <<apiChan, pub>>,
           \A v \in Workers : v # w => worker'[v] = worker[v],
           Elements(worker'[w].out) \subseteq Elements(worker[w].out) \cup S
    PROVE  Leaving' \subseteq Leaving \cup S
<1>1. ASSUME NEW c \in Built' PROVE c \in Built \cup S
  <2>1. PICK v \in Workers : c \in Elements(worker'[v].out)
    BY <1>1 DEF Built
  <2>2. c \in Elements(worker[v].out) \cup S
    BY <2>1
  <2> QED BY <2>2 DEF Built
<1> QED BY <1>1 DEF Leaving

LEMMA SendLeaves ==
    ASSUME TypeOK, NEW w \in Workers, Send(w)
    PROVE  Leaving' \subseteq Leaving
<1> DEFINE out == worker[w].out
           none == <<>>
           rest == Tail(out)
<1>0. worker \in [Workers -> WorkerState] /\ worker[w] \in WorkerState /\ worker[w].pc = "send"
  BY DEF TypeOK, Send, At
<1>1. out \in Seq(Checksum) /\ out # <<>> /\ apiChan \in Seq(Checksum)
  BY <1>0 DEF WorkerState, WorkerType, TypeOK
<1>2. UNCHANGED pub /\ apiChan' = Append(apiChan, Head(out))
  BY DEF Send
<1>3. worker'[w] = Resume(none, rest) /\ \A v \in Workers : v # w => worker'[v] = worker[v]
  BY <1>0 DEF Send
<1> HIDE DEF out, none
<1>4. Head(out) \in Checksum /\ Elements(out) = {Head(out)} \cup Elements(rest)
  BY <1>1, HeadTailElements
<1> HIDE DEF rest
<1>5. worker'[w].out = rest
  BY <1>3, ResumePlaces
<1>6. Elements(apiChan') = Elements(apiChan) \cup {Head(out)}
  BY <1>1, <1>2, <1>4, AppendElements
<1>7. Head(out) \in Built
  BY <1>4 DEF Built, out
<1>8. \A v \in Workers : Elements(worker'[v].out) \subseteq Elements(worker[v].out)
  BY <1>3, <1>4, <1>5 DEF out
<1>9. Built' \subseteq Built
  BY <1>8 DEF Built
<1> QED BY <1>2, <1>6, <1>7, <1>9 DEF Leaving

LEMMA PublisherLeaves ==
    ASSUME TypeOK, Publisher
    PROVE  Leaving' \subseteq Leaving
<1>1. Built' = Built
  BY DEF Publisher, Receive, Publish, PublishFails, Built
<1>2. CASE Receive
  <2>1. apiChan \in Seq(Checksum) /\ apiChan # <<>>
    BY <1>2 DEF Receive, TypeOK
  <2>2. Elements(apiChan) = {pub'} \cup Elements(apiChan')
    BY <1>2, <2>1, HeadTailElements DEF Receive
  <2> QED BY <1>1, <2>2 DEF Leaving
<1>3. CASE Publish \/ PublishFails
  BY <1>1, <1>3 DEF Publish, PublishFails, Leaving
<1> QED BY <1>2, <1>3 DEF Publisher

LEMMA ProcessReal ==
    ASSUME TypeOK, ApisApart, AllReal, NEW w \in Workers, Process(w)
    PROVE  AllReal'
<1>0. /\ worker \in [Workers -> WorkerState] /\ worker[w] \in WorkerState
      /\ worker[w].todo \in Seq(Entry)
  BY DEF TypeOK, WorkerState, WorkerType
<1>1. UNCHANGED <<world, filter, poll, pub>>
  BY DEF Process, SkipUnwanted, GetAPI, GetPolicies, PoliciesFail, Lookup, Save,
         BuildDetail, BuildFails, Send
<1>2. /\ poll.pc \in {"list", "hand", "sleep"}
      /\ filter \in {Cleaned(TagConfig), Cleaned(configured)}
  <2>1. worker[w].pc # "idle"
    BY TodoStep
  <2> QED BY <2>1 DEF ApisApart, QuietOutside, Drained, AllReal, FilterKnown
<1>3. worker[w].pc \in {"detail", "policies", "lookup", "save", "spec"} =>
          /\ Head(worker[w].todo) \in Elements(worker[w].todo)
          /\ RealEntry(Job(w)) /\ Job(w).api \in Apis
  <2> SUFFICES ASSUME worker[w].pc \in {"detail", "policies", "lookup", "save", "spec"}
               PROVE  /\ Job(w) \in Elements(worker[w].todo)
                      /\ RealEntry(Job(w)) /\ Job(w).api \in Apis
    BY DEF Job
  <2>1. worker[w].todo # <<>>
    BY <1>0 DEF WorkerState
  <2>2. Job(w) \in Elements(worker[w].todo)
    BY <1>0, <2>1, HeadTailElements DEF Job
  <2> QED BY <2>2, ApisType DEF AllReal, TodoReal
<1>4. ASSUME UNCHANGED apiChan, NEW found \in Seq(Checksum), NextApi(w, found),
             worker[w].pc \in {"detail", "policies", "lookup", "spec"},
             \A c \in Elements(found) : RealSum(c) /\ c.api \in WithSpec
      PROVE  AllReal'
  <2> DEFINE todo == Tail(worker[w].todo)
             out == worker[w].out \o found
  <2>1. /\ \A v \in Workers : v # w => worker'[v] = worker[v]
        /\ Elements(worker'[w].out) = Elements(worker[w].out) \cup Elements(found)
    BY <1>4, NextApiOut
  <2>2. worker[w].todo # <<>> /\ Elements(todo) \subseteq Elements(worker[w].todo)
    BY <1>0, <1>4, HeadTailElements DEF WorkerState
  <2>3. worker'[w] = Resume(todo, out)
    BY <1>0, <1>4 DEF NextApi
  <2> HIDE DEF todo, out
  <2>4. worker'[w].todo = todo /\ worker'[w].pc \in {"idle", "detail", "send"}
    BY <2>3, ResumePlaces
  <2>5. Elements(worker'[w].todo) \subseteq Elements(worker[w].todo)
    BY <2>2, <2>4
  <2>6. Leaving' \subseteq Leaving \cup Elements(found)
    BY <1>1, <1>4, <2>1, LeavingAdds
  <2>7. \A c \in Leaving' : c \in Leaving \/ (RealSum(c) /\ c.api \in WithSpec)
    BY <1>4, <2>6
  <2> QED BY <1>1, <2>1, <2>4, <2>5, <2>7, RealQuiet
<1>5. ASSUME UNCHANGED apiChan, NEW r, worker' = [worker EXCEPT ![w] = r],
             r.todo = worker[w].todo, r.out = worker[w].out,
             r.pc = "policies" => Wanted(Job(w).content) /\ r.proxy \in seen[Job(w).api].proxy,
             r.pc \in {"lookup", "save", "spec"} => RealSum(r.sum)
      PROVE  AllReal'
  <2>1. worker'[w] = r /\ \A v \in Workers : v # w => worker'[v] = worker[v]
    BY <1>0, <1>5
  <2>2. Leaving' \subseteq Leaving \cup {}
    BY <1>1, <1>5, <2>1, LeavingAdds
  <2>3. worker'[w].todo = worker[w].todo /\ Head(worker'[w].todo) = Job(w)
    BY <1>5, <2>1 DEF Job
  <2>4. worker'[w].pc = "policies" => /\ Wanted(Head(worker'[w].todo).content)
                                      /\ worker'[w].proxy \in seen[Head(worker'[w].todo).api].proxy
    BY <1>5, <2>1, <2>3
  <2>5. worker'[w].pc \in {"lookup", "save", "spec"} => RealSum(worker'[w].sum)
    BY <1>5, <2>1
  <2> QED BY <1>1, <2>1, <2>2, <2>3, <2>4, <2>5, RealWork
<1>6. <<>> \in Seq(Checksum) /\ Elements(<<>>) = {}
  BY DEF Elements
<1>7. CASE SkipUnwanted(w) \/ PoliciesFail(w) \/ BuildFails(w)
  BY <1>4, <1>6, <1>7 DEF SkipUnwanted, PoliciesFail, BuildFails, At
<1>8. CASE GetAPI(w)
  <2> DEFINE r == [worker[w] EXCEPT !.pc = "policies", !.proxy = live[Job(w).api].proxy]
  <2>1. worker' = [worker EXCEPT ![w] = r] /\ UNCHANGED apiChan /\ worker[w].pc = "detail"
    BY <1>0, <1>8 DEF GetAPI, At
  <2>2. /\ r.todo = worker[w].todo /\ r.out = worker[w].out /\ r.pc = "policies"
        /\ r.proxy = live[Job(w).api].proxy
    BY <1>0 DEF WorkerState, WorkerType
  <2>3. Wanted(Job(w).content)
    BY <1>2, <1>8 DEF GetAPI, Wanted
  <2>4. live[Job(w).api].proxy \in seen[Job(w).api].proxy
    BY <1>3, <2>1 DEF AllReal, SeenLive
  <2> HIDE DEF r
  <2> QED BY <1>5, <2>1, <2>2, <2>3, <2>4
<1>9. CASE GetPolicies(w)
  <2>1. worker[w].pc = "policies" /\ UNCHANGED apiChan
    BY <1>9 DEF GetPolicies, At
  <2>2. CASE Incompatible(live[Job(w).api].policies)
    BY <1>4, <1>6, <1>9, <2>1, <2>2 DEF GetPolicies
  <2>3. CASE ~Incompatible(live[Job(w).api].policies)
    <3> DEFINE sum == [api |-> Job(w).api, content |-> Job(w).content,
                       proxy |-> worker[w].proxy,
                       config |-> Configuration(live[Job(w).api].policies)]
               r == [worker[w] EXCEPT !.pc = "lookup", !.proxy = None, !.sum = sum]
    <3>1. worker' = [worker EXCEPT ![w] = r]
      BY <1>0, <1>9, <2>3 DEF GetPolicies
    <3>2. /\ r.todo = worker[w].todo /\ r.out = worker[w].out /\ r.pc = "lookup"
          /\ r.sum = sum
      BY <1>0 DEF WorkerState, WorkerType
    <3>3. RealSum(sum)
      <4>1. RealEntry(sum)
        BY <1>3, <2>1 DEF RealEntry
      <4>2. Wanted(sum.content) /\ sum.proxy \in seen[sum.api].proxy
        BY <2>1 DEF AllReal, WorkReal, At
      <4>3. \E ps \in seen[sum.api].policies : ~Incompatible(ps) /\ sum.config = Configuration(ps)
        BY <1>3, <2>1, <2>3 DEF AllReal, SeenLive
      <4> QED BY <4>1, <4>2, <4>3 DEF RealSum
    <3> HIDE DEF r, sum
    <3> QED BY <1>5, <2>1, <3>1, <3>2, <3>3
  <2> QED BY <2>2, <2>3
<1>10. CASE Lookup(w) \/ Save(w)
  <2>1. CASE Lookup(w) /\ worker[w].sum \in cache
    BY <1>4, <1>6, <2>1 DEF Lookup, At
  <2>2. CASE Save(w) \/ (Lookup(w) /\ worker[w].sum \notin cache)
    <3> DEFINE r == [worker[w] EXCEPT !.pc = IF At(w, "save") THEN "spec" ELSE "save"]
    <3>1. /\ worker' = [worker EXCEPT ![w] = r] /\ UNCHANGED apiChan
          /\ worker[w].pc \in {"lookup", "save"}
      BY <1>0, <2>2 DEF Lookup, Save, At
    <3>2. /\ r.todo = worker[w].todo /\ r.out = worker[w].out /\ r.pc \in {"save", "spec"}
          /\ r.sum = worker[w].sum
      BY <1>0 DEF WorkerState, WorkerType
    <3>3. RealSum(worker[w].sum)
      BY <3>1 DEF AllReal, WorkReal
    <3> HIDE DEF r
    <3>4. RealSum(r.sum)
      BY <3>2, <3>3
    <3> QED BY <1>5, <3>1, <3>2, <3>4
  <2>3. Lookup(w) \/ Save(w)
    BY <1>10
  <2> QED BY <2>1, <2>2, <2>3
<1>11. CASE BuildDetail(w)
  <2> DEFINE sum == worker[w].sum
             found == IF Job(w).api \in WithSpec THEN <<sum>> ELSE <<>>
  <2>1. worker[w].pc = "spec" /\ sum \in Checksum /\ sum.api = Job(w).api
    BY <1>0, <1>11 DEF BuildDetail, At, WorkerState, Job
  <2>2. RealSum(sum)
    BY <2>1 DEF AllReal, WorkReal
  <2>3. UNCHANGED apiChan /\ NextApi(w, found)
    BY <1>11 DEF BuildDetail
  <2>4. found \in Seq(Checksum)
    BY <2>1
  <2>5. \A c \in Elements(found) : c = sum /\ c.api \in WithSpec
    BY <2>1 DEF Elements
  <2> HIDE DEF sum, found
  <2>6. \A c \in Elements(found) : RealSum(c) /\ c.api \in WithSpec
    BY <2>2, <2>5
  <2> QED BY <1>4, <2>1, <2>3, <2>4, <2>6
<1>12. CASE Send(w)
  <2> DEFINE out == worker[w].out
  <2>1. worker' = [worker EXCEPT ![w] = Resume(<<>>, Tail(out))]
    BY <1>0, <1>12 DEF Send
  <2>2. out \in Seq(Checksum) /\ out # <<>>
    BY <1>0, <1>12 DEF Send, At, WorkerState, WorkerType
  <2> HIDE DEF out
  <2>3. /\ worker'[w] = Resume(<<>>, Tail(out)) /\ \A v \in Workers : v # w => worker'[v] = worker[v]
        /\ Head(out) \in Checksum /\ Elements(out) = {Head(out)} \cup Elements(Tail(out))
    BY <1>0, <2>1, <2>2, HeadTailElements
  <2>4. /\ worker'[w].todo = <<>> /\ worker'[w].pc \in {"idle", "detail", "send"}
        /\ worker'[w].out = Tail(out)
    <3> DEFINE none == <<>>
               rest == Tail(out)
    <3>1. worker'[w] = Resume(none, rest)
      BY <2>3
    <3> HIDE DEF none, rest
    <3>2. /\ worker'[w].todo = none /\ worker'[w].pc \in {"idle", "detail", "send"}
          /\ worker'[w].out = rest
      BY <3>1, ResumePlaces
    <3> QED BY <3>2 DEF none, rest
  <2>5. Elements(worker'[w].todo) \subseteq Elements(worker[w].todo)
    BY <1>6, <2>4
  <2>6. Leaving' \subseteq Leaving
    BY <1>12, SendLeaves
  <2> QED BY <1>1, <2>3, <2>4, <2>5, <2>6, RealQuiet
<1> QED BY <1>7, <1>8, <1>9, <1>10, <1>11, <1>12 DEF Process

LEMMA EditSeen ==
    ASSUME TypeOK, SeenLive, NEW a \in Apis, Edit(a)
    PROVE  SeenLive'
<1>1. PICK new \in Live, part \in {"content", "proxy", "policies"} :
          /\ new = [live[a] EXCEPT ![part] = new[part]]
          /\ seen' = [seen EXCEPT ![a][part] = @ \cup {new[part]}]
          /\ live' = [live EXCEPT ![a] = new]
  BY DEF Edit
<1>2. /\ seen \in [Apis -> [content : SUBSET Contents, proxy : SUBSET Proxies,
                            policies : SUBSET PolicyLists]]
      /\ live \in [Apis -> Live] /\ live[a] \in Live
  BY DEF TypeOK
<1>3. \A b \in Apis : b # a => live'[b] = live[b] /\ seen'[b] = seen[b]
  BY <1>1, <1>2
<1>4. live'[a] = new /\ seen'[a] = [seen[a] EXCEPT ![part] = @ \cup {new[part]}]
  BY <1>1, <1>2
<1>5. /\ new.content \in seen'[a].content /\ new.proxy \in seen'[a].proxy
      /\ new.policies \in seen'[a].policies
  <2>0. /\ live[a].content \in seen[a].content /\ live[a].proxy \in seen[a].proxy
        /\ live[a].policies \in seen[a].policies
    BY DEF SeenLive
  <2>1. CASE part = "content"
    BY <1>1, <1>2, <1>4, <2>0, <2>1 DEF Live
  <2>2. CASE part = "proxy"
    BY <1>1, <1>2, <1>4, <2>0, <2>2 DEF Live
  <2>3. CASE part = "policies"
    BY <1>1, <1>2, <1>4, <2>0, <2>3 DEF Live
  <2> QED BY <2>1, <2>2, <2>3
<1> QED BY <1>3, <1>4, <1>5 DEF SeenLive

(* The steps of the poller, the handler and the publisher.                 *)
LEMMA RealRest ==
    ASSUME AllReal, UNCHANGED <<world, worker>>, FilterKnown', PageReal', Leaving' \subseteq Leaving
    PROVE  AllReal'
<1>1. UNCHANGED <<live, seen, listing, configured>>
  BY DEF world
<1>2. \A e : /\ RealEntry(e)' <=> RealEntry(e)
             /\ RealSum(e)' <=> RealSum(e)
             /\ Wanted(e)' <=> Wanted(e)
  BY <1>1 DEF RealEntry, RealSum, Wanted
<1>3. SeenLive'
  BY <1>1 DEF AllReal, SeenLive
<1>4. TodoReal' /\ LeavingReal'
  BY <1>2 DEF AllReal, TodoReal, LeavingReal
<1>5. WorkReal'
  BY <1>1 DEF AllReal, WorkReal, At, Job, Wanted, RealSum, RealEntry
<1> QED BY <1>3, <1>4, <1>5 DEF AllReal

LEMMA DieReal ==
    ASSUME AllReal, Die, UNCHANGED <<world, filter>>
    PROVE  AllReal'
<1>1. UNCHANGED <<live, seen, listing, configured>>
  BY DEF world
<1>2. /\ poll'.pc = "down" /\ poll'.page = <<>>
      /\ \A w \in Workers : worker'[w].pc = "idle" /\ worker'[w].todo = <<>>
  BY DEF Die, Stopped, Idle
<1>3. SeenLive' /\ FilterKnown'
  BY <1>1, <1>2 DEF AllReal, SeenLive, FilterKnown
<1>4. PageReal' /\ TodoReal'
  BY <1>2 DEF PageReal, TodoReal, Elements
<1>5. WorkReal'
  BY <1>2 DEF WorkReal, At
<1>6. LeavingReal'
  <2>1. Leaving' = {}
    BY DieEmpties DEF Leaving, InFlight
  <2> QED BY <2>1 DEF LeavingReal
<1> QED BY <1>3, <1>4, <1>5, <1>6 DEF AllReal

LEMMA ListPageReal ==
    ASSUME TypeOK, AllReal, ListPage
    PROVE  PageReal'
<1>1. UNCHANGED <<live, seen, listing, configured>> /\ listing \in Listings
  BY DEF ListPage, world, TypeOK
<1>2. ASSUME NEW i \in DOMAIN poll'.page, NEW e \in Elements(poll'.page[i])
      PROVE  RealEntry(e)
  <2>1. PICK j \in DOMAIN poll'.page[i] : e = poll'.page[i][j]
    BY <1>2 DEF Elements
  <2> DEFINE k == poll.offset + i
  <2>2. /\ k \in DOMAIN listing /\ j \in DOMAIN listing[k]
        /\ e.api = listing[k][j] /\ e.content = live[listing[k][j]].content
    BY <2>1, PageIsListed
  <2> HIDE DEF k
  <2>3. e.api \in Elements(listing[k])
    BY <2>2 DEF Elements
  <2>4. e.api \in Apis
    <3>1. listing[k] \in Seq(Apis)
      BY <1>1, <2>2, PipelineAssumption
    <3> QED BY <2>2, <3>1
  <2> QED BY <1>1, <2>2, <2>3, <2>4 DEF RealEntry, AllReal, SeenLive
<1>3. \A e : RealEntry(e)' <=> RealEntry(e)
  BY <1>1 DEF RealEntry
<1> QED BY <1>2, <1>3 DEF PageReal

LEMMA HandOutReal ==
    ASSUME TypeOK, AllReal, HandOut
    PROVE  AllReal'
<1>1. PICK w \in Workers :
          worker[w].pc = "idle" /\ worker' = [worker EXCEPT ![w] = Resume(Head(poll.page), <<>>)]
  BY DEF HandOut
<1> DEFINE s == poll.page
           a == Head(s)
           none == <<>>
<1>2. /\ s \in Seq(Seq(Entry)) /\ s # <<>> /\ UNCHANGED <<live, seen, listing, configured, filter>>
      /\ poll'.page = Tail(s) /\ poll'.pc = poll.pc /\ UNCHANGED <<apiChan, pub>>
  BY DEF HandOut, TypeOK, world
<1>3. worker'[w] = Resume(a, none) /\ \A v \in Workers : v # w => worker'[v] = worker[v]
  BY <1>1 DEF TypeOK
<1>4. /\ a = s[1] /\ 1 \in DOMAIN s
      /\ \A i \in DOMAIN Tail(s) : i + 1 \in DOMAIN s /\ Tail(s)[i] = s[i + 1]
  BY <1>2
<1>n. Elements(none) = {}
  BY DEF Elements
<1> HIDE DEF a, none, s
<1>5. worker'[w].todo = a /\ worker'[w].out = none /\ worker'[w].pc \in {"idle", "detail", "send"}
  BY <1>3, ResumePlaces
<1>6. \A e : /\ RealEntry(e)' <=> RealEntry(e)
             /\ RealSum(e)' <=> RealSum(e)
             /\ Wanted(e)' <=> Wanted(e)
  BY <1>2 DEF RealEntry, RealSum, Wanted
<1>7. SeenLive' /\ FilterKnown'
  BY <1>2 DEF AllReal, SeenLive, FilterKnown
<1>8. PageReal'
  BY <1>2, <1>4, <1>6 DEF AllReal, PageReal, s
<1>9. TodoReal'
  <2>1. \A e \in Elements(a) : RealEntry(e)
    BY <1>4 DEF AllReal, PageReal, s
  <2>2. ASSUME NEW v \in Workers, NEW e \in Elements(worker'[v].todo) PROVE RealEntry(e)
    <3>1. CASE v = w
      BY <1>5, <2>1, <2>2, <3>1
    <3>2. CASE v # w
      <4>1. e \in Elements(worker[v].todo)
        BY <1>3, <2>2, <3>2
      <4> QED BY <4>1 DEF AllReal, TodoReal
    <3> QED BY <3>1, <3>2
  <2> QED BY <1>6, <2>2 DEF TodoReal
<1>10. WorkReal'
  <2>1. \A v \in Workers : worker'[v].pc \in {"policies", "lookup", "save", "spec"} =>
                              worker'[v] = worker[v]
    BY <1>3, <1>5
  <2> QED BY <1>2, <2>1 DEF AllReal, WorkReal, At, Job, Wanted, RealSum, RealEntry
<1>11. LeavingReal'
  <2>1. Elements(worker'[w].out) \subseteq Elements(worker[w].out) \cup {}
    BY <1>5, <1>n
  <2>2. Leaving' \subseteq Leaving \cup {}
    BY <1>2, <1>3, <2>1, LeavingAdds
  <2> QED BY <1>6, <2>2 DEF AllReal, LeavingReal
<1> QED BY <1>7, <1>8, <1>9, <1>10, <1>11 DEF AllReal

LEMMA RealStep ==
    ASSUME Serial
    PROVE  TypeOK /\ ApisApart /\ AllReal /\ [Next]_vars => AllReal'
<1> SUFFICES ASSUME TypeOK, ApisApart, AllReal, [Next]_vars PROVE AllReal'
  OBVIOUS
<1>f. SeenLive /\ FilterKnown
  BY DEF AllReal
<1>1. ASSUME UNCHANGED <<world, worker, apiChan, pub>>, poll'.page = <<>>, FilterKnown'
      PROVE  AllReal'
  <2>1. PageReal'
    BY <1>1 DEF PageReal
  <2>2. Leaving' \subseteq Leaving
    BY <1>1 DEF Leaving, Built
  <2> QED BY <1>1, <2>1, <2>2, RealRest
<1>2. ASSUME NEW a \in Apis, Edit(a) PROVE AllReal'
  <2>1. UNCHANGED <<poll, worker, apiChan, pub, filter, configured>>
    BY <1>2 DEF Edit, process
  <2>2. FilterKnown'
    BY <1>f, <2>1 DEF FilterKnown
  <2> QED BY <1>2, <1>f, <2>1, <2>2, EditSeen, RealStays DEF AllReal
<1>3. CASE Relist \/ Reconfigure
  <2>1. UNCHANGED <<poll, worker, apiChan, pub, filter, live, seen>>
    BY <1>3 DEF Relist, Reconfigure, process
  <2>2. configured' = configured \/ (configured = TagConfig /\ configured' # configured)
    BY <1>3 DEF Relist, Reconfigure
  <2>3. SeenLive'
    BY <1>f, <2>1 DEF SeenLive
  <2>4. FilterKnown'
    BY <1>f, <2>1, <2>2 DEF FilterKnown
  <2> QED BY <2>1, <2>3, <2>4, RealStays DEF AllReal
<1>4. CASE GetRevisions \/ ListFails \/ PageDone \/ Tick
  <2>1. /\ UNCHANGED <<world, worker, apiChan, pub, filter>> /\ poll'.page = <<>>
        /\ poll.pc \notin {"down", "ignoreTags"} /\ poll'.pc \in {"list", "sleep"}
    <3>1. CASE GetRevisions \/ ListFails \/ Tick
      BY <3>1 DEF GetRevisions, ListFails, Tick, Stopped
    <3>2. CASE PageDone
      BY <3>2 DEF PageDone, Stopped, TypeOK
    <3> QED BY <1>4, <3>1, <3>2
  <2>2. FilterKnown'
    BY <1>f, <2>1 DEF FilterKnown, world
  <2> QED BY <1>1, <2>1, <2>2
<1>5. CASE StopPolling \/ StopPublishing
  <2>1. /\ UNCHANGED <<world, worker, apiChan, pub, filter>> /\ poll'.page = <<>>
        /\ poll.pc \notin {"down", "ignoreTags"} /\ poll'.pc \in {"stopping", "tags"}
        /\ poll.pc = "sleep" => filter # Cleaned(configured)
    BY <1>5 DEF StopPolling, StopPublishing, Stopped
  <2>2. configured # TagConfig
    BY <1>f, <1>5, <2>1 DEF FilterKnown, StopPolling, StopPublishing
  <2>3. FilterKnown'
    BY <1>f, <2>1, <2>2 DEF FilterKnown, world
  <2> QED BY <1>1, <2>1, <2>3
<1>6. CASE SetTags
  <2>1. /\ UNCHANGED <<world, worker, apiChan, pub>> /\ poll'.page = <<>>
        /\ poll.pc = "tags" /\ poll'.pc = "ignoreTags"
        /\ filter' = [filter EXCEPT !.discovery = Cleaned(configured).discovery]
    BY <1>6 DEF SetTags, Stopped
  <2>2. filter'.discovery = Cleaned(configured).discovery
    BY <2>1 DEF TypeOK, TagLists
  <2>3. FilterKnown'
    BY <1>f, <2>1, <2>2 DEF FilterKnown, world
  <2> QED BY <1>1, <2>1, <2>3
<1>7. CASE SetIgnoreTags
  <2>1. /\ UNCHANGED <<world, worker, apiChan, pub>> /\ poll'.page = <<>>
        /\ poll.pc = "ignoreTags" /\ poll'.pc = "revisions"
        /\ filter' = [filter EXCEPT !.ignore = Cleaned(configured).ignore]
    BY <1>7 DEF SetIgnoreTags, Stopped
  <2>2. filter.discovery = Cleaned(configured).discovery /\ configured # TagConfig
    BY <1>f, <2>1 DEF FilterKnown
  <2>3. filter' = Cleaned(configured)
    <3>1. filter = [discovery |-> filter.discovery, ignore |-> filter.ignore]
      BY DEF TypeOK, TagLists
    <3> QED BY <2>1, <2>2, <3>1 DEF Cleaned
  <2>4. FilterKnown'
    BY <2>1, <2>2, <2>3 DEF FilterKnown, world
  <2> QED BY <1>1, <2>1, <2>4
<1>8. CASE Restart
  <2>1. /\ UNCHANGED <<world, worker, apiChan, pub>> /\ poll'.page = <<>>
        /\ poll'.pc = "revisions" /\ filter' = Cleaned(configured)
    BY <1>8 DEF Restart, Stopped
  <2>2. FilterKnown'
    BY <2>1 DEF FilterKnown, world
  <2> QED BY <1>1, <2>1, <2>2
<1>9. CASE ListPage
  <2>1. /\ UNCHANGED <<world, worker, apiChan, pub, filter>>
        /\ poll.pc = "list" /\ poll'.pc = "hand"
    BY <1>9 DEF ListPage
  <2>2. FilterKnown'
    BY <1>f, <2>1 DEF FilterKnown, world
  <2>3. Leaving' \subseteq Leaving
    BY <2>1 DEF Leaving, Built
  <2> QED BY <1>9, <2>1, <2>2, <2>3, ListPageReal, RealRest
<1>10. CASE Publisher
  <2>1. UNCHANGED <<world, worker, filter, poll>>
    BY <1>10 DEF Publisher, Receive, Publish, PublishFails
  <2>2. Leaving' \subseteq Leaving
    BY <1>10, PublisherLeaves
  <2>3. PageReal'
    BY <2>1 DEF AllReal, PageReal, RealEntry, world
  <2>4. FilterKnown'
    BY <1>f, <2>1 DEF FilterKnown, world
  <2> QED BY <2>1, <2>2, <2>3, <2>4, RealRest
<1>11. CASE \E w \in Workers : Process(w)
  BY <1>11, ProcessReal
<1>12. CASE \E w \in Workers : GetAPIPanics(w)
  BY <1>12, DieReal DEF GetAPIPanics
<1>13. CASE Crash
  BY <1>13, DieReal DEF Crash
<1>14. CASE UNCHANGED vars
  <2>1. UNCHANGED <<world, worker, filter, poll, apiChan, pub>>
    BY <1>14 DEF vars, world
  <2>2. Leaving' \subseteq Leaving
    BY <2>1 DEF Leaving, Built
  <2>3. PageReal'
    BY <2>1 DEF AllReal, PageReal, RealEntry, world
  <2>4. FilterKnown'
    BY <1>f, <2>1 DEF FilterKnown, world
  <2> QED BY <2>1, <2>2, <2>3, <2>4, RealRest
<1> QED BY <1>2, <1>3, <1>4, <1>5, <1>6, <1>7, <1>8, <1>9, <1>10, <1>11, <1>12, <1>13, <1>14,
           HandOutReal DEF Next, Poller, Handler

LEMMA RealInit == Init => AllReal
<1> SUFFICES ASSUME Init PROVE AllReal
  OBVIOUS
<1>1. /\ poll.pc = "revisions" /\ poll.page = <<>> /\ apiChan = <<>> /\ pub = None
      /\ \A w \in Workers : /\ worker[w].pc = "idle"
                            /\ worker[w].todo = <<>> /\ worker[w].out = <<>>
  BY DEF Init, Stopped, Idle
<1>2. SeenLive
  BY DEF Init, SeenLive
<1>3. FilterKnown
  BY <1>1 DEF Init, FilterKnown
<1>4. Leaving = {}
  BY <1>1 DEF Leaving, Built, Elements
<1>5. PageReal /\ TodoReal /\ WorkReal /\ LeavingReal
  BY <1>1, <1>4 DEF PageReal, TodoReal, WorkReal, LeavingReal, At, Elements
<1> QED BY <1>2, <1>3, <1>5 DEF AllReal
-----------------------------------------------------------------------------
(* Steps of the pipeline are steps of the ledger.                          *)

LEMMA LedgerOperators ==
    /\ \A ps : /\ Ledger!Configuration(ps) = Configuration(ps)
               /\ Ledger!Incompatible(ps) <=> Incompatible(ps)
    /\ \A lists, endpoint, tags :
          Ledger!ShouldDiscover(Ledger!Cleaned(lists), endpoint, tags)
              <=> ShouldDiscover(Cleaned(lists), endpoint, tags)
<1>1. ASSUME NEW ps PROVE Ledger!Configuration(ps) = Configuration(ps)
  BY DEF Ledger!Configuration, Configuration, Ledger!Kinds, Kinds, Ledger!AuthOf, AuthOf
<1>2. ASSUME NEW ps PROVE Ledger!Incompatible(ps) <=> Incompatible(ps)
  BY DEF Ledger!Incompatible, Incompatible
<1>3. ASSUME NEW lists PROVE Ledger!Cleaned(lists) = Cleaned(lists)
  BY DEF Ledger!Cleaned, Cleaned, Ledger!CleanTags, CleanTags
<1>4. ASSUME NEW tagLists, NEW endpoint, NEW tags
      PROVE  Ledger!ShouldDiscover(tagLists, endpoint, tags) <=> ShouldDiscover(tagLists, endpoint, tags)
  BY DEF Ledger!ShouldDiscover, ShouldDiscover, Ledger!ContainsAnyMatchingTag,
         ContainsAnyMatchingTag
<1> QED BY <1>1, <1>2, <1>3, <1>4

LEMMA LedgerInit == Init => Ledger!Init
<1> SUFFICES ASSUME Init PROVE Ledger!Init
  OBVIOUS
<1>1. ASSUME NEW a \in Apis
      PROVE  [content |-> {Initial[a].content}, proxy |-> {Initial[a].proxy},
              policies |-> {Initial[a].policies}] = [part \in Ledger!Parts |-> {Initial[a][part]}]
  BY DEF Ledger!Parts
<1>2. seen = [a \in Apis |-> [part \in Ledger!Parts |-> {Initial[a][part]}]]
  BY <1>1 DEF Init
<1> QED BY <1>2 DEF Init, Ledger!Init

LEMMA EditIsChange ==
    ASSUME TypeOK, SeenLive, NEW a \in Apis, Edit(a)
    PROVE  Ledger!Change(a)
<1>1. PICK new \in Live, part \in {"content", "proxy", "policies"} :
          /\ new = [live[a] EXCEPT ![part] = new[part]]
          /\ seen' = [seen EXCEPT ![a][part] = @ \cup {new[part]}]
          /\ live' = [live EXCEPT ![a] = new]
  BY DEF Edit
<1>2. /\ seen \in [Apis -> [content : SUBSET Contents, proxy : SUBSET Proxies,
                            policies : SUBSET PolicyLists]]
      /\ live \in [Apis -> Live] /\ live[a] \in Live
  BY DEF TypeOK
<1>3. live'[a] = new
  BY <1>1, <1>2
<1>4. \A p \in {"content", "proxy", "policies"} : p # part => new[p] = live[a][p]
  BY <1>1, <1>2 DEF Live
<1>5. \A p \in {"content", "proxy", "policies"} : live[a][p] \in seen[a][p]
  BY DEF SeenLive
<1> DEFINE old == seen[a]
           more == [p \in Ledger!Parts |-> old[p] \cup {new[p]}]
<1>6. [old EXCEPT ![part] = @ \cup {new[part]}] = more
  <2>1. DOMAIN old = Ledger!Parts
    BY <1>2 DEF Ledger!Parts
  <2>2. old = [p \in Ledger!Parts |-> old[p]]
    BY <1>2, <2>1
  <2>3. \A p \in Ledger!Parts : p # part => old[p] \cup {new[p]} = old[p]
    BY <1>4, <1>5 DEF Ledger!Parts
  <2> HIDE DEF old
  <2> QED BY <2>2, <2>3
<1>7. seen' = [seen EXCEPT ![a] = more]
  BY <1>1, <1>2, <1>6
<1>8. seen' = [seen EXCEPT ![a] = [p \in Ledger!Parts |-> @[p] \cup {live'[a][p]}]]
  BY <1>3, <1>7
<1>9. UNCHANGED <<listing, configured, central>>
  BY DEF Edit
<1>10. live' \in {[live EXCEPT ![a] = n] :
                     n \in [content : Contents, proxy : Proxies, policies : PolicyLists]}
  BY <1>1 DEF Live
<1> QED BY <1>8, <1>9, <1>10 DEF Ledger!Change

LEMMA PublishIsRecord ==
    ASSUME TypeOK, OncePlaced, AllReal, Publish
    PROVE  \E a \in Apis : Ledger!RecordSeen(a)
<1> DEFINE a == pub.api
<1>1. /\ pub \in Checksum /\ pub # None /\ central' = Append(central, pub)
      /\ UNCHANGED <<live, seen, listing, configured>>
  BY DEF Publish, TypeOK, world
<1>2. RealSum(pub) /\ a \in WithSpec
  BY <1>1 DEF AllReal, LeavingReal, Leaving
<1>3. a \in Apis
  BY <1>1 DEF Checksum
<1>4. PICK ps \in seen[a].policies : ~Incompatible(ps) /\ pub.config = Configuration(ps)
  BY <1>2 DEF RealSum
<1>5. PICK lists \in {TagConfig, configured} :
          ShouldDiscover(Cleaned(lists), pub.content.endpoint, pub.content.tags)
  BY <1>2 DEF RealSum, Wanted
<1>6. PICK list \in Listings : \E i \in DOMAIN list : a \in Elements(list[i])
  BY <1>2 DEF RealSum, RealEntry
<1>7. pub.content \in seen[a].content /\ pub.proxy \in seen[a].proxy
  BY <1>2 DEF RealSum, RealEntry
<1>8. Ledger!Listed(a, list)
  BY <1>6 DEF Ledger!Listed, Elements
<1>9. Ledger!Acceptable(a, lists, pub.content, ps)
  BY <1>2, <1>4, <1>5, LedgerOperators DEF Ledger!Acceptable
<1>10. Ledger!Reading(a, pub.content, pub.proxy, ps) = pub
  <2>1. pub = [api |-> pub.api, content |-> pub.content, proxy |-> pub.proxy, config |-> pub.config]
    BY <1>1 DEF Checksum
  <2> QED BY <1>4, <2>1, LedgerOperators DEF Ledger!Reading
<1>11. Ledger!Record(pub)
  <2>1. pub \notin Elements(central)
    BY <1>1 DEF OncePlaced, PlacesApart, InFlight
  <2> QED BY <1>1, <2>1 DEF Ledger!Record, Elements
<1> HIDE DEF a
<1>12. Ledger!RecordSeen(a)
  BY <1>4, <1>5, <1>7, <1>8, <1>9, <1>10, <1>11 DEF Ledger!RecordSeen
<1> QED BY <1>3, <1>12

LEMMA LedgerStep ==
    ASSUME TypeOK, OncePlaced, AllReal, [Next]_vars
    PROVE  [Ledger!Next]_(Ledger!ledgerVars)
<1>1. CASE \E a \in Apis : Edit(a)
  BY <1>1, EditIsChange DEF AllReal, Ledger!Next
<1>2. CASE Relist
  BY <1>2 DEF Relist, Ledger!Next, Ledger!Relist
<1>3. CASE Reconfigure
  BY <1>3 DEF Reconfigure, Ledger!Next, Ledger!Reconfigure
<1>4. CASE Publish
  BY <1>4, PublishIsRecord DEF Ledger!Next
<1>5. CASE UNCHANGED <<world, central>> \/ UNCHANGED vars
  BY <1>5 DEF world, vars, Ledger!ledgerVars
<1> QED BY <1>1, <1>2, <1>3, <1>4, <1>5
        DEF Next, Poller, GetRevisions, ListPage, ListFails, HandOut, PageDone, Tick, Handler,
            StopPolling, StopPublishing, SetTags, SetIgnoreTags, Process, SkipUnwanted, GetAPI,
            GetPolicies, PoliciesFail, Lookup, Save, BuildDetail, BuildFails, Send, GetAPIPanics,
            Publisher, Receive, PublishFails, Crash, Restart

(* The pipeline implements the ledger: what reaches Central is, part by    *)
(* part, what an API was at some time, was to be discovered under one of   *)
(* the configurations, and comes once.  (PassesSettleLedger adds that the  *)
(* present state comes in the end.)                                        *)
THEOREM PipelineKeepsLedger ==
    ASSUME Serial, ListsOnce, NothingMovesBack
    PROVE  Spec => Ledger!Spec
<1>1. Init => Ledger!Init /\ Known /\ ApisApart /\ OncePlaced /\ AllReal
  BY LedgerInit, OnceInit, RealInit
<1>2. TypeOK /\ Known /\ [Next]_vars => Known'
  BY KnownStep DEF Serial
<1>3. TypeOK /\ ApisApart /\ [Next]_vars => ApisApart'
  BY ApartStep
<1>4. TypeOK /\ Known /\ ApisApart /\ OncePlaced /\ [Next]_vars => OncePlaced'
  BY PlacedStep
<1>5. TypeOK /\ ApisApart /\ AllReal /\ [Next]_vars => AllReal'
  BY RealStep
<1>6. TypeOK /\ OncePlaced /\ AllReal /\ [Next]_vars => [Ledger!Next]_(Ledger!ledgerVars)
  BY LedgerStep
<1> QED BY <1>1, <1>2, <1>3, <1>4, <1>5, <1>6, TypeCorrect, PTL DEF Spec, Ledger!Spec
-----------------------------------------------------------------------------
(* The latest revision, with passes that overlap: what keeps it the        *)
(* present state of its API once no older reading is under way.            *)
(* A goroutine either is done with its API or has read more of it.         *)
GoesOn(w) ==
    /\ worker'[w].todo = worker[w].todo /\ worker'[w].out = worker[w].out
    /\ UNCHANGED <<apiChan, pub>>
    /\ \/ /\ worker[w].pc = "detail" /\ worker'[w].pc = "policies"
          /\ worker'[w].proxy = live[Job(w).api].proxy
       \/ /\ worker[w].pc = "policies" /\ worker'[w].pc = "lookup"
          /\ worker'[w].sum = [api |-> Job(w).api, content |-> Job(w).content,
                               proxy |-> worker[w].proxy,
                               config |-> Configuration(live[Job(w).api].policies)]
       \/ /\ worker[w].pc \in {"lookup", "save"} /\ worker'[w].pc \in {"save", "spec"}
          /\ worker'[w].sum = worker[w].sum

LEMMA WorkStep ==
    ASSUME TypeOK, NEW w \in Workers, Process(w)
    PROVE  \/ GoesOn(w)
           \/ /\ worker'[w].pc \in {"idle", "detail", "send"}
              /\ \/ BuildDetail(w)
                 \/ Send(w)
                 \/ /\ worker[w].pc \in {"detail", "policies", "lookup", "spec"}
                    /\ NextApi(w, <<>>) /\ UNCHANGED <<apiChan, pub>>
<1>0. /\ worker \in [Workers -> WorkerState] /\ worker[w] \in WorkerState
      /\ worker[w].todo \in Seq(Entry)
  BY DEF TypeOK, WorkerState, WorkerType
<1>1. ASSUME NEW found, NextApi(w, found) PROVE worker'[w].pc \in {"idle", "detail", "send"}
  <2> DEFINE todo == Tail(worker[w].todo)
             out == worker[w].out \o found
  <2>1. worker'[w] = Resume(todo, out)
    BY <1>0, <1>1 DEF NextApi
  <2> HIDE DEF todo, out
  <2> QED BY <2>1, ResumePlaces
<1>2. CASE SkipUnwanted(w) \/ PoliciesFail(w) \/ BuildFails(w)
  BY <1>1, <1>2 DEF SkipUnwanted, PoliciesFail, BuildFails, At
<1>3. CASE BuildDetail(w)
  BY <1>1, <1>3 DEF BuildDetail
<1>4. CASE Send(w)
  <2> DEFINE none == <<>>
             rest == Tail(worker[w].out)
  <2>1. worker'[w] = Resume(none, rest)
    BY <1>0, <1>4 DEF Send
  <2> HIDE DEF none, rest
  <2> QED BY <1>4, <2>1, ResumePlaces
<1>5. CASE GetAPI(w)
  <2> DEFINE r == [worker[w] EXCEPT !.pc = "policies", !.proxy = live[Job(w).api].proxy]
  <2>1. /\ worker' = [worker EXCEPT ![w] = r] /\ UNCHANGED <<apiChan, pub>>
        /\ worker[w].pc = "detail"
    BY <1>0, <1>5 DEF GetAPI, At
  <2>2. /\ r.todo = worker[w].todo /\ r.out = worker[w].out /\ r.pc = "policies"
        /\ r.proxy = live[Job(w).api].proxy
    BY <1>0 DEF WorkerState, WorkerType
  <2> HIDE DEF r
  <2>3. worker'[w] = r
    BY <1>0, <2>1
  <2> QED BY <2>1, <2>2, <2>3 DEF GoesOn
<1>6. CASE GetPolicies(w)
  <2>1. worker[w].pc = "policies" /\ UNCHANGED <<apiChan, pub>>
    BY <1>6 DEF GetPolicies, At
  <2>2. CASE Incompatible(live[Job(w).api].policies)
    BY <1>1, <1>6, <2>1, <2>2 DEF GetPolicies
  <2>3. CASE ~Incompatible(live[Job(w).api].policies)
    <3> DEFINE sum == [api |-> Job(w).api, content |-> Job(w).content,
                       proxy |-> worker[w].proxy,
                       config |-> Configuration(live[Job(w).api].policies)]
               r == [worker[w] EXCEPT !.pc = "lookup", !.proxy = None, !.sum = sum]
    <3>1. worker' = [worker EXCEPT ![w] = r]
      BY <1>0, <1>6, <2>3 DEF GetPolicies
    <3>2. /\ r.todo = worker[w].todo /\ r.out = worker[w].out /\ r.pc = "lookup"
          /\ r.sum = sum
      BY <1>0 DEF WorkerState, WorkerType
    <3> HIDE DEF r
    <3>3. worker'[w] = r
      BY <1>0, <3>1
    <3> QED BY <2>1, <3>2, <3>3 DEF GoesOn
  <2> QED BY <2>2, <2>3
<1>7. CASE Lookup(w) \/ Save(w)
  <2>1. CASE Lookup(w) /\ worker[w].sum \in cache
    BY <1>1, <2>1 DEF Lookup, At
  <2>2. CASE Save(w) \/ (Lookup(w) /\ worker[w].sum \notin cache)
    <3> DEFINE r == [worker[w] EXCEPT !.pc = IF At(w, "save") THEN "spec" ELSE "save"]
    <3>1. /\ worker' = [worker EXCEPT ![w] = r] /\ UNCHANGED <<apiChan, pub>>
          /\ worker[w].pc \in {"lookup", "save"}
      BY <1>0, <2>2 DEF Lookup, Save, At
    <3>2. /\ r.todo = worker[w].todo /\ r.out = worker[w].out /\ r.pc \in {"save", "spec"}
          /\ r.sum = worker[w].sum
      BY <1>0 DEF WorkerState, WorkerType
    <3> HIDE DEF r
    <3>3. worker'[w] = r
      BY <1>0, <3>1
    <3> QED BY <3>1, <3>2, <3>3 DEF GoesOn
  <2> QED BY <1>7, <2>1, <2>2
<1> QED BY <1>2, <1>3, <1>4, <1>5, <1>6, <1>7 DEF Process

(* Only BuildDetail puts a detail on its way.                              *)
LEMMA LeavingStep ==
    ASSUME TypeOK, [Next]_vars
    PROVE  \/ Leaving' \subseteq Leaving
           \/ \E w \in Workers : BuildDetail(w) /\ Leaving' \subseteq Leaving \cup {worker[w].sum}
<1>1. ASSUME UNCHANGED <<worker, apiChan, pub>> PROVE Leaving' \subseteq Leaving
  BY <1>1 DEF Leaving, Built
<1>2. ASSUME Die PROVE Leaving' \subseteq Leaving
  BY <1>2, DieEmpties DEF Leaving, InFlight
<1>3. ASSUME NEW w \in Workers, UNCHANGED <<apiChan, pub>>, NEW found \in Seq(Checksum),
             NextApi(w, found), worker[w].pc \in {"detail", "policies", "lookup", "spec"}
      PROVE  Leaving' \subseteq Leaving \cup Elements(found)
  BY <1>3, NextApiOut, LeavingAdds
<1>4. ASSUME NEW w \in Workers, Process(w), ~BuildDetail(w) PROVE Leaving' \subseteq Leaving
  <2>1. <<>> \in Seq(Checksum) /\ Elements(<<>>) = {}
    BY DEF Elements
  <2>2. CASE GoesOn(w)
    <3>1. /\ UNCHANGED <<apiChan, pub>> /\ Elements(worker'[w].out) \subseteq Elements(worker[w].out) \cup {}
          /\ \A v \in Workers : v # w => worker'[v] = worker[v]
      BY <1>4, <2>2, TodoStep DEF GoesOn
    <3>2. Leaving' \subseteq Leaving \cup {}
      BY <3>1, LeavingAdds
    <3> QED BY <3>2
  <2>3. CASE Send(w)
    BY <2>3, SendLeaves
  <2>4. CASE /\ worker[w].pc \in {"detail", "policies", "lookup", "spec"}
             /\ NextApi(w, <<>>) /\ UNCHANGED <<apiChan, pub>>
    BY <1>3, <2>1, <2>4
  <2> QED BY <1>4, <2>2, <2>3, <2>4, WorkStep
<1>5. ASSUME NEW w \in Workers, BuildDetail(w)
      PROVE  Leaving' \subseteq Leaving \cup {worker[w].sum}
  <2> DEFINE sum == worker[w].sum
             found == IF Job(w).api \in WithSpec THEN <<sum>> ELSE <<>>
  <2>1. worker[w].pc = "spec" /\ sum \in Checksum
    BY <1>5 DEF BuildDetail, At, TypeOK, WorkerState
  <2>2. found \in Seq(Checksum) /\ Elements(found) \subseteq {sum}
    BY <2>1 DEF Elements
  <2>3. NextApi(w, found) /\ UNCHANGED <<apiChan, pub>>
    BY <1>5 DEF BuildDetail
  <2> HIDE DEF sum, found
  <2>4. Leaving' \subseteq Leaving \cup Elements(found)
    BY <1>3, <2>1, <2>2, <2>3
  <2> QED BY <2>2, <2>4 DEF sum
<1>6. CASE \E w \in Workers : Process(w)
  BY <1>4, <1>5, <1>6
<1>7. CASE HandOut
  <2>1. PICK w \in Workers :
            worker[w].pc = "idle" /\ worker' = [worker EXCEPT ![w] = Resume(Head(poll.page), <<>>)]
    BY <1>7 DEF HandOut
  <2> DEFINE todo == Head(poll.page)
             none == <<>>
  <2>2. /\ worker'[w] = Resume(todo, none) /\ \A v \in Workers : v # w => worker'[v] = worker[v]
        /\ Elements(none) = {}
    BY <2>1 DEF TypeOK, Elements
  <2> HIDE DEF todo, none
  <2>3. Elements(worker'[w].out) \subseteq Elements(worker[w].out) \cup {}
    BY <2>2, ResumePlaces
  <2>4. UNCHANGED <<apiChan, pub>>
    BY <1>7 DEF HandOut
  <2>5. Leaving' \subseteq Leaving \cup {}
    BY <2>2, <2>3, <2>4, LeavingAdds
  <2> QED BY <2>5
<1>8. CASE Publisher
  BY <1>8, PublisherLeaves
<1>9. CASE UNCHANGED <<worker, apiChan, pub>>
  BY <1>1, <1>9
<1>10. CASE Crash \/ \E w \in Workers : GetAPIPanics(w)
  BY <1>2, <1>10 DEF Crash, GetAPIPanics
<1> QED BY <1>6, <1>7, <1>8, <1>9, <1>10
        DEF Next, Edit, Relist, Reconfigure, process, Poller, GetRevisions, ListPage, ListFails,
            PageDone, Tick, Handler, StopPolling, StopPublishing, SetTags, SetIgnoreTags, Restart,
            vars

(* A step of a goroutine leaves it no more to do.                          *)
LEMMA TodoShrinks ==
    ASSUME TypeOK, NEW w \in Workers, Process(w)
    PROVE  /\ Elements(worker'[w].todo) \subseteq Elements(worker[w].todo)
           /\ Handled' \subseteq Handled /\ Entries' \subseteq Entries
<1>1. worker[w].todo \in Seq(Entry)
  BY DEF TypeOK, WorkerState, WorkerType
<1>2. /\ Elements(worker'[w].todo) \subseteq Elements(worker[w].todo)
      /\ TodoOf(w)' \subseteq TodoOf(w)
  <2>1. CASE worker'[w].todo = worker[w].todo
    BY <2>1 DEF TodoOf
  <2>2. CASE worker[w].todo # <<>> /\ worker'[w].todo = Tail(worker[w].todo)
    BY <1>1, <2>2, TailApis, HeadTailElements DEF TodoOf
  <2>3. CASE worker'[w].todo = <<>>
    BY <2>3, NoApis DEF TodoOf, Elements
  <2> QED BY <2>1, <2>2, <2>3, TodoStep
<1>3. UNCHANGED poll /\ \A v \in Workers : v # w => worker'[v] = worker[v]
  BY TodoStep
<1>4. \A v \in Workers : /\ Elements(worker'[v].todo) \subseteq Elements(worker[v].todo)
                         /\ TodoOf(v)' \subseteq TodoOf(v)
  BY <1>2, <1>3 DEF TodoOf
<1>5. Handled' \subseteq Handled
  BY <1>3, <1>4 DEF Handled, OnPage
<1>6. Entries' \subseteq Entries
  BY <1>3, <1>4 DEF Entries, ToDo
<1> QED BY <1>2, <1>5, <1>6

(* What the present state of API a makes of the entries of a step.         *)
LEMMA EntriesStep ==
    ASSUME TypeOK, [Next]_vars
    PROVE  \/ Entries' \subseteq Entries
           \/ /\ UNCHANGED live
              /\ \A e \in Entries' : e \in Entries \/ e.content = live[e.api].content
<1>1. ASSUME UNCHANGED worker, UNCHANGED poll \/ poll'.page = <<>> PROVE Entries' \subseteq Entries
  BY <1>1 DEF Entries, ToDo
<1>2. CASE ListPage
  <2>1. UNCHANGED <<live, worker>>
    BY <1>2 DEF ListPage, world
  <2>2. ASSUME NEW i \in DOMAIN poll'.page, NEW e \in Elements(poll'.page[i])
        PROVE  e.content = live[e.api].content
    <3>1. PICK j \in DOMAIN poll'.page[i] : e = poll'.page[i][j]
      BY <2>2 DEF Elements
    <3> QED BY <1>2, <3>1, PageIsListed
  <2> QED BY <2>1, <2>2 DEF Entries, ToDo
<1>3. CASE HandOut
  <2>1. PICK w \in Workers :
            worker[w].pc = "idle" /\ worker' = [worker EXCEPT ![w] = Resume(Head(poll.page), <<>>)]
    BY <1>3 DEF HandOut
  <2> DEFINE s == poll.page
             a == Head(s)
             none == <<>>
  <2>2. s \in Seq(Seq(Entry)) /\ s # <<>> /\ poll'.page = Tail(s)
    BY <1>3 DEF HandOut, TypeOK
  <2>3. worker'[w] = Resume(a, none) /\ \A v \in Workers : v # w => worker'[v] = worker[v]
    BY <2>1 DEF TypeOK
  <2>4. /\ a = s[1] /\ 1 \in DOMAIN s
        /\ \A i \in DOMAIN Tail(s) : i + 1 \in DOMAIN s /\ Tail(s)[i] = s[i + 1]
    BY <2>2
  <2> HIDE DEF s, a, none
  <2>5. worker'[w].todo = a
    BY <2>3, ResumePlaces
  <2>6. ASSUME NEW i \in DOMAIN poll'.page, NEW e \in Elements(poll'.page[i]) PROVE e \in Entries
    <3>1. i + 1 \in DOMAIN poll.page /\ poll'.page[i] = poll.page[i + 1]
      BY <2>2, <2>4, <2>6 DEF s
    <3> QED BY <2>6, <3>1 DEF Entries, ToDo
  <2>7. ASSUME NEW v \in Workers, NEW e \in Elements(worker'[v].todo) PROVE e \in Entries
    <3>1. CASE v = w
      BY <2>4, <2>5, <2>7, <3>1 DEF Entries, ToDo, s
    <3>2. CASE v # w
      <4>1. e \in Elements(worker[v].todo)
        BY <2>3, <2>7, <3>2
      <4> QED BY <4>1 DEF Entries, ToDo
    <3> QED BY <3>1, <3>2
  <2>8. ASSUME NEW e \in Entries' PROVE e \in Entries
    <3>1. \/ \E i \in DOMAIN poll'.page : e \in Elements(poll'.page[i])
          \/ \E v \in Workers : e \in Elements(worker'[v].todo)
      BY <2>8 DEF Entries, ToDo
    <3> QED BY <2>6, <2>7, <3>1
  <2> QED BY <2>8
<1>4. CASE \E w \in Workers : Process(w)
  BY <1>4, TodoShrinks
<1>5. CASE Crash \/ \E w \in Workers : GetAPIPanics(w)
  <2>1. poll'.page = <<>> /\ \A w \in Workers : worker'[w].todo = <<>>
    BY <1>5 DEF Crash, GetAPIPanics, Die, Stopped, Idle
  <2> QED BY <2>1 DEF Entries, ToDo, Elements
<1>6. CASE UNCHANGED <<worker, poll>> \/ (UNCHANGED worker /\ poll'.page = <<>>)
  BY <1>1, <1>6
<1>7. PageDone => UNCHANGED worker /\ poll'.page = <<>>
  BY DEF PageDone, Stopped, TypeOK
<1> QED BY <1>2, <1>3, <1>4, <1>5, <1>6, <1>7
        DEF Next, Edit, Relist, Reconfigure, process, Poller, GetRevisions, ListFails, Tick,
            Handler, StopPolling, StopPublishing, SetTags, SetIgnoreTags, Publisher, Receive,
            Publish, PublishFails, Restart, Stopped, vars

LEMMA WorkFreshStep ==
    ASSUME TypeOK, [Next]_vars, NEW a \in Apis, live'[a] = live[a],
           EntriesFresh(a), WorkFresh(a)
    PROVE  WorkFresh(a)'
<1>1. Current(a)' = Current(a)
  BY DEF Current
<1>2. ASSUME NEW w \in Workers, worker'[w] = worker[w]
      PROVE  /\ At(w, "policies")' /\ Job(w)'.api = a => worker'[w].proxy = live'[a].proxy
             /\ worker'[w].pc \in {"lookup", "save", "spec"} /\ worker'[w].sum.api = a =>
                   worker'[w].sum = Current(a)'
  BY <1>1, <1>2 DEF WorkFresh, At, Job
<1>3. ASSUME NEW w \in Workers, worker'[w].pc \in {"idle", "detail", "send"}
      PROVE  /\ At(w, "policies")' /\ Job(w)'.api = a => worker'[w].proxy = live'[a].proxy
             /\ worker'[w].pc \in {"lookup", "save", "spec"} /\ worker'[w].sum.api = a =>
                   worker'[w].sum = Current(a)'
  BY <1>3 DEF At
<1>4. ASSUME NEW w \in Workers, Process(w), GoesOn(w)
      PROVE  /\ At(w, "policies")' /\ Job(w)'.api = a => worker'[w].proxy = live'[a].proxy
             /\ worker'[w].pc \in {"lookup", "save", "spec"} /\ worker'[w].sum.api = a =>
                   worker'[w].sum = Current(a)'
  <2>1. Job(w)' = Job(w)
    BY <1>4 DEF GoesOn, Job
  <2>2. CASE /\ worker[w].pc = "detail" /\ worker'[w].pc = "policies"
             /\ worker'[w].proxy = live[Job(w).api].proxy
    BY <2>1, <2>2
  <2>3. CASE /\ worker[w].pc = "policies" /\ worker'[w].pc = "lookup"
             /\ worker'[w].sum = [api |-> Job(w).api, content |-> Job(w).content,
                                  proxy |-> worker[w].proxy,
                                  config |-> Configuration(live[Job(w).api].policies)]
    <3>1. worker[w].todo \in Seq(Entry) /\ worker[w].todo # <<>>
      BY <2>3 DEF TypeOK, WorkerState, WorkerType
    <3>2. Job(w) \in Entries
      <4>1. Job(w) \in Elements(worker[w].todo)
        BY <3>1, HeadTailElements DEF Job
      <4> QED BY <4>1 DEF Entries, ToDo
    <3>3. ASSUME Job(w).api = a PROVE worker'[w].sum = Current(a)
      BY <2>3, <3>2, <3>3 DEF EntriesFresh, WorkFresh, At, Current
    <3>4. worker'[w].sum.api = Job(w).api
      BY <2>3
    <3> QED BY <1>1, <2>3, <3>3, <3>4 DEF At
  <2>4. CASE /\ worker[w].pc \in {"lookup", "save"} /\ worker'[w].pc \in {"save", "spec"}
             /\ worker'[w].sum = worker[w].sum
    BY <1>1, <2>4 DEF WorkFresh, At
  <2> QED BY <1>4, <2>2, <2>3, <2>4 DEF GoesOn
<1>5. ASSUME NEW w \in Workers
      PROVE  \/ worker'[w] = worker[w]
             \/ worker'[w].pc \in {"idle", "detail", "send"}
             \/ Process(w) /\ GoesOn(w)
  <2>1. CASE \E v \in Workers : Process(v)
    BY <2>1, TodoStep, WorkStep
  <2>2. CASE HandOut
    <3>1. PICK v \in Workers :
              worker' = [worker EXCEPT ![v] = Resume(Head(poll.page), <<>>)]
      BY <2>2 DEF HandOut
    <3> DEFINE todo == Head(poll.page)
               none == <<>>
    <3>2. worker' = [worker EXCEPT ![v] = Resume(todo, none)]
      BY <3>1
    <3> HIDE DEF todo, none
    <3> QED BY <3>2, ResumePlaces DEF TypeOK
  <2>3. CASE Crash \/ \E v \in Workers : GetAPIPanics(v)
    BY <2>3 DEF Crash, GetAPIPanics, Die, Idle
  <2>4. CASE UNCHANGED worker
    BY <2>4
  <2> QED BY <2>1, <2>2, <2>3, <2>4
          DEF Next, Edit, Relist, Reconfigure, process, Poller, GetRevisions, ListPage,
              ListFails, PageDone, Tick, Handler, StopPolling, StopPublishing, SetTags,
              SetIgnoreTags, Publisher, Receive, Publish, PublishFails, Restart, vars
<1> QED BY <1>2, <1>3, <1>4, <1>5 DEF WorkFresh

LEMMA LeavingFreshStep ==
    ASSUME TypeOK, [Next]_vars, NEW a \in Apis, live'[a] = live[a],
           WorkFresh(a), LeavingFresh(a)
    PROVE  LeavingFresh(a)'
<1>1. Current(a)' = Current(a)
  BY DEF Current
<1>2. CASE Leaving' \subseteq Leaving
  BY <1>1, <1>2 DEF LeavingFresh
<1>3. ASSUME NEW w \in Workers, BuildDetail(w), Leaving' \subseteq Leaving \cup {worker[w].sum}
      PROVE  LeavingFresh(a)'
  <2>1. worker[w].pc = "spec"
    BY <1>3 DEF BuildDetail, At
  <2>2. worker[w].sum.api = a => worker[w].sum = Current(a)
    BY <2>1 DEF WorkFresh
  <2> QED BY <1>1, <1>3, <2>2 DEF LeavingFresh
<1> QED BY <1>2, <1>3, LeavingStep

(* The latest revision of an API is found if there is one at all.          *)
LatestIsLast(a) ==
    central \in Seq(Checksum) /\ (\E i \in DOMAIN central : central[i].api = a) =>
        /\ Latest(a) \in DOMAIN central /\ central[Latest(a)].api = a
        /\ \A j \in DOMAIN central : central[j].api = a => j <= Latest(a)

LEMMA LatestFound == ASSUME NEW a PROVE LatestIsLast(a)
<1> SUFFICES ASSUME central \in Seq(Checksum), NEW i \in DOMAIN central, central[i].api = a
             PROVE  /\ Latest(a) \in DOMAIN central /\ central[Latest(a)].api = a
                    /\ \A j \in DOMAIN central : central[j].api = a => j <= Latest(a)
  BY DEF LatestIsLast
<1> DEFINE R == OpToRel(<, Nat)
           n == Len(central)
           Distances == {n - j : j \in {k \in DOMAIN central : central[k].api = a}}
<1>1. /\ n \in Nat /\ DOMAIN central = 1..n
      /\ Distances \subseteq Nat /\ Distances # {}
  OBVIOUS
<1>2. IsWellFoundedOn(R, Nat) /\ \A x, y \in Nat : <<y, x>> \in R <=> y < x
  BY NatLessThanWellFounded DEF OpToRel
<1> HIDE DEF R
<1>3. PICK least \in Distances : \A d \in Distances : ~(<<d, least>> \in R)
  BY <1>1, <1>2, WFMin
<1>4. PICK last \in DOMAIN central : central[last].api = a /\ least = n - last
  OBVIOUS
<1>5. ASSUME NEW j \in DOMAIN central, central[j].api = a PROVE j <= last
  <2>1. n - j \in Distances
    BY <1>5
  <2>2. ~(n - j < least)
    BY <1>1, <1>2, <1>3, <2>1
  <2> QED BY <1>1, <1>4, <1>5, <2>2
<1> QED BY <1>4, <1>5 DEF Latest

LEMMA LatestFoundNext == ASSUME NEW a PROVE LatestIsLast(a)'
<1>1. LatestIsLast(a)
  BY LatestFound
<1> QED BY <1>1, PTL

(* What is published of an API of which nothing older is under way is its  *)
(* present state, whether Central has that already or not.                 *)
LEMMA InOrderStep ==
    ASSUME TypeOK, [Next]_vars, NEW a \in Apis, live'[a] = live[a],
           LeavingFresh(a), InOrder(a)
    PROVE  InOrder(a)'
<1>1. Current(a)' = Current(a) /\ Current(a).api = a
  BY DEF Current
<1>2. CASE UNCHANGED central
  <2>1. Latest(a)' = Latest(a)
    BY <1>2 DEF Latest
  <2> QED BY <1>1, <1>2, <2>1 DEF InOrder
<1>3. CASE Publish
  <2>1. /\ central \in Seq(Checksum) /\ pub \in Checksum /\ pub \in Leaving
        /\ central' = Append(central, pub)
    BY <1>3 DEF Publish, TypeOK, Leaving
  <2>2. /\ central' \in Seq(Checksum) /\ Len(central') = Len(central) + 1
        /\ DOMAIN central = 1..Len(central) /\ DOMAIN central' = 1..Len(central')
        /\ central'[Len(central')] = pub
        /\ \A i \in DOMAIN central : i \in DOMAIN central' /\ central'[i] = central[i]
        /\ Len(central) \in Nat
    BY <2>1
  <2>3. SUFFICES ASSUME Current(a) \in Elements(central') PROVE central'[Latest(a)'] = Current(a)
    BY <1>1 DEF InOrder
  <2>4. PICK i \in DOMAIN central' : central'[i] = Current(a)
    BY <2>3 DEF Elements
  <2>5. /\ Latest(a)' \in DOMAIN central' /\ central'[Latest(a)'].api = a
        /\ \A j \in DOMAIN central' : central'[j].api = a => j <= Latest(a)'
    <3>1. LatestIsLast(a)'
      BY LatestFoundNext
    <3> QED BY <1>1, <2>2, <2>4, <3>1 DEF LatestIsLast
  <2>6. CASE pub.api = a
    <3>1. pub = Current(a)
      BY <2>1, <2>6 DEF LeavingFresh
    <3>2. Len(central') \in DOMAIN central' /\ Len(central') <= Latest(a)'
      BY <2>2, <2>5, <2>6
    <3>3. Latest(a)' = Len(central')
      BY <2>2, <2>5, <3>2
    <3> QED BY <2>2, <3>1, <3>3
  <2>7. CASE pub.api # a
    <3>1. /\ i \in DOMAIN central /\ central[i] = Current(a)
          /\ \A j \in DOMAIN central' : central'[j].api = a => j \in DOMAIN central
      BY <1>1, <2>2, <2>4, <2>7
    <3>2. Current(a) \in Elements(central)
      BY <3>1 DEF Elements
    <3>3. central[Latest(a)] = Current(a)
      BY <3>2 DEF InOrder
    <3>4. /\ Latest(a) \in DOMAIN central /\ central[Latest(a)].api = a
          /\ \A j \in DOMAIN central : central[j].api = a => j <= Latest(a)
      BY <1>1, <2>1, <3>1, LatestFound DEF LatestIsLast
    <3>5. Latest(a)' \in DOMAIN central /\ central[Latest(a)'].api = a
      BY <2>2, <2>5, <3>1
    <3>6. Latest(a) <= Latest(a)' /\ Latest(a)' <= Latest(a)
      BY <2>2, <2>5, <3>4, <3>5
    <3>7. Latest(a)' = Latest(a)
      BY <2>2, <3>4, <3>5, <3>6
    <3> QED BY <2>2, <3>3, <3>4, <3>7
  <2> QED BY <2>6, <2>7
<1> QED BY <1>2, <1>3
        DEF Next, Edit, Relist, Reconfigure, Poller, GetRevisions, ListPage, ListFails, HandOut,
            PageDone, Tick, Handler, StopPolling, StopPublishing, SetTags, SetIgnoreTags,
            Publisher, Receive, PublishFails, Process, SkipUnwanted, GetAPI, GetPolicies,
            PoliciesFail, Lookup, Save, BuildDetail, BuildFails, Send, GetAPIPanics, Crash,
            Restart, vars

LEMMA OrderStep ==
    ASSUME TypeOK, [Next]_vars, NEW a \in Apis, live'[a] = live[a], NothingOlder(a), InOrder(a)
    PROVE  NothingOlder(a)' /\ InOrder(a)'
<1>1. EntriesFresh(a) /\ WorkFresh(a) /\ LeavingFresh(a)
  BY DEF NothingOlder
<1>2. EntriesFresh(a)'
  BY <1>1, EntriesStep DEF EntriesFresh
<1>3. WorkFresh(a)'
  BY <1>1, WorkFreshStep
<1>4. LeavingFresh(a)'
  BY <1>1, LeavingFreshStep
<1>5. InOrder(a)'
  BY <1>1, InOrderStep
<1> QED BY <1>2, <1>3, <1>4, <1>5 DEF NothingOlder

(* Only a reading that was under way when its API changed can get behind   *)
(* the present state: for any number of passes that overlap, of goroutines, *)
(* edits, failures and crashes, and whatever becomes of the list.          *)
THEOREM StragglersOnly == Spec => StaysInOrder
<1>1. TypeOK /\ [Next]_vars =>
        [\A a \in Apis : live'[a] = live[a] /\ NothingOlder(a) /\ InOrder(a) =>
                             NothingOlder(a)' /\ InOrder(a)']_vars
  BY OrderStep
<1> QED BY <1>1, TypeCorrect, PTL DEF Spec, StaysInOrder
-----------------------------------------------------------------------------
(* Passes bring Central up to date.  A pass that begins with the tags in   *)
(* force meets every API to be discovered as it is now: each one listed    *)
(* before the offset is in the cache, waits on the page or is in work.     *)
ListedBefore(a, n) == \E i \in DOMAIN listing : i <= n /\ a \in Elements(listing[i])
FreshEntry(a) == [api |-> a, content |-> live[a].content]
OnPageNow(a) == \E i \in DOMAIN poll.page : FreshEntry(a) \in Elements(poll.page[i])
InHand(w, a) ==
    /\ Job(w) = FreshEntry(a)
    /\ \/ At(w, "detail")
       \/ At(w, "policies") /\ worker[w].proxy = live[a].proxy
       \/ worker[w].pc \in {"lookup", "save"} /\ worker[w].sum = Current(a)
InWork(w, a) ==
    /\ worker[w].pc \notin {"idle", "send"} /\ worker[w].todo # <<>>
    /\ InHand(w, a) \/ FreshEntry(a) \in Elements(Tail(worker[w].todo))
Met(a) == Current(a) \in cache \/ OnPageNow(a) \/ \E w \in Workers : InWork(w, a)

AllMet ==
    \A a \in Apis : Eligible(a) /\ (poll.pc = "sleep" \/ ListedBefore(a, poll.offset)) => Met(a)
PassInv ==
    /\ InForce
    /\ poll.pc \in {"list", "hand", "sleep"}
    /\ poll.pc # "hand" => poll.page = <<>>
    /\ poll.pc = "hand" /\ ~poll.more => poll.offset >= Len(listing)
    /\ AllMet

LEMMA QuietStays ==
    ASSUME Quiet, NEW a \in Apis
    PROVE  /\ Current(a)' = Current(a) /\ FreshEntry(a)' = FreshEntry(a)
           /\ Eligible(a)' <=> Eligible(a)
           /\ UNCHANGED <<live, listing, configured>>
BY DEF Quiet, world, Current, FreshEntry, Eligible

(* A goroutine that has an API in hand reads on, up to the cache.          *)
LEMMA HandStep ==
    ASSUME TypeOK, Quiet, InForce, NEW a \in Apis, Eligible(a), NEW w \in Workers, Process(w),
           InWork(w, a), InHand(w, a)
    PROVE  Current(a) \in cache' \/ InWork(w, a)'
<1>0. /\ worker \in [Workers -> WorkerState] /\ worker[w] \in WorkerState
      /\ \A call : ~Fails(call)
  BY NoFailure DEF TypeOK
<1>1. /\ Job(w).api = a /\ Job(w).content = live[a].content
      /\ ShouldDiscover(filter, Job(w).content.endpoint, Job(w).content.tags)
      /\ ~Incompatible(live[a].policies)
  BY DEF InHand, FreshEntry, Eligible, InForce
<1>2. /\ Current(a)' = Current(a) /\ FreshEntry(a)' = FreshEntry(a) /\ live' = live
  BY QuietStays
<1>3. CASE At(w, "detail")
  <2> DEFINE r == [worker[w] EXCEPT !.pc = "policies", !.proxy = live[a].proxy]
  <2>1. GetAPI(w)
    BY <1>0, <1>1, <1>3
       DEF Process, SkipUnwanted, GetPolicies, PoliciesFail, Lookup, Save, BuildDetail,
           BuildFails, Send, At
  <2>2. worker' = [worker EXCEPT ![w] = r]
    BY <1>0, <1>1, <2>1 DEF GetAPI
  <2>3. r.pc = "policies" /\ r.proxy = live[a].proxy /\ r.todo = worker[w].todo
    BY <1>0 DEF WorkerState, WorkerType
  <2>4. worker'[w] = r
    BY <1>0, <2>2
  <2> HIDE DEF r
  <2> QED BY <1>2, <2>3, <2>4 DEF InWork, InHand, At, Job
<1>4. CASE At(w, "policies") /\ worker[w].proxy = live[a].proxy
  <2> DEFINE sum == [api |-> Job(w).api, content |-> Job(w).content, proxy |-> worker[w].proxy,
                     config |-> Configuration(live[Job(w).api].policies)]
             r == [worker[w] EXCEPT !.pc = "lookup", !.proxy = None, !.sum = sum]
  <2>1. GetPolicies(w)
    BY <1>0, <1>4
       DEF Process, SkipUnwanted, GetAPI, PoliciesFail, Lookup, Save, BuildDetail,
           BuildFails, Send, At
  <2>2. worker' = [worker EXCEPT ![w] = r]
    BY <1>0, <1>1, <2>1 DEF GetPolicies
  <2>3. sum = Current(a)
    BY <1>1, <1>4 DEF Current
  <2> HIDE DEF sum
  <2>4. r.pc = "lookup" /\ r.sum = sum /\ r.todo = worker[w].todo
    BY <1>0 DEF WorkerState, WorkerType
  <2>5. worker'[w] = r
    BY <1>0, <2>2
  <2> HIDE DEF r
  <2> QED BY <1>2, <2>3, <2>4, <2>5 DEF InWork, InHand, Job
<1>5. CASE worker[w].pc = "lookup" /\ worker[w].sum = Current(a)
  <2> DEFINE r == [worker[w] EXCEPT !.pc = "save"]
  <2>1. Lookup(w)
    BY <1>0, <1>5
       DEF Process, SkipUnwanted, GetAPI, GetPolicies, PoliciesFail, Save, BuildDetail,
           BuildFails, Send, At
  <2>2. CASE worker[w].sum \in cache
    BY <1>5, <2>1, <2>2 DEF Lookup, known
  <2>3. CASE worker[w].sum \notin cache
    <3>1. worker' = [worker EXCEPT ![w] = r]
      BY <1>0, <2>1, <2>3 DEF Lookup
    <3>2. r.pc = "save" /\ r.sum = worker[w].sum /\ r.todo = worker[w].todo
      BY <1>0 DEF WorkerState, WorkerType
    <3>3. worker'[w] = r
      BY <1>0, <3>1
    <3> HIDE DEF r
    <3> QED BY <1>2, <1>5, <3>2, <3>3 DEF InWork, InHand, Job
  <2> QED BY <2>2, <2>3
<1>6. CASE worker[w].pc = "save" /\ worker[w].sum = Current(a)
  <2>1. Save(w)
    BY <1>0, <1>6
       DEF Process, SkipUnwanted, GetAPI, GetPolicies, PoliciesFail, Lookup, BuildDetail,
           BuildFails, Send, At
  <2> QED BY <1>6, <2>1 DEF Save
<1> QED BY <1>3, <1>4, <1>5, <1>6 DEF InHand

(* An API that is not in hand yet comes closer to it.                      *)
LEMMA WaitStep ==
    ASSUME TypeOK, Quiet, NEW a \in Apis, NEW w \in Workers, Process(w),
           InWork(w, a), FreshEntry(a) \in Elements(Tail(worker[w].todo))
    PROVE  InWork(w, a)'
<1> DEFINE rest == Tail(worker[w].todo)
<1>0. /\ worker \in [Workers -> WorkerState] /\ worker[w].todo \in Seq(Entry)
      /\ worker[w].todo # <<>> /\ worker[w].pc \notin {"idle", "send"}
      /\ FreshEntry(a)' = FreshEntry(a)
  BY QuietStays DEF TypeOK, WorkerState, WorkerType, InWork
<1>1. rest \in Seq(Entry) /\ rest # <<>>
  BY <1>0 DEF Elements
<1>2. CASE GoesOn(w)
  BY <1>0, <1>2 DEF GoesOn, InWork
<1>3. ASSUME NEW found, NextApi(w, found) PROVE InWork(w, a)'
  <2> DEFINE out == worker[w].out \o found
  <2>1. worker'[w] = Resume(rest, out)
    BY <1>0, <1>3 DEF NextApi
  <2> HIDE DEF rest, out
  <2>2. worker'[w].pc = "detail" /\ worker'[w].todo = rest
    BY <1>1, <2>1 DEF Resume
  <2>3. Elements(rest) = {Head(rest)} \cup Elements(Tail(rest))
    BY <1>1, HeadTailElements
  <2>4. FreshEntry(a) = Head(rest) \/ FreshEntry(a) \in Elements(Tail(rest))
    BY <2>3 DEF rest
  <2> QED BY <1>0, <1>1, <2>2, <2>4 DEF InWork, InHand, At, Job
<1>4. GoesOn(w) \/ BuildDetail(w) \/ Send(w) \/ NextApi(w, <<>>)
  BY WorkStep
<1> QED BY <1>0, <1>2, <1>3, <1>4 DEF BuildDetail, Send, At

LEMMA ProcessMeets ==
    ASSUME TypeOK, Quiet, PassInv, NEW v \in Workers, Process(v)
    PROVE  PassInv'
<1>1. /\ UNCHANGED poll /\ UNCHANGED <<live, listing, configured>>
      /\ \A w \in Workers : w # v => worker'[w] = worker[w]
  BY TodoStep DEF Quiet, world
<1>2. UNCHANGED filter /\ cache \subseteq cache'
  BY DEF Process, SkipUnwanted, GetAPI, GetPolicies, PoliciesFail, Lookup, Save,
         BuildDetail, BuildFails, Send, known
<1>3. InForce'
  BY <1>1, <1>2 DEF PassInv, InForce
<1>4. ASSUME NEW a \in Apis, Eligible(a), Met(a) PROVE Met(a)'
  <2>1. Current(a)' = Current(a) /\ FreshEntry(a)' = FreshEntry(a)
    BY QuietStays
  <2>2. CASE Current(a) \in cache \/ OnPageNow(a)
    BY <1>1, <1>2, <2>1, <2>2 DEF Met, OnPageNow
  <2>3. ASSUME NEW w \in Workers, InWork(w, a) PROVE Met(a)'
    <3>1. CASE w # v
      <4>1. InWork(w, a)'
        BY <1>1, <2>1, <2>3, <3>1 DEF InWork, InHand, At, Job
      <4> QED BY <4>1 DEF Met
    <3>2. CASE w = v
      <4>1. InHand(w, a) \/ FreshEntry(a) \in Elements(Tail(worker[w].todo))
        BY <2>3 DEF InWork
      <4>2. Current(a) \in cache' \/ InWork(w, a)'
        BY <1>4, <2>3, <3>2, <4>1, HandStep, WaitStep DEF PassInv
      <4> QED BY <2>1, <4>2 DEF Met
    <3> QED BY <3>1, <3>2
  <2> QED BY <1>4, <2>2, <2>3 DEF Met
<1>5. AllMet'
  BY <1>1, <1>4, QuietStays DEF PassInv, AllMet, ListedBefore
<1> QED BY <1>1, <1>3, <1>5 DEF PassInv

(* How much a page holds: all that is left behind the offset, or n assets. *)
LEMMA PageHolds ==
    ASSUME NEW S, NEW s \in Seq(S), NEW from \in Nat, NEW n \in Nat \ {0},
           NEW to, to = IF Len(s) < from + n THEN Len(s) ELSE from + n
    PROVE  /\ Len(SubSeq(s, from + 1, to)) # n => from + n >= Len(s)
           /\ \A k \in Nat \ {0} :
                 k <= n /\ from + k <= Len(s) => k \in DOMAIN SubSeq(s, from + 1, to)
<1>1. to \in Nat /\ to <= Len(s) /\ to <= from + n
  OBVIOUS
<1>2. \A i \in from + 1..to : s[i] \in S
  BY <1>1
<1> DEFINE first == from + 1
           assets == SubSeq(s, first, to)
<1>3. first \in Nat
  OBVIOUS
<1>4. assets \in Seq(S) /\ Len(assets) = IF first <= to THEN to - first + 1 ELSE 0
  <2> HIDE DEF first
  <2>1. first \in Int /\ to \in Int /\ \A i \in first..to : s[i] \in S
    BY <1>1, <1>2, <1>3 DEF first
  <2> QED BY <2>1, SubSeqProperties
<1> HIDE DEF assets
<1>5. Len(assets) # n => from + n >= Len(s)
  BY <1>1, <1>4
<1>6. ASSUME NEW k \in Nat \ {0}, k <= n, from + k <= Len(s) PROVE k \in DOMAIN assets
  <2>1. from + k <= to /\ k <= to - first + 1 /\ first <= to
    BY <1>1, <1>6
  <2> QED BY <1>4, <2>1
<1> QED BY <1>5, <1>6 DEF assets

(* The page is read from the present state.                                *)
LEMMA ListMeets ==
    ASSUME TypeOK, Quiet, PassInv, ListPage
    PROVE  PassInv'
<1>1. UNCHANGED <<live, listing, configured, filter, cache, worker>> /\ poll.pc = "list"
  BY DEF ListPage, world, known
<1>2. poll'.pc = "hand" /\ poll'.offset = poll.offset + PageSize
  BY PageIsListed
<1>3. poll.offset \in Nat /\ listing \in Seq(Seq(Apis)) /\ PageSize \in Nat \ {0}
  BY PipelineAssumption DEF TypeOK
<1> DEFINE S == Seq(Apis)
           from == poll.offset
           last == IF Len(listing) < from + PageSize THEN Len(listing) ELSE from + PageSize
           assets == SubSeq(listing, from + 1, last)
           page == [x \in DOMAIN assets |->
                       [j \in DOMAIN assets[x] |->
                           [api |-> assets[x][j], content |-> live[assets[x][j]].content]]]
<1>8. poll'.page = page /\ poll'.more = (Len(assets) = PageSize)
  BY DEF ListPage
<1>9. /\ Len(assets) # PageSize => from + PageSize >= Len(listing)
      /\ \A k \in Nat \ {0} : k <= PageSize /\ from + k <= Len(listing) => k \in DOMAIN assets
  <2>1. listing \in Seq(S) /\ from \in Nat
    BY <1>3
  <2> HIDE DEF S, from
  <2> QED BY ONLY <1>3, <2>1, PageHolds
<1> HIDE DEF assets
<1>10. DOMAIN page = DOMAIN assets
  OBVIOUS
<1> HIDE DEF page
<1>4. InForce'
  BY <1>1 DEF PassInv, InForce
<1>5. ~poll'.more => poll'.offset >= Len(listing')
  BY <1>1, <1>2, <1>8, <1>9
<1>6. ASSUME NEW a \in Apis, Eligible(a), ListedBefore(a, poll.offset + PageSize)
      PROVE  Met(a)'
  <2>1. Current(a)' = Current(a) /\ FreshEntry(a)' = FreshEntry(a)
    BY QuietStays
  <2>2. CASE ListedBefore(a, poll.offset)
    <3>1. Met(a) /\ poll.page = <<>>
      BY <1>1, <1>6, <2>2 DEF PassInv, AllMet
    <3>2. ~OnPageNow(a)
      BY <3>1 DEF OnPageNow
    <3> QED BY <1>1, <2>1, <3>1, <3>2 DEF Met, InWork, InHand, At, Job
  <2>3. CASE ~ListedBefore(a, poll.offset)
    <3>1. PICK i \in DOMAIN listing : i <= poll.offset + PageSize /\ a \in Elements(listing[i])
      BY <1>6 DEF ListedBefore
    <3> DEFINE k == i - poll.offset
    <3>2. i \in Nat /\ i > poll.offset /\ i <= Len(listing)
      BY <1>3, <2>3, <3>1 DEF ListedBefore
    <3>3. k \in Nat \ {0} /\ k <= PageSize /\ poll.offset + k = i
      <4>1. poll.offset \in Nat /\ PageSize \in Nat
        BY <1>3
      <4> QED BY ONLY <3>1, <3>2, <4>1
    <3>4. k \in DOMAIN poll'.page
      <4> HIDE DEF k
      <4> QED BY <1>8, <1>9, <1>10, <3>2, <3>3
    <3>5. /\ DOMAIN poll'.page[k] = DOMAIN listing[i]
          /\ \A j \in DOMAIN poll'.page[k] :
                /\ poll'.page[k][j].api = listing[i][j]
                /\ poll'.page[k][j].content = live[listing[i][j]].content
      <4> HIDE DEF k
      <4> QED BY <3>3, <3>4, PageIsListed
    <3>6. poll' \in [pc : PollStates, offset : Nat, page : Seq(Seq(Entry)), more : BOOLEAN]
      <4>1. TypeOK'
        BY TypeStep DEF Next, Poller
      <4> QED BY <4>1 DEF TypeOK
    <3>7. PICK j \in DOMAIN listing[i] : listing[i][j] = a
      BY <3>1 DEF Elements
    <3>8. poll'.page[k][j] \in Entry
      <4> HIDE DEF k
      <4> QED BY <3>4, <3>5, <3>6, <3>7
    <3>9. poll'.page[k][j] = FreshEntry(a)
      <4> HIDE DEF k
      <4> QED BY <3>5, <3>7, <3>8 DEF Entry, FreshEntry
    <3>10. FreshEntry(a) \in Elements(poll'.page[k])
      <4> HIDE DEF k
      <4> QED BY <3>5, <3>7, <3>9 DEF Elements
    <3>11. OnPageNow(a)'
      <4> HIDE DEF k
      <4> QED BY <2>1, <3>4, <3>10 DEF OnPageNow
    <3> QED BY <3>11 DEF Met
  <2> QED BY <2>2, <2>3
<1>7. AllMet'
  BY <1>1, <1>2, <1>6, QuietStays DEF AllMet, ListedBefore
<1> QED BY <1>2, <1>4, <1>5, <1>7 DEF PassInv

LEMMA HandOutMeets ==
    ASSUME TypeOK, Quiet, PassInv, HandOut
    PROVE  PassInv'
<1>1. /\ UNCHANGED <<live, listing, configured, filter, cache>> /\ poll.pc = "hand"
      /\ poll.page # <<>> /\ poll.page \in Seq(Seq(Entry)) /\ worker \in [Workers -> WorkerState]
      /\ poll' = [poll EXCEPT !.page = Tail(@)]
  BY DEF HandOut, world, known, TypeOK
<1>2. poll'.pc = "hand" /\ poll'.page = Tail(poll.page) /\ UNCHANGED <<poll.offset, poll.more>>
  BY <1>1 DEF TypeOK
<1>3. PICK v \in Workers : worker[v].pc = "idle"
                           /\ worker' = [worker EXCEPT ![v] = Resume(Head(poll.page), <<>>)]
  BY DEF HandOut
<1>4. \A w \in Workers : w # v => worker'[w] = worker[w]
  <2> HIDE DEF Resume
  <2> QED BY <1>1, <1>3
<1>5. InForce'
  BY <1>1 DEF PassInv, InForce
<1>6. ASSUME NEW a \in Apis, Met(a) PROVE Met(a)'
  <2>1. Current(a)' = Current(a) /\ FreshEntry(a)' = FreshEntry(a)
    BY QuietStays
  <2>2. CASE Current(a) \in cache
    BY <1>1, <2>1, <2>2 DEF Met
  <2>3. ASSUME NEW w \in Workers, InWork(w, a) PROVE Met(a)'
    <3>1. w # v
      BY <1>3, <2>3 DEF InWork
    <3>2. InWork(w, a)'
      BY <1>1, <1>4, <2>1, <2>3, <3>1 DEF InWork, InHand, At, Job
    <3> QED BY <3>2 DEF Met
  <2>4. ASSUME NEW i \in DOMAIN poll.page, FreshEntry(a) \in Elements(poll.page[i]) PROVE Met(a)'
    <3>1. CASE i = 1
      <4> DEFINE todo == Head(poll.page)
                 none == <<>>
      <4>1. todo \in Seq(Entry) /\ FreshEntry(a) \in Elements(todo)
        BY <1>1, <2>4, <3>1
      <4>2. todo # <<>>
        BY <4>1 DEF Elements
      <4>3. worker'[v] = Resume(todo, none)
        BY <1>1, <1>3
      <4> HIDE DEF todo, none
      <4>4. worker'[v].pc = "detail" /\ worker'[v].todo = todo
        BY <4>2, <4>3 DEF Resume
      <4>5. FreshEntry(a) = Head(todo) \/ FreshEntry(a) \in Elements(Tail(todo))
        BY <4>1, <4>2, HeadTailElements
      <4>6. InWork(v, a)'
        BY <2>1, <4>2, <4>4, <4>5 DEF InWork, InHand, At, Job
      <4> QED BY <4>6 DEF Met
    <3>2. CASE i # 1
      <4> DEFINE page == poll.page
                 S == Seq(Entry)
      <4>1. page \in Seq(S) /\ page # <<>> /\ i \in DOMAIN page
        BY <1>1, <2>4
      <4> HIDE DEF page, S
      <4>2. i - 1 \in DOMAIN Tail(page) /\ Tail(page)[i - 1] = page[i]
        BY ONLY <3>2, <4>1
      <4>3. i - 1 \in DOMAIN poll'.page /\ poll'.page[i - 1] = poll.page[i]
        BY <1>2, <4>2 DEF page
      <4>4. OnPageNow(a)'
        BY <2>1, <2>4, <4>3 DEF OnPageNow
      <4> QED BY <4>4 DEF Met
    <3> QED BY <3>1, <3>2
  <2> QED BY <1>6, <2>2, <2>3, <2>4 DEF Met, OnPageNow
<1>7. AllMet'
  BY <1>1, <1>2, <1>6, QuietStays DEF PassInv, AllMet, ListedBefore
<1> QED BY <1>1, <1>2, <1>5, <1>7 DEF PassInv

(* The page is handed out, and with the last one every listed API is met.  *)
LEMMA PageDoneMeets ==
    ASSUME TypeOK, Quiet, PassInv, PageDone
    PROVE  PassInv'
<1>1. /\ UNCHANGED <<live, listing, configured, filter, cache, worker>> /\ poll.pc = "hand"
      /\ poll.page = <<>> /\ listing \in Seq(Seq(Apis)) /\ poll.offset \in Nat
  BY PipelineAssumption DEF PageDone, world, known, TypeOK
<1>2. InForce'
  BY <1>1 DEF PassInv, InForce
<1>3. ASSUME NEW a \in Apis, Met(a) PROVE Met(a)'
  <2>1. Current(a)' = Current(a) /\ FreshEntry(a)' = FreshEntry(a)
    BY QuietStays
  <2>2. ~OnPageNow(a)
    BY <1>1 DEF OnPageNow
  <2> QED BY <1>1, <1>3, <2>1, <2>2 DEF Met, InWork, InHand, At, Job
<1>4. CASE poll.more
  <2>1. poll'.pc = "list" /\ poll'.offset = poll.offset /\ poll'.page = <<>>
    BY <1>1, <1>4 DEF PageDone, TypeOK
  <2>2. AllMet'
    BY <1>1, <1>3, <2>1, QuietStays DEF PassInv, AllMet, ListedBefore
  <2> QED BY <1>2, <2>1, <2>2 DEF PassInv
<1>5. CASE ~poll.more
  <2>1. poll' = Stopped("sleep") /\ poll.offset >= Len(listing)
    BY <1>1, <1>5 DEF PageDone, PassInv
  <2>2. ASSUME NEW a \in Apis, Eligible(a) PROVE ListedBefore(a, poll.offset)
    <3>1. PICK i \in DOMAIN listing : a \in Elements(listing[i])
      BY <2>2 DEF Eligible
    <3>2. i <= poll.offset
      BY <1>1, <2>1, <3>1
    <3> QED BY <3>1, <3>2 DEF ListedBefore
  <2>3. AllMet'
    BY <1>3, <2>2, QuietStays DEF PassInv, AllMet
  <2> QED BY <1>2, <2>1, <2>3 DEF PassInv, Stopped
<1> QED BY <1>4, <1>5

LEMMA NothingListed == ASSUME TypeOK, NEW a PROVE ~ListedBefore(a, 0)
<1>1. listing \in Seq(Seq(Apis))
  BY PipelineAssumption DEF TypeOK
<1>2. \A i \in DOMAIN listing : ~(i <= 0)
  BY <1>1
<1> QED BY <1>2 DEF ListedBefore

LEMMA PassStarts == TypeOK /\ PassBegins /\ InForce => PassInv
BY NothingListed DEF PassBegins, Stopped, PassInv, AllMet

LEMMA PassStep == TypeOK /\ PassInv /\ [Next]_vars /\ [Quiet]_vars => PassInv'
<1> SUFFICES ASSUME TypeOK, PassInv, [Next]_vars, Quiet PROVE PassInv'
  BY DEF vars, Quiet, world
<1>1. \A call : ~Fails(call)
  BY NoFailure
<1>2. /\ crashes' = crashes /\ crashes \in Nat
      /\ edits' = edits /\ edits \in Nat
  BY PipelineAssumption DEF Quiet, world, TypeOK
<1>3. poll.pc \in {"list", "hand", "sleep"} /\ filter = Cleaned(configured)
  BY DEF PassInv, InForce
<1>4. CASE UNCHANGED <<filter, poll, worker, cache>>
  <2>1. InForce'
    BY <1>4 DEF PassInv, InForce, Quiet, world
  <2>2. ASSUME NEW a \in Apis PROVE Met(a)' <=> Met(a)
    <3>1. \A w \in Workers : InWork(w, a)' <=> InWork(w, a)
      BY <1>4, QuietStays DEF InWork, InHand, At, Job
    <3> QED BY <1>4, <3>1, QuietStays DEF Met, OnPageNow
  <2>3. AllMet'
    BY <1>4, <2>2, QuietStays DEF PassInv, AllMet, ListedBefore
  <2> QED BY <1>4, <2>1, <2>3, QuietStays DEF PassInv, Quiet, world
<1>5. CASE \E w \in Workers : Process(w)
  BY <1>5, ProcessMeets
<1>6. CASE Tick
  <2>1. PassBegins' /\ InForce' /\ TypeOK'
    BY <1>3, <1>6, TypeStep DEF Tick, PassBegins, Stopped, InForce, world, Next, Poller
  <2>2. \A a \in Apis : ~ListedBefore(a, 0)'
    BY NothingListed DEF ListedBefore, Quiet, world
  <2> QED BY <2>1, <2>2 DEF PassBegins, Stopped, PassInv, AllMet
<1>7. CASE ListPage \/ HandOut \/ PageDone
  BY <1>7, ListMeets, HandOutMeets, PageDoneMeets
<1>8. CASE Publisher
  BY <1>1, <1>4, <1>8 DEF Publisher, Receive, Publish, PublishFails, known
<1> QED BY <1>1, <1>2, <1>3, <1>4, <1>5, <1>6, <1>7, <1>8
        DEF Next, Edit, Relist, Reconfigure, Poller, GetRevisions, ListFails, Handler,
            StopPolling, StopPublishing, SetTags, SetIgnoreTags, GetAPIPanics, Crash, Restart,
            vars, known

LEMMA ProcessLoses ==
    ASSUME NEW w \in Workers, Process(w), ~BuildFails(w)
    PROVE  UNCHANGED <<central, lost>>
<1>1. CASE SkipUnwanted(w) \/ GetAPI(w)
  BY <1>1 DEF SkipUnwanted, GetAPI, known
<1>2. CASE GetPolicies(w) \/ PoliciesFail(w)
  BY <1>2 DEF GetPolicies, PoliciesFail, known
<1>3. CASE Lookup(w) \/ Save(w)
  BY <1>3 DEF Lookup, Save, known
<1>4. CASE BuildDetail(w) \/ Send(w)
  BY <1>4 DEF BuildDetail, Send, known
<1> QED BY <1>1, <1>2, <1>3, <1>4 DEF Process

(* At the end of a pass there is no page: an API is in the cache, or a     *)
(* goroutine will bring it there.                                          *)
InCache(a) == Current(a) \in cache
Caught(a) == InCache(a) \/ \E w \in Workers : InWork(w, a)

LEMMA PassEndCatches ==
    ASSUME PassInv, poll.pc = "sleep", NEW a \in Apis, Eligible(a)
    PROVE  Caught(a)
BY DEF PassInv, AllMet, Met, OnPageNow, Caught, InCache

(* From there it goes on to Central, in one place at a time.               *)
Has(w, a) == \/ At(w, "spec") /\ worker[w].sum = Current(a)
             \/ Current(a) \in Elements(worker[w].out)
Queued(a) == Current(a) \in Elements(apiChan)
AtPublisher(a) == pub # None /\ pub = Current(a)
There(a) == Current(a) \in Elements(central) \cup lost

LEMMA CachedIsSomewhere ==
    ASSUME CacheAccounted, NEW a \in WithSpec, InCache(a)
    PROVE  There(a) \/ AtPublisher(a) \/ Queued(a) \/ \E w \in Workers : Has(w, a)
<1>1. Current(a) \in Elements(central) \cup lost \cup InFlight
  BY DEF CacheAccounted, InCache, Current
<1>2. CASE Current(a) \in Building
  BY <1>2 DEF Building, Has
<1>3. CASE Current(a) \in Built
  BY <1>3 DEF Built, Has
<1> QED BY <1>1, <1>2, <1>3 DEF InFlight, There, AtPublisher, Queued

(* While nothing changes or fails in a pass, every step is one of these.   *)
LEMMA QuietSteps ==
    ASSUME NEW Goal, TypeOK, PassInv, [Next]_vars, Quiet,
           \A w \in Workers : Process(w) /\ ~BuildFails(w) => Goal,
           HandOut => Goal, Receive => Goal, Publish => Goal,
           UNCHANGED <<worker, cache, lost, apiChan, pub, central>> => Goal
    PROVE  Goal
<1>1. \A call : ~Fails(call)
  BY NoFailure
<1>2. /\ crashes' = crashes /\ crashes \in Nat
      /\ edits' = edits /\ edits \in Nat
  BY PipelineAssumption DEF Quiet, world, TypeOK
<1>3. poll.pc \in {"list", "hand", "sleep"} /\ filter = Cleaned(configured)
  BY DEF PassInv, InForce
<1>4. \A w \in Workers : ~BuildFails(w) /\ ~GetAPIPanics(w)
  BY <1>1 DEF BuildFails, GetAPIPanics
<1>5. CASE ListPage \/ PageDone \/ Tick
  BY <1>5 DEF ListPage, PageDone, Tick, known
<1> QED BY <1>1, <1>2, <1>3, <1>4, <1>5
        DEF Next, Edit, Relist, Reconfigure, Poller, GetRevisions, ListFails, Handler, Publisher,
            StopPolling, StopPublishing, SetTags, SetIgnoreTags, Crash, Restart, PublishFails, vars

LEMMA WorkStays ==
    ASSUME TypeOK, PassInv, [Next]_vars, Quiet, NEW a \in Apis, Eligible(a),
           NEW w \in Workers, InWork(w, a)
    PROVE  InWork(w, a)' \/ InCache(a)'
<1> DEFINE Goal == InWork(w, a)' \/ InCache(a)'
<1>1. Current(a)' = Current(a) /\ FreshEntry(a)' = FreshEntry(a) /\ live' = live
  BY QuietStays
<1>2. ASSUME worker'[w] = worker[w] PROVE Goal
  BY <1>1, <1>2 DEF InWork, InHand, At, Job
<1>3. ASSUME NEW v \in Workers, Process(v) PROVE Goal
  <2>1. CASE v = w
    <3>1. InHand(w, a) \/ FreshEntry(a) \in Elements(Tail(worker[w].todo))
      BY DEF InWork
    <3>2. Current(a) \in cache' \/ InWork(w, a)'
      BY <1>3, <2>1, <3>1, HandStep, WaitStep DEF PassInv
    <3> QED BY <1>1, <3>2 DEF InCache
  <2>2. CASE v # w
    BY <1>2, <1>3, <2>2, TodoStep
  <2> QED BY <2>1, <2>2
<1> HIDE DEF Goal
<1>4. HandOut => Goal
  <2> SUFFICES ASSUME HandOut PROVE Goal
    OBVIOUS
  <2>1. PICK v \in Workers : worker[v].pc = "idle"
                             /\ worker' = [worker EXCEPT ![v] = Resume(Head(poll.page), <<>>)]
    BY DEF HandOut
  <2>2. w # v
    BY <2>1 DEF InWork
  <2>3. worker'[w] = worker[w]
    <3> HIDE DEF Resume
    <3> QED BY <2>1, <2>2 DEF TypeOK
  <2> QED BY <1>2, <2>3
<1>5. Receive \/ Publish => Goal
  BY <1>2 DEF Receive, Publish
<1>6. Goal
  BY <1>2, <1>3, <1>4, <1>5, QuietSteps
<1> QED BY <1>6 DEF Goal

LEMMA CacheStays ==
    ASSUME TypeOK, PassInv, [Next]_vars, Quiet, NEW a \in Apis, InCache(a)
    PROVE  InCache(a)'
<1> DEFINE Goal == InCache(a)'
<1>1. ASSUME cache \subseteq cache' PROVE Goal
  BY <1>1, QuietStays DEF InCache
<1>2. ASSUME NEW v \in Workers, Process(v) PROVE cache \subseteq cache'
  BY <1>2 DEF Process, SkipUnwanted, GetAPI, GetPolicies, PoliciesFail, Lookup, Save,
              BuildDetail, BuildFails, Send, known
<1>3. HandOut \/ Receive \/ Publish => cache \subseteq cache'
  BY DEF HandOut, Receive, Publish, known
<1> HIDE DEF Goal
<1>4. Goal
  BY <1>1, <1>2, <1>3, QuietSteps
<1> QED BY <1>4 DEF Goal

(* What a goroutine has built it sends.                                    *)
LEMMA HasStays ==
    ASSUME TypeOK, PassInv, [Next]_vars, Quiet, NEW a \in Apis, Eligible(a),
           NEW w \in Workers, Has(w, a)
    PROVE  Has(w, a)' \/ Queued(a)'
<1> DEFINE Goal == Has(w, a)' \/ Queued(a)'
<1>0. /\ worker \in [Workers -> WorkerState] /\ worker[w] \in WorkerState
      /\ worker[w].out \in Seq(Checksum) /\ apiChan \in Seq(Checksum)
      /\ Current(a)' = Current(a) /\ a \in WithSpec
  BY QuietStays DEF TypeOK, WorkerState, WorkerType, Eligible
<1>1. ASSUME worker'[w] = worker[w] PROVE Goal
  BY <1>0, <1>1 DEF Has, At
<1>2. ASSUME Process(w), ~BuildFails(w) PROVE Goal
  <2>1. CASE GoesOn(w)
    <3>1. worker'[w].out = worker[w].out /\ worker[w].pc # "spec"
      BY <2>1 DEF GoesOn
    <3> QED BY <1>0, <3>1 DEF Has, At
  <2>2. CASE BuildDetail(w)
    <3> DEFINE found == IF Job(w).api \in WithSpec THEN <<worker[w].sum>> ELSE <<>>
    <3>1. /\ NextApi(w, found) /\ worker[w].pc = "spec"
          /\ worker[w].sum \in Checksum /\ worker[w].sum.api = Job(w).api
      BY <1>0, <2>2 DEF BuildDetail, At, WorkerState, Job
    <3>2. found \in Seq(Checksum)
      BY <3>1
    <3>3. worker[w].sum = Current(a) => Current(a) \in Elements(found)
      BY <1>0, <3>1 DEF Current, Elements
    <3> HIDE DEF found
    <3>4. Elements(worker'[w].out) = Elements(worker[w].out) \cup Elements(found)
      BY <3>1, <3>2, NextApiOut
    <3> QED BY <1>0, <3>3, <3>4 DEF Has
  <2>3. CASE Send(w)
    <3> DEFINE none == <<>>
               rest == Tail(worker[w].out)
    <3>1. /\ worker[w].pc = "send" /\ worker[w].out # <<>>
          /\ apiChan' = Append(apiChan, Head(worker[w].out))
          /\ worker'[w] = Resume(none, rest)
      BY <1>0, <2>3 DEF Send, At, WorkerState
    <3>2. /\ Head(worker[w].out) \in Checksum
          /\ Elements(worker[w].out) = {Head(worker[w].out)} \cup Elements(rest)
      BY <1>0, <3>1, HeadTailElements
    <3>3. Elements(apiChan') = Elements(apiChan) \cup {Head(worker[w].out)}
      BY <1>0, <3>1, <3>2, AppendElements
    <3> HIDE DEF none, rest
    <3>4. worker'[w].out = rest
      BY <3>1, ResumeOut
    <3> QED BY <1>0, <3>1, <3>2, <3>3, <3>4 DEF Has, At, Queued
  <2>4. CASE worker[w].pc \in {"detail", "policies", "lookup"} /\ NextApi(w, <<>>)
    <3> DEFINE none == <<>>
    <3>1. none \in Seq(Checksum) /\ NextApi(w, none)
      BY <2>4
    <3> HIDE DEF none
    <3>2. Elements(worker'[w].out) = Elements(worker[w].out) \cup Elements(none)
      BY <2>4, <3>1, NextApiOut
    <3> QED BY <1>0, <2>4, <3>2 DEF Has, At
  <2>5. worker[w].pc = "spec" => BuildDetail(w)
    BY <1>2 DEF Process, SkipUnwanted, GetAPI, GetPolicies, PoliciesFail, Lookup, Save, Send, At
  <2> QED BY <1>2, <2>1, <2>2, <2>3, <2>4, <2>5, WorkStep
<1> HIDE DEF Goal
<1>3. \A v \in Workers : Process(v) /\ ~BuildFails(v) => Goal
  BY <1>1, <1>2, TodoStep
<1>4. HandOut => Goal
  <2> SUFFICES ASSUME HandOut PROVE Goal
    OBVIOUS
  <2>1. PICK v \in Workers : worker[v].pc = "idle"
                             /\ worker' = [worker EXCEPT ![v] = Resume(Head(poll.page), <<>>)]
    BY DEF HandOut
  <2>2. w # v
    BY <1>0, <2>1 DEF Has, At, WorkerState, Elements
  <2>3. worker'[w] = worker[w]
    <3> HIDE DEF Resume
    <3> QED BY <1>0, <2>1, <2>2
  <2> QED BY <1>1, <2>3
<1>5. Receive \/ Publish => Goal
  BY <1>1 DEF Receive, Publish
<1>6. Goal
  BY <1>1, <1>3, <1>4, <1>5, QuietSteps
<1> QED BY <1>6 DEF Goal

LEMMA QueuedStays ==
    ASSUME TypeOK, PassInv, [Next]_vars, Quiet, NEW a \in Apis, Queued(a)
    PROVE  Queued(a)' \/ AtPublisher(a)'
<1> DEFINE Goal == Queued(a)' \/ AtPublisher(a)'
<1>0. apiChan \in Seq(Checksum) /\ Current(a)' = Current(a)
  BY QuietStays DEF TypeOK
<1>1. ASSUME UNCHANGED apiChan PROVE Goal
  BY <1>0, <1>1 DEF Queued
<1>2. ASSUME Receive PROVE Goal
  <2>1. pub' = Head(apiChan) /\ apiChan' = Tail(apiChan) /\ apiChan # <<>>
    BY <1>2 DEF Receive
  <2>2. Elements(apiChan) = {Head(apiChan)} \cup Elements(Tail(apiChan))
    BY <1>0, <2>1, HeadTailElements
  <2>3. pub' # None
    BY <1>0, <2>1, NoneAssumption
  <2> QED BY <1>0, <2>1, <2>2, <2>3 DEF Queued, AtPublisher
<1>3. ASSUME NEW v \in Workers, Process(v) PROVE Goal
  <2>1. CASE Send(v)
    <3>1. worker[v] \in WorkerState /\ worker[v].out \in Seq(Checksum) /\ worker[v].out # <<>>
          /\ apiChan' = Append(apiChan, Head(worker[v].out))
      BY <2>1 DEF TypeOK, WorkerState, WorkerType, Send, At
    <3>2. Head(worker[v].out) \in Checksum
      BY <3>1, HeadTailElements
    <3>3. Elements(apiChan) \subseteq Elements(apiChan')
      BY <1>0, <3>1, <3>2, AppendElements
    <3> QED BY <1>0, <3>3 DEF Queued
  <2>2. CASE ~Send(v)
    <3>1. UNCHANGED apiChan
      BY <1>3, <2>2
         DEF Process, SkipUnwanted, GetAPI, GetPolicies, PoliciesFail, Lookup, Save,
             BuildDetail, BuildFails
    <3> QED BY <1>1, <3>1
  <2> QED BY <2>1, <2>2
<1> HIDE DEF Goal
<1>4. HandOut \/ Publish => Goal
  BY <1>1 DEF HandOut, Publish
<1>5. Goal
  BY <1>1, <1>2, <1>3, <1>4, QuietSteps
<1> QED BY <1>5 DEF Goal

LEMMA PublisherStays ==
    ASSUME TypeOK, PassInv, [Next]_vars, Quiet, NEW a \in Apis, AtPublisher(a)
    PROVE  AtPublisher(a)' \/ There(a)'
<1> DEFINE Goal == AtPublisher(a)' \/ There(a)'
<1>0. Current(a)' = Current(a)
  BY QuietStays
<1>1. ASSUME UNCHANGED pub PROVE Goal
  BY <1>0, <1>1 DEF AtPublisher
<1>2. ASSUME Publish PROVE Goal
  <2>1. /\ central \in Seq(Checksum) /\ pub \in Checksum
        /\ central' = Append(central, pub)
    BY <1>2 DEF Publish, TypeOK
  <2>2. Elements(central') = Elements(central) \cup {pub}
    BY <2>1, AppendElements
  <2> QED BY <1>0, <2>2 DEF AtPublisher, There
<1> HIDE DEF Goal
<1>3. \A v \in Workers : Process(v) => Goal
  BY <1>1, TodoStep
<1>4. HandOut \/ Receive => Goal
  BY <1>1 DEF HandOut, Receive, AtPublisher
<1>5. Goal
  BY <1>1, <1>2, <1>3, <1>4, QuietSteps
<1> QED BY <1>5 DEF Goal

LEMMA ThereStays ==
    ASSUME TypeOK, PassInv, [Next]_vars, Quiet, NEW a \in Apis, There(a)
    PROVE  There(a)'
<1> DEFINE Goal == There(a)'
<1>0. Current(a)' = Current(a)
  BY QuietStays
<1>1. ASSUME UNCHANGED <<central, lost>> PROVE Goal
  BY <1>0, <1>1 DEF There
<1>2. ASSUME Publish PROVE Goal
  <2>1. /\ central \in Seq(Checksum) /\ pub \in Checksum
        /\ central' = Append(central, pub) /\ lost' = lost
    BY <1>2 DEF Publish, TypeOK, known
  <2>2. Elements(central') = Elements(central) \cup {pub}
    BY <2>1, AppendElements
  <2> QED BY <1>0, <2>1, <2>2 DEF There
<1> HIDE DEF Goal
<1>3. \A v \in Workers : Process(v) /\ ~BuildFails(v) => Goal
  BY <1>1, ProcessLoses
<1>4. HandOut \/ Receive => Goal
  BY <1>1 DEF HandOut, Receive, known
<1>5. Goal
  BY <1>1, <1>2, <1>3, <1>4, QuietSteps
<1> QED BY <1>5 DEF Goal

LEMMA NoneHeld ==
    ASSUME TypeOK, NEW a \in Apis
    PROVE  /\ \A w \in Workers : worker[w].pc = "idle" => ~InWork(w, a) /\ ~Has(w, a)
           /\ apiChan = <<>> => ~Queued(a)
           /\ pub = None => ~AtPublisher(a)
BY DEF TypeOK, WorkerState, InWork, Has, At, Queued, AtPublisher, Elements

(* A pass is under way or over, and nothing changes or fails any more.     *)
Calm == /\ []TypeOK /\ []CacheAccounted /\ []PassInv
        /\ [][Next]_vars /\ [][Quiet]_vars
Emptied == []<>(apiChan = <<>>) /\ []<>(pub = None)
ComesToCache(a) == <>InCache(a)
ComesThere(a) == <>There(a)

(* Steps while it is calm: each one, whether it changes anything or not.   *)
LEMMA CalmStep ==
    ASSUME TypeOK, PassInv, [Next]_vars, [Quiet]_vars, NEW a \in Apis
    PROVE  /\ Eligible(a)' <=> Eligible(a)
           /\ \A w \in Workers : Eligible(a) /\ InWork(w, a) => InWork(w, a)' \/ InCache(a)'
           /\ InCache(a) => InCache(a)'
           /\ \A w \in Workers : Eligible(a) /\ Has(w, a) => Has(w, a)' \/ Queued(a)'
           /\ Queued(a) => Queued(a)' \/ AtPublisher(a)'
           /\ AtPublisher(a) => AtPublisher(a)' \/ There(a)'
           /\ There(a) => There(a)'
<1>1. CASE Quiet
  BY <1>1, QuietStays, WorkStays, CacheStays, HasStays, QueuedStays, PublisherStays, ThereStays
<1>2. CASE UNCHANGED vars
  BY <1>2 DEF vars, world, known, Eligible, InWork, InHand, At, Job, FreshEntry, Current,
              InCache, Has, Queued, AtPublisher, There
<1> QED BY <1>1, <1>2

LEMMA CaughtComes ==
    ASSUME NEW a \in Apis
    PROVE  Calm /\ EachReturns /\ Eligible(a) /\ Caught(a) => ComesToCache(a)
<1>1. ASSUME NEW w \in Workers
      PROVE  Calm /\ Returns(w) /\ Eligible(a) /\ InWork(w, a) => ComesToCache(a)
  <2>1. TypeOK /\ PassInv /\ [Next]_vars /\ [Quiet]_vars /\ Eligible(a) /\ InWork(w, a)
        => Eligible(a)' /\ (InWork(w, a)' \/ InCache(a)')
    BY CalmStep
  <2>2. TypeOK /\ worker[w].pc = "idle" => ~InWork(w, a)
    BY NoneHeld
  <2> QED BY <2>1, <2>2, PTL DEF Calm, Returns, ComesToCache
<1>2. InCache(a) => ComesToCache(a)
  BY PTL DEF ComesToCache
<1> QED BY <1>1, <1>2 DEF Caught, EachReturns

LEMMA CachedComes ==
    ASSUME NEW a \in Apis
    PROVE  Calm /\ EachReturns /\ Emptied /\ Eligible(a) /\ InCache(a) => ComesThere(a)
<1>1. TypeOK /\ PassInv /\ [Next]_vars /\ [Quiet]_vars /\ Queued(a)
      => Queued(a)' \/ AtPublisher(a)'
  BY CalmStep
<1>2. TypeOK /\ PassInv /\ [Next]_vars /\ [Quiet]_vars /\ AtPublisher(a)
      => AtPublisher(a)' \/ There(a)'
  BY CalmStep
<1>3. TypeOK => (apiChan = <<>> => ~Queued(a)) /\ (pub = None => ~AtPublisher(a))
  BY NoneHeld
<1>4. Calm /\ Emptied /\ (Queued(a) \/ AtPublisher(a)) => ComesThere(a)
  BY <1>1, <1>2, <1>3, PTL DEF Calm, Emptied, ComesThere
<1>5. ASSUME NEW w \in Workers
      PROVE  Calm /\ Returns(w) /\ Emptied /\ Eligible(a) /\ Has(w, a) => ComesThere(a)
  <2>1. TypeOK /\ PassInv /\ [Next]_vars /\ [Quiet]_vars /\ Eligible(a) /\ Has(w, a)
        => Eligible(a)' /\ (Has(w, a)' \/ Queued(a)')
    BY CalmStep
  <2>2. TypeOK /\ worker[w].pc = "idle" => ~Has(w, a)
    BY NoneHeld
  <2> QED BY <2>1, <2>2, <1>1, <1>2, <1>3, PTL DEF Calm, Emptied, Returns, ComesThere
<1>6. There(a) => ComesThere(a)
  BY PTL DEF ComesThere
<1>7. Calm => CacheAccounted
  BY PTL DEF Calm
<1>8. Eligible(a) => a \in WithSpec
  BY DEF Eligible
<1> QED BY <1>4, <1>5, <1>6, <1>7, <1>8, CachedIsSomewhere DEF EachReturns

(* As long as work goes on, all that is to be discovered reaches Central   *)
(* once Mulesoft and the configuration stop changing and nothing fails.    *)
AtPassEnd == poll.pc = "sleep"

THEOREM PassesSync == Spec /\ <>[][Quiet]_vars /\ PassesGoOn => EventuallySynced
<1>1. ASSUME NEW a \in Apis
      PROVE  Spec /\ <>[][Quiet]_vars /\ PassesGoOn => SyncedForGood(a)
  <2>1. TypeOK /\ PassBegins /\ InForce => PassInv
    BY PassStarts
  <2>2. TypeOK /\ PassInv /\ [Next]_vars /\ [Quiet]_vars => PassInv'
    BY PassStep
  <2>3. PassInv /\ AtPassEnd /\ Eligible(a) => Caught(a)
    BY PassEndCatches DEF AtPassEnd
  <2>4. TypeOK /\ PassInv /\ [Next]_vars /\ [Quiet]_vars
        => (Eligible(a) <=> Eligible(a)') /\ (There(a) => There(a)')
           /\ (InCache(a) => InCache(a)')
    BY CalmStep
  <2>5. Calm /\ EachReturns /\ Eligible(a) /\ Caught(a) => ComesToCache(a)
    BY CaughtComes
  <2>6. Calm /\ EachReturns /\ Emptied /\ Eligible(a) /\ InCache(a) => ComesThere(a)
    BY CachedComes
  <2>7. Synced(a) <=> (Eligible(a) => There(a))
    BY DEF Synced, There
  <2>8. Spec => []TypeOK /\ []CacheAccounted
    BY TypeCorrect, CacheIsAccountedFor, PTL
  <2>9. Spec /\ <>[][Quiet]_vars /\ PassesGoOn
        => <>Calm /\ []<>AtPassEnd /\ []EachReturns /\ []Emptied
    BY <2>1, <2>2, <2>8, PTL DEF Spec, PassesGoOn, Calm, Emptied, AtPassEnd
  <2> QED BY <2>3, <2>4, <2>5, <2>6, <2>7, <2>9, PTL
             DEF Calm, ComesToCache, ComesThere, SyncedForGood
<1> QED BY <1>1 DEF EventuallySynced

(* The latest revision in the end.  Once Mulesoft and the configuration    *)
(* have come to rest, an API of which no older reading is under way, and   *)
(* none was published behind its present state, comes to have that state   *)
(* as its latest revision, and keeps it.  After a restart nothing is under *)
(* way, so there this asks only for what Central had before.               *)
Ordered(a) == NothingOlder(a) /\ InOrder(a)
UpToDate(a) ==
    Eligible(a) => \/ Current(a) \in Elements(central) /\ central[Latest(a)] = Current(a)
                   \/ Current(a) \in lost

THEOREM LatestComesLast ==
    ASSUME NEW a \in Apis
    PROVE  Spec /\ PassesGoOn /\ <>([][Quiet]_vars /\ Ordered(a)) => <>[]UpToDate(a)
<1>1. TypeOK /\ [Next]_vars /\ [Quiet]_vars /\ Ordered(a) => Ordered(a)'
  <2> SUFFICES ASSUME TypeOK, [Next]_vars, [Quiet]_vars, Ordered(a) PROVE Ordered(a)'
    OBVIOUS
  <2>1. live'[a] = live[a]
    BY DEF Quiet, world, vars
  <2> QED BY <2>1, OrderStep DEF Ordered
<1>2. Synced(a) /\ Ordered(a) => UpToDate(a)
  BY DEF Synced, Ordered, InOrder, UpToDate
<1>3. Spec /\ <>[][Quiet]_vars /\ PassesGoOn => SyncedForGood(a)
  BY PassesSync DEF EventuallySynced
<1>4. Spec => []TypeOK
  BY TypeCorrect
<1> QED BY <1>1, <1>2, <1>3, <1>4, PTL DEF Spec, SyncedForGood


(* No failure after the cache write.                                       *)
BuildsSucceed == {"spec", "publish"} \cap Faults = {}
NothingLost == lost = {}

LEMMA NothingIsLost == ASSUME BuildsSucceed PROVE Spec => []NothingLost
<1>1. Init => NothingLost
  BY DEF Init, NothingLost
<1>2. NothingLost /\ [Next]_vars => NothingLost'
  <2> SUFFICES ASSUME NothingLost, [Next]_vars PROVE NothingLost'
    OBVIOUS
  <2>1. ~Fails("spec") /\ ~Fails("publish")
    BY DEF BuildsSucceed, Fails
  <2>2. ASSUME NEW w \in Workers, Process(w) PROVE UNCHANGED lost
    <3>1. ~BuildFails(w)
      BY <2>1 DEF BuildFails
    <3> QED BY <2>2, <3>1, ProcessLoses
  <2>3. CASE Publisher
    BY <2>1, <2>3 DEF Publisher, Receive, Publish, PublishFails, NothingLost, known
  <2>4. CASE Crash \/ \E w \in Workers : GetAPIPanics(w)
    BY <2>4 DEF Crash, GetAPIPanics, Die, NothingLost
  <2>5. CASE Poller
    BY <2>5 DEF Poller, GetRevisions, ListPage, ListFails, HandOut, PageDone, Tick, known,
                     NothingLost
  <2>6. CASE Handler \/ Restart
    BY <2>6 DEF Handler, StopPolling, StopPublishing, SetTags, SetIgnoreTags, Restart, known,
                     NothingLost
  <2>7. CASE Relist \/ Reconfigure \/ \E b \in Apis : Edit(b)
    BY <2>7 DEF Relist, Reconfigure, Edit, process, known, NothingLost
  <2>8. CASE UNCHANGED vars
    BY <2>8 DEF vars, NothingLost
  <2> QED BY <2>2, <2>3, <2>4, <2>5, <2>6, <2>7, <2>8 DEF Next, NothingLost
<1> QED BY <1>1, <1>2, PTL DEF Spec

LEMMA SyncedIsSettled ==
    ASSUME NEW a \in Apis, Synced(a), NothingLost
    PROVE  ~Ledger!Owed(a)
<1> SUFFICES ASSUME Ledger!Owed(a) PROVE FALSE
  OBVIOUS
<1>1. /\ Ledger!Listed(a, listing)
      /\ Ledger!Acceptable(a, configured, live[a].content, live[a].policies)
      /\ \A i \in DOMAIN central :
            central[i] # Ledger!Reading(a, live[a].content, live[a].proxy, live[a].policies)
  BY DEF Ledger!Owed
<1>2. Eligible(a)
  BY <1>1, LedgerOperators DEF Ledger!Listed, Ledger!Acceptable, Eligible, Elements
<1>3. PICK i \in DOMAIN central : central[i] = Current(a)
  BY <1>2 DEF Synced, NothingLost, Elements
<1>4. Current(a) = Ledger!Reading(a, live[a].content, live[a].proxy, live[a].policies)
  BY LedgerOperators DEF Current, Ledger!Reading
<1> QED BY <1>1, <1>3, <1>4

(* As long as work goes on, the pipeline keeps the whole promise of        *)
(* RevisionLedger: also that no API stays owed for ever.                   *)
THEOREM PassesSettleLedger ==
    ASSUME Serial, ListsOnce, NothingMovesBack, BuildsSucceed
    PROVE  Spec /\ <>[][Quiet]_vars /\ PassesGoOn => KeepsLedger
<1>1. Spec => Ledger!Spec
  BY PipelineKeepsLedger
<1>2. ASSUME NEW a \in Apis
      PROVE  Spec /\ <>[][Quiet]_vars /\ PassesGoOn => SyncedForGood(a)
  BY PassesSync DEF EventuallySynced
<1>3. Spec => []NothingLost
  BY NothingIsLost
<1>4. ASSUME NEW a \in Apis
      PROVE  Spec /\ <>[][Quiet]_vars /\ PassesGoOn => Ledger!Settled(a)
  <2>1. Synced(a) /\ NothingLost => ~Ledger!Owed(a)
    BY SyncedIsSettled
  <2>2. Spec /\ <>[][Quiet]_vars /\ PassesGoOn => SyncedForGood(a)
    BY <1>2
  <2> QED BY <1>3, <2>1, <2>2, PTL DEF Ledger!Settled, SyncedForGood
<1>5. Spec /\ <>[][Quiet]_vars /\ PassesGoOn => Ledger!AllSettled
  BY <1>4 DEF Ledger!AllSettled
<1> QED BY <1>1, <1>5 DEF KeepsLedger, Ledger!FairSpec

(* Both with nothing assumed of the passes: as long as no part is stuck,   *)
(* every API that is offered and can be read comes to Central in its       *)
(* present revision (once all that may change has changed), and what       *)
(* Central keeps is what RevisionLedger promises, its liveness included.   *)
COROLLARY OffersReachCentral ==
    ASSUME FewWorkers
    PROVE  Spec /\ []Fairness /\ []NeverStuck /\ []AllSettle => EventuallySynced
<1>1. Spec /\ []Fairness /\ []NeverStuck /\ []AllSettle => Run
  BY TypeCorrect, PTL DEF Spec, Run
<1>2. Spec /\ []Fairness /\ []NeverStuck /\ []AllSettle => <>[][Quiet]_vars /\ PassesGoOn
  BY <1>1, RunFallsQuiet, PassesContinue DEF FallsQuiet
<1> QED BY <1>2, PassesSync

COROLLARY OffersSettleLedger ==
    ASSUME Serial, ListsOnce, NothingMovesBack, BuildsSucceed, FewWorkers
    PROVE  Spec /\ []Fairness /\ []NeverStuck /\ []AllSettle => KeepsLedger
<1>1. Spec /\ []Fairness /\ []NeverStuck /\ []AllSettle => Run
  BY TypeCorrect, PTL DEF Spec, Run
<1>2. Spec /\ []Fairness /\ []NeverStuck /\ []AllSettle => <>[][Quiet]_vars /\ PassesGoOn
  BY <1>1, RunFallsQuiet, PassesContinue DEF FallsQuiet
<1> QED BY <1>2, PassesSettleLedger
=============================================================================
