---------------------- MODULE DiscoveryPipelineProofs ----------------------
(***************************************************************************)
(* Theorems about DiscoveryPipeline, for any number of APIs, assets,       *)
(* goroutines, edits, faults and crashes.                                  *)
(***************************************************************************)
EXTENDS DiscoveryPipeline, FiniteSetTheorems, TLAPS

(* The elements of a sequence after the operations the pipeline uses.      *)
LEMMA AppendElements ==
    ASSUME NEW S, NEW s \in Seq(S), NEW e \in S
    PROVE  /\ Append(s, e) \in Seq(S)
           /\ Elements(Append(s, e)) = Elements(s) \cup {e}
<1>1. Append(s, e) \in Seq(S)
  OBVIOUS
<1>2. ASSUME NEW x \in Elements(Append(s, e)) PROVE x \in Elements(s) \cup {e}
  BY <1>2 DEF Elements
<1>3. ASSUME NEW x \in Elements(s) PROVE x \in Elements(Append(s, e))
  BY <1>3 DEF Elements
<1>4. e \in Elements(Append(s, e))
  <2>1. Len(s) + 1 \in DOMAIN Append(s, e) /\ Append(s, e)[Len(s) + 1] = e
    OBVIOUS
  <2> QED BY <2>1 DEF Elements
<1> QED BY <1>1, <1>2, <1>3, <1>4

LEMMA HeadTailElements ==
    ASSUME NEW S, NEW s \in Seq(S), s # <<>>
    PROVE  /\ Head(s) \in S
           /\ Tail(s) \in Seq(S)
           /\ Elements(s) = {Head(s)} \cup Elements(Tail(s))
<1>1. Head(s) \in S /\ Tail(s) \in Seq(S)
  OBVIOUS
<1>2. ASSUME NEW x \in Elements(s) PROVE x \in {Head(s)} \cup Elements(Tail(s))
  <2>1. PICK i \in DOMAIN s : s[i] = x
    BY <1>2 DEF Elements
  <2>2. CASE i = 1
    BY <2>1, <2>2
  <2>3. CASE i # 1
    <3>1. i - 1 \in DOMAIN Tail(s) /\ Tail(s)[i - 1] = x
      BY <2>1, <2>3
    <3> QED BY <3>1 DEF Elements
  <2> QED BY <2>2, <2>3
<1>3. ASSUME NEW x \in Elements(Tail(s)) PROVE x \in Elements(s)
  BY <1>3 DEF Elements
<1>4. Head(s) \in Elements(s)
  <2>1. 1 \in DOMAIN s /\ s[1] = Head(s)
    OBVIOUS
  <2> QED BY <2>1 DEF Elements
<1> QED BY <1>1, <1>2, <1>3, <1>4

LEMMA ConcatElements ==
    ASSUME NEW S, NEW s \in Seq(S), NEW t \in Seq(S)
    PROVE  /\ s \o t \in Seq(S)
           /\ Elements(s \o t) = Elements(s) \cup Elements(t)
<1>1. s \o t \in Seq(S)
  OBVIOUS
<1>2. ASSUME NEW x \in Elements(s \o t) PROVE x \in Elements(s) \cup Elements(t)
  <2>1. PICK i \in DOMAIN (s \o t) : (s \o t)[i] = x
    BY <1>2 DEF Elements
  <2>2. CASE i <= Len(s)
    <3>1. i \in DOMAIN s /\ s[i] = x
      BY <2>1, <2>2
    <3> QED BY <3>1 DEF Elements
  <2>3. CASE i > Len(s)
    <3>1. i - Len(s) \in DOMAIN t /\ t[i - Len(s)] = x
      BY <2>1, <2>3
    <3> QED BY <3>1 DEF Elements
  <2> QED BY <2>1, <2>2, <2>3
<1>3. ASSUME NEW x \in Elements(s) PROVE x \in Elements(s \o t)
  <2>1. PICK i \in DOMAIN s : s[i] = x
    BY <1>3 DEF Elements
  <2>2. i \in DOMAIN (s \o t) /\ (s \o t)[i] = x
    BY <2>1
  <2> QED BY <2>2 DEF Elements
<1>4. ASSUME NEW x \in Elements(t) PROVE x \in Elements(s \o t)
  <2>1. PICK i \in DOMAIN t : t[i] = x
    BY <1>4 DEF Elements
  <2>2. Len(s) + i \in DOMAIN (s \o t) /\ (s \o t)[Len(s) + i] = x
    BY <2>1
  <2> QED BY <2>2 DEF Elements
<1> QED BY <1>1, <1>2, <1>3, <1>4
-----------------------------------------------------------------------------
(* What a goroutine becomes when it goes on is a state a goroutine can be  *)
(* in.                                                                     *)
LEMMA ResumeType ==
    ASSUME NEW todo \in Seq(Entry), NEW out \in Seq(Checksum)
    PROVE  Resume(todo, out) \in WorkerState
<1>1. CASE todo = <<>> /\ out = <<>>
  BY <1>1 DEF Resume, Idle, WorkerState, WorkerType
<1>2. CASE todo # <<>>
  BY <1>2 DEF Resume, WorkerState, WorkerType
<1>3. CASE todo = <<>> /\ out # <<>>
  BY <1>3 DEF Resume, WorkerState, WorkerType
<1> QED BY <1>1, <1>2, <1>3

LEMMA IdleType == Idle \in WorkerState
BY DEF Idle, WorkerState, WorkerType

(* A goroutine with an API to look at.                                     *)
LEMMA JobType ==
    ASSUME TypeOK, NEW w \in Workers,
           worker[w].pc \in {"detail", "policies", "lookup", "save", "spec"}
    PROVE  /\ worker[w] \in WorkerState
           /\ worker[w].todo \in Seq(Entry)
           /\ Job(w) \in Entry
           /\ Tail(worker[w].todo) \in Seq(Entry)
           /\ worker[w].out \in Seq(Checksum)
<1>1. worker[w] \in WorkerState
  BY DEF TypeOK
<1>2. worker[w].todo \in Seq(Entry) /\ worker[w].todo # <<>> /\ worker[w].out \in Seq(Checksum)
  BY <1>1 DEF WorkerState, WorkerType
<1> QED BY <1>1, <1>2, HeadTailElements DEF Job

LEMMA NextApiType ==
    ASSUME TypeOK, NEW w \in Workers,
           worker[w].pc \in {"detail", "policies", "lookup", "save", "spec"},
           NEW found \in Seq(Checksum),
           NextApi(w, found)
    PROVE  worker' \in [Workers -> WorkerState]
<1>1. Tail(worker[w].todo) \in Seq(Entry) /\ worker[w].out \o found \in Seq(Checksum)
  BY JobType, ConcatElements
<1>2. Resume(Tail(worker[w].todo), worker[w].out \o found) \in WorkerState
  BY <1>1, ResumeType
<1> QED BY <1>2 DEF NextApi, TypeOK

LEMMA CurrentConfig ==
    ASSUME TypeOK, NEW a \in Apis
    PROVE  /\ live[a].policies \in PolicyLists
           /\ live[a].proxy \in Proxies
           /\ live[a].content \in Contents
BY DEF TypeOK, Live

LEMMA CleanedType ==
    ASSUME NEW lists \in TagLists
    PROVE  Cleaned(lists) \in TagLists
<1>1. ASSUME NEW tags \in SUBSET Tags PROVE CleanTags(tags) \in SUBSET Tags
  BY <1>1, FilterAssumption DEF CleanTags
<1>2. lists.discovery \in SUBSET Tags /\ lists.ignore \in SUBSET Tags
  BY DEF TagLists
<1> QED BY <1>1, <1>2 DEF Cleaned, TagLists

(* Every state of the pipeline is well typed: goroutines hold what their   *)
(* program counter says, and the channel never holds more than it can.     *)
LEMMA TypeInit == Init => TypeOK
<1> SUFFICES ASSUME Init PROVE TypeOK
  OBVIOUS
<1> USE PipelineAssumption
<1>1. seen \in [Apis -> [content : SUBSET Contents, proxy : SUBSET Proxies,
                         policies : SUBSET PolicyLists]]
  BY DEF Init, Live
<1>2. worker \in [Workers -> WorkerState]
  BY IdleType DEF Init
<1>3. poll \in [pc : PollStates, offset : Nat,
                page : Seq(Seq(Entry)), more : BOOLEAN]
  BY DEF Init, Stopped, PollStates
<1>4. filter \in TagLists
  BY CleanedType DEF Init
<1> QED BY <1>1, <1>2, <1>3, <1>4 DEF Init, TypeOK

LEMMA EditType ==
    ASSUME TypeOK, NEW a \in Apis, Edit(a)
    PROVE  TypeOK'
<1> USE PipelineAssumption
<1>1. PICK new \in Live, part \in {"content", "proxy", "policies"} :
          /\ new = [live[a] EXCEPT ![part] = new[part]]
          /\ seen' = [seen EXCEPT ![a][part] = @ \cup {new[part]}]
          /\ live' = [live EXCEPT ![a] = new]
  BY DEF Edit
<1>2. live' \in [Apis -> Live]
  BY <1>1 DEF TypeOK
<1> DEFINE History == [content : SUBSET Contents, proxy : SUBSET Proxies,
                       policies : SUBSET PolicyLists]
<1>3. seen[a] \in History /\ seen \in [Apis -> History]
  BY DEF TypeOK
<1>4. [seen[a] EXCEPT ![part] = @ \cup {new[part]}] \in History
  <2>1. CASE part = "content"
    BY <1>3, <2>1 DEF Live
  <2>2. CASE part = "proxy"
    BY <1>3, <2>2 DEF Live
  <2>3. CASE part = "policies"
    BY <1>3, <2>3 DEF Live
  <2> QED BY <2>1, <2>2, <2>3
<1>5. seen' \in [Apis -> History]
  BY <1>1, <1>3, <1>4
<1>6. edits' \in 0..MaxEdits
  BY DEF TypeOK, Edit
<1> QED BY <1>2, <1>5, <1>6 DEF TypeOK, Edit, process, known

(* A function on the domain of a sequence is a sequence.                   *)
LEMMA MapType ==
    ASSUME NEW S, NEW s \in Seq(S), NEW T, NEW f, f \in [DOMAIN s -> T]
    PROVE  f \in Seq(T)
<1>1. DOMAIN s = 1..Len(s) /\ Len(s) \in Nat
  OBVIOUS
<1>2. f \in [1..Len(s) -> T]
  BY <1>1
<1> QED BY <1>1, <1>2

LEMMA PageType ==
    ASSUME TypeOK, ListPage
    PROVE  poll' \in [pc : PollStates, offset : Nat,
                      page : Seq(Seq(Entry)), more : BOOLEAN]
<1> USE PipelineAssumption
<1> DEFINE first == poll.offset + 1
           last == IF Len(listing) < poll.offset + PageSize THEN Len(listing)
                   ELSE poll.offset + PageSize
           assets == SubSeq(listing, first, last)
           entries == [i \in DOMAIN assets |->
                          [j \in DOMAIN assets[i] |->
                              [api |-> assets[i][j],
                               content |-> live[assets[i][j]].content]]]
<1>1. poll' = [pc |-> "hand", offset |-> poll.offset + PageSize, page |-> entries,
               more |-> Len(assets) = PageSize]
  BY DEF ListPage
<1>2. poll.offset \in Nat /\ listing \in Seq(Seq(Apis))
  BY DEF TypeOK
<1>3. assets \in Seq(Seq(Apis))
  <2>1. last \in Nat /\ last <= Len(listing) /\ first \in Nat \ {0}
    <3>1. Len(listing) \in Nat /\ PageSize \in Nat
      BY <1>2
    <3> QED BY ONLY <1>2, <3>1
  <2> DEFINE S == Seq(Apis)
  <2>2. listing \in Seq(S)
    BY <1>2
  <2> HIDE DEF first, last, S
  <2>3. SubSeq(listing, first, last) \in Seq(S)
    BY ONLY <2>1, <2>2
  <2> QED BY <2>3 DEF S
<1> HIDE DEF assets
<1>4. ASSUME NEW i \in DOMAIN assets PROVE entries[i] \in Seq(Entry)
  <2>1. assets[i] \in Seq(Apis)
    BY <1>3
  <2>2. ASSUME NEW j \in DOMAIN assets[i]
        PROVE  [api |-> assets[i][j], content |-> live[assets[i][j]].content] \in Entry
    <3>1. assets[i][j] \in Apis
      BY <2>1
    <3> QED BY <3>1, CurrentConfig DEF Entry
  <2>3. entries[i] \in [DOMAIN assets[i] -> Entry]
    BY <2>2
  <2> HIDE DEF entries
  <2> QED BY <2>1, <2>3, MapType
<1>5. entries \in Seq(Seq(Entry))
  <2>1. entries \in [DOMAIN assets -> Seq(Entry)]
    BY <1>4
  <2> HIDE DEF entries
  <2> QED BY <1>3, <2>1, MapType
<1> HIDE DEF entries
<1> QED BY <1>1, <1>2, <1>5 DEF PollStates

(* Actions of one goroutine leave the rest of the pipeline well typed.     *)
LEMMA WorkerStepType ==
    ASSUME TypeOK, NEW w \in Workers, Process(w)
    PROVE  worker' \in [Workers -> WorkerState]
<1>0. worker \in [Workers -> WorkerState] /\ worker[w] \in WorkerState
  BY DEF TypeOK
<1> DEFINE busy == {"detail", "policies", "lookup", "save", "spec"}
<1>1. <<>> \in Seq(Checksum)
  OBVIOUS
<1>2. ASSUME NEW found \in Seq(Checksum), NextApi(w, found), worker[w].pc \in busy
      PROVE  worker' \in [Workers -> WorkerState]
  BY <1>2, NextApiType
<1>3. CASE SkipUnwanted(w)
  BY <1>1, <1>2, <1>3 DEF SkipUnwanted, At
<1>4. CASE GetAPI(w)
  <2>1. worker[w].pc = "detail" /\ Job(w) \in Entry
    BY <1>4, JobType DEF GetAPI, At
  <2>2. live[Job(w).api].proxy \in Proxies
    BY <2>1, CurrentConfig DEF Entry
  <2>3. [worker[w] EXCEPT !.pc = "policies", !.proxy = live[Job(w).api].proxy] \in WorkerState
    BY <1>0, <2>1, <2>2 DEF WorkerState, WorkerType
  <2>4. worker' = [worker EXCEPT ![w] = [worker[w] EXCEPT !.pc = "policies",
                                             !.proxy = live[Job(w).api].proxy]]
    BY <1>4, <1>0 DEF GetAPI
  <2> QED BY <1>0, <2>3, <2>4
<1>5. CASE GetPolicies(w)
  <2> DEFINE ps == live[Job(w).api].policies
             sum == [api |-> Job(w).api, content |-> Job(w).content,
                     proxy |-> worker[w].proxy, config |-> Configuration(ps)]
  <2>1. worker[w].pc = "policies" /\ Job(w) \in Entry
    BY <1>5, JobType DEF GetPolicies, At
  <2>2. CASE Incompatible(ps)
    BY <1>1, <1>2, <1>5, <2>1, <2>2 DEF GetPolicies
  <2>3. CASE ~Incompatible(ps)
    <3>1. sum \in Checksum
      <4>1. ps \in PolicyLists
        BY <2>1, CurrentConfig DEF Entry
      <4>2. worker[w].proxy \in Proxies
        BY <1>0, <2>1 DEF WorkerState
      <4> QED BY <2>1, <4>1, <4>2 DEF Checksum, Entry
    <3>2. sum.api = Job(w).api
      OBVIOUS
    <3> HIDE DEF sum
    <3>3. [worker[w] EXCEPT !.pc = "lookup", !.proxy = None, !.sum = sum] \in WorkerState
      BY <1>0, <2>1, <3>1, <3>2 DEF WorkerState, WorkerType, Job
    <3>4. worker' = [worker EXCEPT ![w] = [worker[w] EXCEPT !.pc = "lookup",
                                               !.proxy = None, !.sum = sum]]
      BY <1>0, <1>5, <2>3 DEF GetPolicies, sum
    <3> QED BY <1>0, <3>3, <3>4
  <2> QED BY <2>2, <2>3
<1>6. CASE PoliciesFail(w)
  BY <1>1, <1>2, <1>6 DEF PoliciesFail, At
<1>7. CASE Lookup(w)
  <2>1. CASE worker[w].sum \in cache
    BY <1>1, <1>2, <1>7, <2>1 DEF Lookup, At
  <2>2. CASE worker[w].sum \notin cache
    <3>1. [worker[w] EXCEPT !.pc = "save"] \in WorkerState
      BY <1>0, <1>7 DEF Lookup, At, WorkerState, WorkerType
    <3>2. worker' = [worker EXCEPT ![w] = [worker[w] EXCEPT !.pc = "save"]]
      BY <1>0, <1>7, <2>2 DEF Lookup
    <3> QED BY <1>0, <3>1, <3>2
  <2> QED BY <2>1, <2>2
<1>8. CASE Save(w)
  <2>1. [worker[w] EXCEPT !.pc = "spec"] \in WorkerState
    BY <1>0, <1>8 DEF Save, At, WorkerState, WorkerType
  <2>2. worker' = [worker EXCEPT ![w] = [worker[w] EXCEPT !.pc = "spec"]]
    BY <1>0, <1>8 DEF Save
  <2> QED BY <1>0, <2>1, <2>2
<1>9. CASE BuildDetail(w)
  <2>1. worker[w].sum \in Checksum
    BY <1>0, <1>9 DEF BuildDetail, At, WorkerState
  <2>2. (IF Job(w).api \in WithSpec THEN <<worker[w].sum>> ELSE <<>>) \in Seq(Checksum)
    BY <2>1
  <2> QED BY <1>2, <1>9, <2>2 DEF BuildDetail, At
<1>10. CASE BuildFails(w)
  BY <1>1, <1>2, <1>10 DEF BuildFails, At
<1>11. CASE Send(w)
  <2>1. worker[w].out \in Seq(Checksum) /\ worker[w].out # <<>>
    BY <1>0, <1>11 DEF Send, At, WorkerState, WorkerType
  <2>2. Tail(worker[w].out) \in Seq(Checksum) /\ <<>> \in Seq(Entry)
    BY <2>1, HeadTailElements
  <2> QED BY <1>0, <1>11, <2>2, ResumeType DEF Send
<1> QED BY <1>3, <1>4, <1>5, <1>6, <1>7, <1>8, <1>9, <1>10, <1>11 DEF Process

LEMMA TypeStep == TypeOK /\ [Next]_vars => TypeOK'
<1> SUFFICES ASSUME TypeOK, [Next]_vars PROVE TypeOK'
  OBVIOUS
<1> USE DEF known
<1> USE PipelineAssumption
<1> DEFINE PollType == [pc : PollStates, offset : Nat,
                        page : Seq(Seq(Entry)), more : BOOLEAN]
<1>0. ASSUME NEW call, Fails(call) PROVE faults' \in 0..MaxFaults
  BY <1>0 DEF Fails, TypeOK
<1>p. ASSUME NEW pc \in PollStates
      PROVE  Stopped(pc) \in PollType
  BY DEF Stopped
<1>s. {"down", "revisions", "list", "sleep", "stopping", "tags", "ignoreTags"} \subseteq PollStates
  BY DEF PollStates
<1>c. Cleaned(configured) \in TagLists
  BY CleanedType DEF TypeOK
<1>d. ASSUME Die PROVE
        /\ poll' \in PollType
        /\ worker' \in [Workers -> WorkerState]
        /\ apiChan' \in Seq(Checksum) /\ Len(apiChan') <= ChanCap
        /\ pub' \in Checksum \cup {None}
        /\ cache' \subseteq Checksum /\ lost' \subseteq Checksum
  BY <1>d, <1>p, <1>s, IdleType DEF Die
<1>1. CASE \E a \in Apis : Edit(a)
  BY <1>1, EditType
<1>r. CASE Relist
  <2>1. edits' \in 0..MaxEdits
    BY <1>r DEF Relist, TypeOK
  <2> QED BY <1>r, <2>1 DEF Relist, TypeOK, process
<1>f. CASE Reconfigure
  <2>1. edits' \in 0..MaxEdits
    BY <1>f DEF Reconfigure, TypeOK
  <2> QED BY <1>f, <2>1 DEF Reconfigure, TypeOK, process
<1>2. CASE GetRevisions
  <2>1. cache' \subseteq Checksum
    <3>1. Elements(central) \subseteq Checksum
      BY DEF TypeOK, Elements
    <3> QED BY <1>2, <3>1 DEF GetRevisions, TypeOK
  <2>2. poll' \in PollType
    BY <1>2, <1>p, <1>s DEF GetRevisions
  <2>3. faults' \in 0..MaxFaults
    BY <1>2, <1>0 DEF GetRevisions, TypeOK
  <2> QED BY <1>2, <2>1, <2>2, <2>3 DEF GetRevisions, TypeOK, world
<1>3. CASE ListPage
  BY <1>3, PageType DEF ListPage, TypeOK, world
<1>4. CASE ListFails
  BY <1>4, <1>0, <1>p, <1>s DEF ListFails, TypeOK, world
<1>5. CASE HandOut
  <2>1. poll.page \in Seq(Seq(Entry)) /\ poll.page # <<>>
    BY <1>5 DEF HandOut, TypeOK
  <2>2. /\ Head(poll.page) \in Seq(Entry) /\ Tail(poll.page) \in Seq(Seq(Entry))
        /\ <<>> \in Seq(Checksum)
    BY <2>1, HeadTailElements
  <2>3. poll' \in PollType
    BY <1>5, <2>2 DEF HandOut, TypeOK
  <2>4. worker' \in [Workers -> WorkerState]
    <3>1. Resume(Head(poll.page), <<>>) \in WorkerState
      BY <2>2, ResumeType
    <3> QED BY <1>5, <3>1 DEF HandOut, TypeOK
  <2> QED BY <1>5, <2>3, <2>4 DEF HandOut, TypeOK, world
<1>6. CASE PageDone
  <2>1. poll' \in PollType
    BY <1>6, <1>p, <1>s DEF PageDone, TypeOK
  <2> QED BY <1>6, <2>1 DEF PageDone, TypeOK, world
<1>7. CASE Tick
  BY <1>7, <1>p, <1>s DEF Tick, TypeOK, world
<1>h. CASE Handler
  <2>1. poll' \in PollType
    BY <1>h, <1>p, <1>s DEF Handler, StopPolling, StopPublishing, SetTags, SetIgnoreTags
  <2>2. filter' \in TagLists
    BY <1>h, <1>c DEF Handler, StopPolling, StopPublishing, SetTags, SetIgnoreTags, TypeOK, TagLists
  <2> QED BY <1>h, <2>1, <2>2 DEF Handler, StopPolling, StopPublishing, SetTags, SetIgnoreTags,
                                  TypeOK, world
<1>8. ASSUME NEW w \in Workers, Process(w) PROVE TypeOK'
  <2>1. worker' \in [Workers -> WorkerState]
    BY <1>8, WorkerStepType
  <2>2. UNCHANGED <<world, filter, central, poll, pub, crashes>>
    BY <1>8 DEF Process, SkipUnwanted, GetAPI, GetPolicies, PoliciesFail, Lookup, Save,
                BuildDetail, BuildFails, Send
  <2>3. faults' \in 0..MaxFaults
    <3>1. CASE UNCHANGED faults
      BY <3>1 DEF TypeOK
    <3>2. CASE PoliciesFail(w) \/ BuildFails(w)
      BY <3>2, <1>0 DEF PoliciesFail, BuildFails
    <3> QED BY <1>8, <3>1, <3>2 DEF Process, SkipUnwanted, GetAPI, GetPolicies, Lookup,
                                    Save, BuildDetail, Send
  <2>4. cache' \subseteq Checksum
    <3>1. CASE UNCHANGED cache
      BY <3>1 DEF TypeOK
    <3>2. CASE Save(w)
      BY <3>2 DEF Save, At, TypeOK, WorkerState
    <3> QED BY <1>8, <3>1, <3>2 DEF Process, SkipUnwanted, GetAPI, GetPolicies, PoliciesFail,
                                    Lookup, BuildDetail, BuildFails, Send
  <2>5. apiChan' \in Seq(Checksum) /\ Len(apiChan') <= ChanCap
    <3>1. CASE UNCHANGED apiChan
      BY <3>1 DEF TypeOK
    <3>2. CASE Send(w)
      <4>1. worker[w].out \in Seq(Checksum) /\ worker[w].out # <<>>
        BY <3>2 DEF Send, At, TypeOK, WorkerState, WorkerType
      <4>2. Head(worker[w].out) \in Checksum /\ apiChan \in Seq(Checksum)
        BY <4>1, HeadTailElements DEF TypeOK
      <4> QED BY <3>2, <4>2 DEF Send
    <3> QED BY <1>8, <3>1, <3>2 DEF Process, SkipUnwanted, GetAPI, GetPolicies, PoliciesFail,
                                    Lookup, Save, BuildDetail, BuildFails
  <2>6. lost' \subseteq Checksum
    <3>1. CASE UNCHANGED lost
      BY <3>1 DEF TypeOK
    <3>2. CASE BuildFails(w)
      BY <3>2 DEF BuildFails, At, TypeOK, WorkerState
    <3> QED BY <1>8, <3>1, <3>2 DEF Process, SkipUnwanted, GetAPI, GetPolicies, PoliciesFail,
                                    Lookup, Save, BuildDetail, Send
  <2> QED BY <2>1, <2>2, <2>3, <2>4, <2>5, <2>6 DEF TypeOK, world
<1>9. ASSUME NEW w \in Workers, GetAPIPanics(w) PROVE TypeOK'
  BY <1>9, <1>d, <1>0 DEF GetAPIPanics, TypeOK, world
<1>10. CASE Receive
  <2>1. apiChan \in Seq(Checksum) /\ apiChan # <<>>
    BY <1>10 DEF Receive, TypeOK
  <2>2. Head(apiChan) \in Checksum /\ Tail(apiChan) \in Seq(Checksum) /\ Len(Tail(apiChan)) <= ChanCap
    BY <2>1 DEF TypeOK
  <2> QED BY <1>10, <2>2 DEF Receive, TypeOK, world
<1>11. CASE Publish
  <2>1. pub \in Checksum /\ central \in Seq(Checksum)
    BY <1>11 DEF Publish, TypeOK
  <2>2. central' \in Seq(Checksum)
    BY <1>11, <2>1, AppendElements DEF Publish
  <2> QED BY <1>11, <2>2 DEF Publish, TypeOK, world
<1>12. CASE PublishFails
  BY <1>12, <1>0 DEF PublishFails, TypeOK, world
<1>13. CASE Crash
  <2>1. crashes' \in 0..MaxCrashes
    BY <1>13 DEF Crash, TypeOK
  <2> QED BY <1>13, <1>d, <2>1 DEF Crash, TypeOK, world
<1>14. CASE Restart
  BY <1>14, <1>p, <1>s, <1>c DEF Restart, TypeOK, world
<1>15. CASE UNCHANGED vars
  BY <1>15 DEF vars, TypeOK
<1> QED BY <1>1, <1>r, <1>f, <1>h, <1>2, <1>3, <1>4, <1>5, <1>6, <1>7, <1>8, <1>9, <1>10, <1>11,
           <1>12, <1>13, <1>14, <1>15 DEF Next, Poller, Publisher

(* Type correctness of every reachable state.                              *)
THEOREM TypeCorrect == Spec => []TypeOK
<1> QED BY TypeInit, TypeStep, PTL DEF Spec
-----------------------------------------------------------------------------
(* A checksum that is in Central or on its way there.                      *)
Reached == Elements(central) \cup InFlight

(* Going on keeps what the goroutine has built.                            *)
LEMMA ResumeOut ==
    ASSUME NEW todo, NEW out
    PROVE  Resume(todo, out).out = out /\ Resume(todo, out).pc # "spec"
BY DEF Resume, Idle

LEMMA NextApiOut ==
    ASSUME TypeOK, NEW w \in Workers,
           worker[w].pc \in {"detail", "policies", "lookup", "save", "spec"},
           NEW found \in Seq(Checksum),
           NextApi(w, found)
    PROVE  /\ \A v \in Workers : v # w => worker'[v] = worker[v]
           /\ Elements(worker'[w].out) = Elements(worker[w].out) \cup Elements(found)
           /\ worker'[w].pc # "spec"
<1>1. worker[w].out \in Seq(Checksum)
  BY JobType
<1>2. worker' = [worker EXCEPT ![w] = Resume(Tail(worker[w].todo), worker[w].out \o found)]
  BY DEF NextApi
<1>3. worker \in [Workers -> WorkerState]
  BY DEF TypeOK
<1>4. worker'[w] = Resume(Tail(worker[w].todo), worker[w].out \o found)
  BY <1>2, <1>3
<1> DEFINE todo == Tail(worker[w].todo)
           out == worker[w].out \o found
<1>5. worker'[w].out = out /\ worker'[w].pc # "spec"
  <2>1. worker'[w] = Resume(todo, out)
    BY <1>4
  <2> HIDE DEF todo, out
  <2>2. Resume(todo, out).out = out /\ Resume(todo, out).pc # "spec"
    BY ResumeOut
  <2> QED BY <2>1, <2>2
<1>6. \A v \in Workers : v # w => worker'[v] = worker[v]
  BY <1>2, <1>3
<1>7. Elements(worker[w].out \o found) = Elements(worker[w].out) \cup Elements(found)
  BY <1>1, ConcatElements
<1> QED BY <1>5, <1>6, <1>7

(* A step of one goroutine that is not building a detail, and that drops   *)
(* none of those it has built, loses nothing that was on its way.          *)
LEMMA StepKeepsReached ==
    ASSUME NEW w \in Workers,
           \A v \in Workers : v # w => worker'[v] = worker[v],
           Elements(worker[w].out) \subseteq Elements(worker'[w].out),
           At(w, "spec") => worker[w].sum \in Reached',
           UNCHANGED <<central, apiChan, pub>>
    PROVE  Reached \subseteq Reached'
<1> SUFFICES ASSUME NEW c \in Reached PROVE c \in Reached'
  OBVIOUS
<1>1. CASE c \in Elements(central) \cup Elements(apiChan) \cup ({pub} \ {None})
  BY <1>1 DEF Reached, InFlight
<1>2. CASE c \in Building
  <2>1. PICK v \in Workers : At(v, "spec") /\ worker[v].sum = c
    BY <1>2 DEF Building
  <2>2. CASE v = w
    BY <2>1, <2>2
  <2>3. CASE v # w
    <3>1. worker'[v].pc = "spec" /\ worker'[v].sum = c
      BY <2>1, <2>3 DEF At
    <3>2. c \in Building'
      BY <3>1 DEF Building, At
    <3> QED BY <3>2 DEF Reached, InFlight
  <2> QED BY <2>2, <2>3
<1>3. CASE c \in Built
  <2>1. PICK v \in Workers : c \in Elements(worker[v].out)
    BY <1>3 DEF Built
  <2>2. c \in Elements(worker'[v].out)
    BY <2>1
  <2>3. c \in Built'
    BY <2>2 DEF Built
  <2> QED BY <2>3 DEF Reached, InFlight
<1> QED BY <1>1, <1>2, <1>3 DEF Reached, InFlight

(* Nothing that is on its way is lost, save to a failing call, by a crash, *)
(* or because it turns out to have no specification.                       *)
LEMMA ReachedGrows ==
    ASSUME TypeOK, NEW w \in Workers, Process(w),
           NEW c \in Reached, c.api \in WithSpec
    PROVE  c \in Reached' \cup lost'
<1>0. worker[w] \in WorkerState /\ worker \in [Workers -> WorkerState]
  BY DEF TypeOK
<1>1. <<>> \in Seq(Checksum)
  OBVIOUS
<1>2. UNCHANGED <<central, pub>>
  BY DEF Process, SkipUnwanted, GetAPI, GetPolicies, PoliciesFail, Lookup, Save,
         BuildDetail, BuildFails, Send
<1>3. ASSUME UNCHANGED apiChan, ~At(w, "spec"),
             \A v \in Workers : v # w => worker'[v] = worker[v],
             Elements(worker[w].out) \subseteq Elements(worker'[w].out)
      PROVE  c \in Reached'
  BY <1>2, <1>3, StepKeepsReached
<1>4. ASSUME UNCHANGED apiChan, NextApi(w, <<>>),
             worker[w].pc \in {"detail", "policies", "lookup"}
      PROVE  c \in Reached'
  <2>1. /\ \A v \in Workers : v # w => worker'[v] = worker[v]
        /\ Elements(worker[w].out) \subseteq Elements(worker'[w].out)
    BY <1>1, <1>4, NextApiOut
  <2> QED BY <1>3, <1>4, <2>1 DEF At
<1>5. CASE SkipUnwanted(w) \/ PoliciesFail(w)
  BY <1>4, <1>5 DEF SkipUnwanted, PoliciesFail, At
<1>6. CASE GetAPI(w)
  BY <1>0, <1>3, <1>6 DEF GetAPI, At
<1>7. CASE GetPolicies(w)
  <2>1. CASE Incompatible(live[Job(w).api].policies)
    BY <1>4, <1>7, <2>1 DEF GetPolicies, At
  <2>2. CASE ~Incompatible(live[Job(w).api].policies)
    <3>1. /\ \A v \in Workers : v # w => worker'[v] = worker[v]
          /\ worker'[w].out = worker[w].out
      BY <1>0, <1>7, <2>2 DEF GetPolicies, WorkerState, WorkerType
    <3> QED BY <1>3, <1>7, <3>1 DEF GetPolicies, At
  <2> QED BY <2>1, <2>2
<1>8. CASE Lookup(w)
  <2>1. CASE worker[w].sum \in cache
    BY <1>4, <1>8, <2>1 DEF Lookup, At
  <2>2. CASE worker[w].sum \notin cache
    <3>1. /\ \A v \in Workers : v # w => worker'[v] = worker[v]
          /\ worker'[w].out = worker[w].out
      BY <1>0, <1>8, <2>2 DEF Lookup, WorkerState, WorkerType
    <3> QED BY <1>3, <1>8, <3>1 DEF Lookup, At
  <2> QED BY <2>1, <2>2
<1>9. CASE Save(w)
  BY <1>0, <1>3, <1>9 DEF Save, At
<1>10. CASE BuildDetail(w)
  <2>1. worker[w].pc = "spec" /\ worker[w].sum \in Checksum
    BY <1>0, <1>10 DEF BuildDetail, At, WorkerState
  <2>2. worker[w].sum.api = Job(w).api
    BY <1>0, <2>1 DEF WorkerState, Job
  <2> DEFINE found == IF Job(w).api \in WithSpec THEN <<worker[w].sum>> ELSE <<>>
  <2>3. found \in Seq(Checksum) /\ NextApi(w, found)
    BY <1>10, <2>1 DEF BuildDetail
  <2>4. /\ \A v \in Workers : v # w => worker'[v] = worker[v]
        /\ Elements(worker'[w].out) = Elements(worker[w].out) \cup Elements(found)
    <3> HIDE DEF found
    <3> QED BY <2>1, <2>3, NextApiOut
  <2>5. CASE Job(w).api \in WithSpec
    <3>1. worker[w].sum \in Elements(found)
      BY <2>5 DEF Elements
    <3>2. worker[w].sum \in Built'
      BY <2>4, <3>1 DEF Built
    <3>3. worker[w].sum \in Reached'
      BY <3>2 DEF Reached, InFlight
    <3>4. UNCHANGED apiChan
      BY <1>10 DEF BuildDetail
    <3> QED BY <1>2, <2>4, <3>3, <3>4, StepKeepsReached
  <2>6. CASE Job(w).api \notin WithSpec
    <3>1. c # worker[w].sum
      BY <2>2, <2>6
    <3>2. UNCHANGED apiChan
      BY <1>10 DEF BuildDetail
    <3>3. CASE c \in Elements(central) \cup Elements(apiChan) \cup ({pub} \ {None})
      BY <1>2, <3>2, <3>3 DEF Reached, InFlight
    <3>4. CASE c \in Building
      <4>1. PICK v \in Workers : At(v, "spec") /\ worker[v].sum = c
        BY <3>4 DEF Building
      <4>2. At(v, "spec")' /\ (worker[v].sum)' = c
        BY <2>4, <3>1, <4>1 DEF At
      <4>3. c \in Building'
        BY <4>2 DEF Building
      <4> QED BY <4>3 DEF Reached, InFlight
    <3>5. CASE c \in Built
      <4>1. PICK v \in Workers : c \in Elements(worker[v].out)
        BY <3>5 DEF Built
      <4>2. c \in Built'
        BY <2>4, <4>1 DEF Built
      <4> QED BY <4>2 DEF Reached, InFlight
    <3> QED BY <3>3, <3>4, <3>5 DEF Reached, InFlight
  <2> QED BY <2>5, <2>6
<1>11. CASE BuildFails(w)
  <2>1. /\ \A v \in Workers : v # w => worker'[v] = worker[v]
        /\ Elements(worker[w].out) \subseteq Elements(worker'[w].out)
    BY <1>1, <1>11, NextApiOut DEF BuildFails, At
  <2>2. UNCHANGED apiChan /\ worker[w].sum \in lost'
    BY <1>11 DEF BuildFails
  <2>3. CASE c \in Elements(central) \cup Elements(apiChan) \cup ({pub} \ {None})
    BY <1>2, <2>2, <2>3 DEF Reached, InFlight
  <2>4. CASE c \in Building
    <3>1. PICK v \in Workers : At(v, "spec") /\ worker[v].sum = c
      BY <2>4 DEF Building
    <3>2. CASE v = w
      BY <2>2, <3>1, <3>2
    <3>3. CASE v # w
      <4>1. At(v, "spec")' /\ (worker[v].sum)' = c
        BY <2>1, <3>1, <3>3 DEF At
      <4>2. c \in Building'
        BY <4>1 DEF Building
      <4> QED BY <4>2 DEF Reached, InFlight
    <3> QED BY <3>2, <3>3
  <2>5. CASE c \in Built
    <3>1. PICK v \in Workers : c \in Elements(worker[v].out)
      BY <2>5 DEF Built
    <3>2. c \in Built'
      BY <2>1, <3>1 DEF Built
    <3> QED BY <3>2 DEF Reached, InFlight
  <2> QED BY <2>3, <2>4, <2>5 DEF Reached, InFlight
<1>12. CASE Send(w)
  <2>1. worker[w].out \in Seq(Checksum) /\ worker[w].out # <<>> /\ worker[w].pc = "send"
    BY <1>0, <1>12 DEF Send, At, WorkerState, WorkerType
  <2>2. /\ Head(worker[w].out) \in Checksum
        /\ Elements(worker[w].out) = {Head(worker[w].out)} \cup Elements(Tail(worker[w].out))
    BY <2>1, HeadTailElements
  <2>3. Elements(apiChan') = Elements(apiChan) \cup {Head(worker[w].out)}
    BY <1>12, <2>2, AppendElements DEF Send, TypeOK
  <2>4. /\ \A v \in Workers : v # w => worker'[v] = worker[v]
        /\ worker'[w].out = Tail(worker[w].out)
    <3>1. worker' = [worker EXCEPT ![w] = Resume(<<>>, Tail(worker[w].out))]
      BY <1>0, <1>12 DEF Send
    <3> QED BY <1>0, <3>1, ResumeOut
  <2>5. CASE c \in Elements(central) \cup Elements(apiChan) \cup ({pub} \ {None})
    BY <1>2, <2>3, <2>5 DEF Reached, InFlight
  <2>6. CASE c \in Building
    <3>1. PICK v \in Workers : At(v, "spec") /\ worker[v].sum = c
      BY <2>6 DEF Building
    <3>2. At(v, "spec")' /\ (worker[v].sum)' = c
      BY <2>1, <2>4, <3>1 DEF At
    <3>3. c \in Building'
      BY <3>2 DEF Building
    <3> QED BY <3>3 DEF Reached, InFlight
  <2>7. CASE c \in Built
    <3>1. PICK v \in Workers : c \in Elements(worker[v].out)
      BY <2>7 DEF Built
    <3>2. c \in Elements(apiChan') \/ c \in Elements(worker'[v].out)
      BY <2>2, <2>3, <2>4, <3>1
    <3>3. c \in Elements(apiChan') \/ c \in Built'
      BY <3>2 DEF Built
    <3> QED BY <3>3 DEF Reached, InFlight
  <2> QED BY <2>5, <2>6, <2>7 DEF Reached, InFlight
<1> QED BY <1>5, <1>6, <1>7, <1>8, <1>9, <1>10, <1>11, <1>12 DEF Process

LEMMA AccountedStep ==
    TypeOK /\ CacheAccounted /\ [Next]_vars => CacheAccounted'
<1> SUFFICES ASSUME TypeOK, CacheAccounted, [Next]_vars PROVE CacheAccounted'
  OBVIOUS
<1> USE DEF known
(* It is enough that the cache gains only what is reached, or is empty.    *)
<1>1. ASSUME \A c \in Reached : c.api \in WithSpec => c \in Reached' \cup lost',
             \A c \in cache' : c \in cache \/ c \in Reached',
             lost \subseteq lost'
      PROVE  CacheAccounted'
  BY <1>1 DEF CacheAccounted, Reached
<1>2. ASSUME UNCHANGED <<cache, lost, central, worker, apiChan, pub>> PROVE CacheAccounted'
  BY <1>2 DEF CacheAccounted, InFlight, Building, Built, At
<1>3. ASSUME Die PROVE CacheAccounted'
  BY <1>3 DEF Die, CacheAccounted
<1>4. CASE Relist \/ Reconfigure \/ \E a \in Apis : Edit(a)
  BY <1>2, <1>4 DEF Edit, Relist, Reconfigure, process
<1>5. CASE GetRevisions
  <2>1. Reached' = Reached /\ lost' = lost
    BY <1>5 DEF GetRevisions, Reached, InFlight, Building, Built, At
  <2>2. \A c \in cache' : c \in cache \/ c \in Reached
    BY <1>5 DEF GetRevisions, Reached
  <2> QED BY <1>1, <2>1, <2>2
<1>6. CASE ListPage \/ ListFails \/ PageDone \/ Tick \/ Handler \/ Restart
  BY <1>2, <1>6 DEF ListPage, ListFails, PageDone, Tick, Handler, StopPolling, StopPublishing,
                    SetTags, SetIgnoreTags, Restart
<1>7. CASE HandOut
  <2>1. PICK w \in Workers : /\ worker[w].pc = "idle"
                             /\ worker' = [worker EXCEPT ![w] = Resume(Head(poll.page), <<>>)]
    BY <1>7 DEF HandOut
  <2>2. worker \in [Workers -> WorkerState]
    BY DEF TypeOK
  <2>3. CASE Elements(worker[w].out) = {}
    <3>1. \A v \in Workers : v # w => worker'[v] = worker[v]
      BY <2>1, <2>2
    <3>2. Reached \subseteq Reached'
      BY <1>7, <2>1, <2>3, <3>1, StepKeepsReached DEF HandOut, At
    <3> QED BY <1>1, <1>7, <3>2 DEF HandOut
  <2>4. Elements(worker[w].out) = {}
    <3>1. worker[w].out = <<>>
      BY <2>1, <2>2 DEF WorkerState
    <3> QED BY <3>1 DEF Elements
  <2> QED BY <2>3, <2>4
<1>8. ASSUME NEW w \in Workers, Process(w) PROVE CacheAccounted'
  <2>1. \A c \in Reached : c.api \in WithSpec => c \in Reached' \cup lost'
    BY <1>8, ReachedGrows
  <2>3. lost \subseteq lost'
    BY <1>8 DEF Process, SkipUnwanted, GetAPI, GetPolicies, PoliciesFail, Lookup, Save,
                BuildDetail, BuildFails, Send
  <2>2. ASSUME NEW c \in cache' PROVE c \in cache \/ c \in Reached'
    <3>1. CASE UNCHANGED cache
      BY <2>2, <3>1
    <3>2. CASE Save(w)
      <4>1. worker[w] \in WorkerState /\ worker \in [Workers -> WorkerState]
        BY DEF TypeOK
      <4>2. worker'[w].pc = "spec" /\ worker'[w].sum = worker[w].sum
        BY <3>2, <4>1 DEF Save, WorkerState, WorkerType
      <4>3. worker[w].sum \in Building'
        BY <4>2 DEF Building, At
      <4>4. worker[w].sum \in Reached'
        BY <4>3 DEF Reached, InFlight
      <4> QED BY <2>2, <3>2, <4>4 DEF Save
    <3> QED BY <1>8, <3>1, <3>2 DEF Process, SkipUnwanted, GetAPI, GetPolicies, PoliciesFail,
                                    Lookup, BuildDetail, BuildFails, Send
  <2> QED BY <1>1, <2>1, <2>2, <2>3
<1>9. CASE \E w \in Workers : GetAPIPanics(w)
  BY <1>3, <1>9 DEF GetAPIPanics
<1>10. CASE Receive
  <2>1. apiChan \in Seq(Checksum) /\ apiChan # <<>>
    BY <1>10 DEF Receive, TypeOK
  <2>2. Elements(apiChan) = {pub'} \cup Elements(apiChan')
    BY <1>10, <2>1, HeadTailElements DEF Receive
  <2>3. pub' # None
    BY <1>10, <2>1, NoneAssumption, HeadTailElements DEF Receive
  <2>4. Building' = Building /\ Built' = Built
    BY <1>10 DEF Receive, Building, Built, At
  <2> QED BY <1>1, <1>10, <2>2, <2>3, <2>4 DEF Receive, Reached, InFlight
<1>11. CASE Publish
  <2>1. pub \in Checksum /\ central \in Seq(Checksum)
    BY <1>11 DEF Publish, TypeOK
  <2>2. Elements(central') = Elements(central) \cup {pub}
    BY <1>11, <2>1, AppendElements DEF Publish
  <2>3. Building' = Building /\ Built' = Built
    BY <1>11 DEF Publish, Building, Built, At
  <2> QED BY <1>1, <1>11, <2>2, <2>3 DEF Publish, Reached, InFlight
<1>12. CASE PublishFails
  <2>1. Building' = Building /\ Built' = Built
    BY <1>12 DEF PublishFails, Building, Built, At
  <2> QED BY <1>1, <1>12, <2>1 DEF PublishFails, Reached, InFlight
<1>13. CASE Crash
  BY <1>3, <1>13 DEF Crash
<1>14. CASE UNCHANGED vars
  BY <1>2, <1>14 DEF vars
<1> QED BY <1>4, <1>5, <1>6, <1>7, <1>8, <1>9, <1>10, <1>11, <1>12, <1>13, <1>14
        DEF Next, Poller, Publisher

(* A cached checksum is published, on its way or was dropped by one of the *)
(* two calls that may fail after the cache write, whatever the passes,     *)
(* edits, lists and crashes do.                                            *)
THEOREM CacheIsAccountedFor == Spec => []CacheAccounted
<1>1. Init => CacheAccounted
  BY DEF Init, CacheAccounted
<1>2. TypeOK /\ CacheAccounted /\ [Next]_vars => CacheAccounted'
  BY AccountedStep
<1> QED BY <1>1, <1>2, TypeCorrect, PTL DEF Spec
-----------------------------------------------------------------------------
(* What is on its way is in the cache at any time, also while a process    *)
(* that has changed its configuration loads the revisions again; together  *)
(* with RevisionsKnown this is inductive.                                  *)
Known ==
    /\ InFlight \subseteq cache
    /\ RevisionsKnown

LEMMA DieEmpties == ASSUME Die PROVE InFlight' = {}
<1>1. \A w \in Workers : worker'[w].pc = "idle" /\ worker'[w].out = <<>>
  BY DEF Die, Idle
<1>2. Building' = {}
  BY <1>1 DEF Building, At
<1>3. Built' = {}
  <2>1. Elements(<<>>) = {}
    BY DEF Elements
  <2> QED BY <1>1, <2>1 DEF Built
<1>4. Elements(apiChan') = {} /\ {pub'} \ {None} = {}
  BY DEF Die, Elements
<1> QED BY <1>2, <1>3, <1>4 DEF InFlight

(* A step of one goroutine puts at most its own checksum on the way.       *)
LEMMA StepAdds ==
    ASSUME NEW w \in Workers, NEW S,
           \A v \in Workers : v # w => worker'[v] = worker[v],
           Elements(worker'[w].out) \subseteq Elements(worker[w].out) \cup S,
           worker'[w].pc = "spec" => worker'[w].sum \in S
    PROVE  Building' \cup Built' \subseteq Building \cup Built \cup S
<1>1. ASSUME NEW c \in Building' PROVE c \in Building \cup S
  BY <1>1 DEF Building, At
<1>2. ASSUME NEW c \in Built' PROVE c \in Built \cup S
  <2>1. PICK v \in Workers : c \in Elements(worker'[v].out)
    BY <1>2 DEF Built
  <2>2. CASE v = w
    BY <2>1, <2>2 DEF Built
  <2>3. CASE v # w
    <3>1. c \in Elements(worker[v].out)
      BY <2>1, <2>3
    <3> QED BY <3>1 DEF Built
  <2> QED BY <2>2, <2>3
<1> QED BY <1>1, <1>2

LEMMA ProcessAdds ==
    ASSUME TypeOK, NEW w \in Workers, Process(w),
           InFlight \subseteq cache
    PROVE  /\ InFlight' \subseteq cache'
           /\ UNCHANGED <<central, poll>> /\ cache \subseteq cache'
<1> USE DEF known
<1>0. worker[w] \in WorkerState /\ worker \in [Workers -> WorkerState]
  BY DEF TypeOK
<1>1. <<>> \in Seq(Checksum) /\ Elements(<<>>) = {}
  BY DEF Elements
<1>2. UNCHANGED <<central, poll, pub>> /\ cache \subseteq cache'
  BY DEF Process, SkipUnwanted, GetAPI, GetPolicies, PoliciesFail, Lookup, Save,
         BuildDetail, BuildFails, Send
(* Enough: what the goroutine newly holds is in the cache.                 *)
<1>3. ASSUME Elements(apiChan') \subseteq cache',
             \A v \in Workers : v # w => worker'[v] = worker[v],
             Elements(worker'[w].out) \subseteq cache',
             worker'[w].pc = "spec" => worker'[w].sum \in cache'
      PROVE  InFlight' \subseteq cache'
  <2>1. Building' \cup Built' \subseteq Building \cup Built \cup cache'
    BY <1>3, StepAdds
  <2> QED BY <1>2, <1>3, <2>1 DEF InFlight
<1>4. Elements(worker[w].out) \subseteq cache' /\ Elements(apiChan) \subseteq cache'
  BY <1>2 DEF InFlight, Built
<1>5. ASSUME UNCHANGED apiChan, NEW found \in Seq(Checksum), NextApi(w, found),
             Elements(found) \subseteq cache,
             worker[w].pc \in {"detail", "policies", "lookup", "spec"}
      PROVE  InFlight' \subseteq cache'
  <2>1. /\ \A v \in Workers : v # w => worker'[v] = worker[v]
        /\ Elements(worker'[w].out) = Elements(worker[w].out) \cup Elements(found)
        /\ worker'[w].pc # "spec"
    BY <1>5, NextApiOut
  <2> QED BY <1>2, <1>3, <1>4, <1>5, <2>1
<1>6. ASSUME UNCHANGED apiChan, NEW r, worker' = [worker EXCEPT ![w] = r],
             r.out = worker[w].out, r.pc = "spec" => r.sum \in cache'
      PROVE  InFlight' \subseteq cache'
  <2>1. worker'[w] = r /\ \A v \in Workers : v # w => worker'[v] = worker[v]
    BY <1>0, <1>6
  <2> QED BY <1>3, <1>4, <1>6, <2>1
<1>7. CASE SkipUnwanted(w) \/ PoliciesFail(w) \/ BuildFails(w)
  BY <1>1, <1>5, <1>7 DEF SkipUnwanted, PoliciesFail, BuildFails, At
<1>8. CASE GetAPI(w)
  <2> DEFINE r == [worker[w] EXCEPT !.pc = "policies", !.proxy = live[Job(w).api].proxy]
  <2>1. worker' = [worker EXCEPT ![w] = r]
    BY <1>0, <1>8 DEF GetAPI
  <2>2. r.out = worker[w].out /\ r.pc # "spec"
    BY <1>0 DEF WorkerState, WorkerType
  <2> QED BY <1>6, <1>8, <2>1, <2>2 DEF GetAPI
<1>9. CASE GetPolicies(w)
  <2>1. CASE Incompatible(live[Job(w).api].policies)
    BY <1>1, <1>5, <1>9, <2>1 DEF GetPolicies, At
  <2>2. CASE ~Incompatible(live[Job(w).api].policies)
    <3> DEFINE sum == [api |-> Job(w).api, content |-> Job(w).content,
                       proxy |-> worker[w].proxy,
                       config |-> Configuration(live[Job(w).api].policies)]
               r == [worker[w] EXCEPT !.pc = "lookup", !.proxy = None, !.sum = sum]
    <3>1. worker' = [worker EXCEPT ![w] = r]
      BY <1>0, <1>9, <2>2 DEF GetPolicies
    <3>2. r.out = worker[w].out /\ r.pc # "spec"
      BY <1>0 DEF WorkerState, WorkerType
    <3> QED BY <1>6, <1>9, <3>1, <3>2 DEF GetPolicies
  <2> QED BY <2>1, <2>2
<1>10. CASE Lookup(w)
  <2>1. CASE worker[w].sum \in cache
    BY <1>1, <1>5, <1>10, <2>1 DEF Lookup, At
  <2>2. CASE worker[w].sum \notin cache
    <3> DEFINE r == [worker[w] EXCEPT !.pc = "save"]
    <3>1. worker' = [worker EXCEPT ![w] = r]
      BY <1>0, <1>10, <2>2 DEF Lookup
    <3>2. r.out = worker[w].out /\ r.pc # "spec"
      BY <1>0 DEF WorkerState, WorkerType
    <3> QED BY <1>6, <1>10, <3>1, <3>2 DEF Lookup
  <2> QED BY <2>1, <2>2
<1>11. CASE Save(w)
  <2> DEFINE r == [worker[w] EXCEPT !.pc = "spec"]
  <2>1. worker' = [worker EXCEPT ![w] = r]
    BY <1>0, <1>11 DEF Save
  <2>2. r.out = worker[w].out /\ r.sum = worker[w].sum
    BY <1>0 DEF WorkerState, WorkerType
  <2>3. worker[w].sum \in cache'
    BY <1>11 DEF Save
  <2> QED BY <1>6, <1>11, <2>1, <2>2, <2>3 DEF Save
<1>12. CASE BuildDetail(w)
  <2> DEFINE found == IF Job(w).api \in WithSpec THEN <<worker[w].sum>> ELSE <<>>
  <2>1. worker[w].pc = "spec" /\ worker[w].sum \in Checksum
    BY <1>0, <1>12 DEF BuildDetail, At, WorkerState
  <2>2. worker[w].sum \in cache
    BY <2>1 DEF InFlight, Building, At
  <2>3. found \in Seq(Checksum) /\ Elements(found) \subseteq cache
    BY <2>1, <2>2 DEF Elements
  <2> HIDE DEF found
  <2>4. NextApi(w, found) /\ UNCHANGED apiChan
    BY <1>12 DEF BuildDetail, found
  <2> QED BY <1>2, <1>5, <2>1, <2>3, <2>4
<1>13. CASE Send(w)
  <2>1. worker[w].out \in Seq(Checksum) /\ worker[w].out # <<>>
    BY <1>0, <1>13 DEF Send, At, WorkerState, WorkerType
  <2>2. /\ Head(worker[w].out) \in Checksum
        /\ Elements(worker[w].out) = {Head(worker[w].out)} \cup Elements(Tail(worker[w].out))
    BY <2>1, HeadTailElements
  <2>3. Elements(apiChan') = Elements(apiChan) \cup {Head(worker[w].out)}
    BY <1>13, <2>2, AppendElements DEF Send, TypeOK
  <2>4. /\ \A v \in Workers : v # w => worker'[v] = worker[v]
        /\ worker'[w].out = Tail(worker[w].out) /\ worker'[w].pc # "spec"
    <3>1. worker' = [worker EXCEPT ![w] = Resume(<<>>, Tail(worker[w].out))]
      BY <1>0, <1>13 DEF Send
    <3> QED BY <1>0, <3>1, ResumeOut
  <2> QED BY <1>2, <1>3, <1>4, <2>2, <2>3, <2>4
<1> QED BY <1>2, <1>7, <1>8, <1>9, <1>10, <1>11, <1>12, <1>13 DEF Process

LEMMA KnownStep ==
    ASSUME "revisions" \notin Faults
    PROVE  TypeOK /\ Known /\ [Next]_vars => Known'
<1> SUFFICES ASSUME TypeOK, Known, [Next]_vars PROVE Known'
  OBVIOUS
<1> USE DEF known
<1> DEFINE Unloaded == {"down", "revisions"}
<1>1. ASSUME UNCHANGED <<central, cache, worker, apiChan, pub>>,
             poll.pc \in Unloaded => poll'.pc \in Unloaded
      PROVE  Known'
  BY <1>1 DEF Known, RevisionsKnown, InFlight, Building, Built, At
(* Enough: what Central gets was on its way.                               *)
<1>2. ASSUME InFlight' \subseteq cache', Elements(central') \subseteq Elements(central) \cup InFlight,
             cache \subseteq cache', poll'.pc = poll.pc
      PROVE  Known'
  BY <1>2 DEF Known, RevisionsKnown
<1>3. ASSUME Die PROVE Known'
  <2>1. poll'.pc = "down"
    BY <1>3 DEF Die, Stopped
  <2> QED BY <1>3, <2>1, DieEmpties DEF Known, RevisionsKnown
<1>4. CASE Relist \/ Reconfigure \/ \E a \in Apis : Edit(a)
  BY <1>1, <1>4 DEF Edit, Relist, Reconfigure, process
<1>5. CASE GetRevisions
  <2>1. cache' = cache \cup Elements(central)
    BY <1>5 DEF GetRevisions, Fails
  <2>2. InFlight' = InFlight /\ central' = central
    BY <1>5 DEF GetRevisions, InFlight, Building, Built, At
  <2> QED BY <2>1, <2>2 DEF Known, RevisionsKnown
<1>6. CASE ListPage \/ ListFails \/ PageDone \/ Tick \/ Handler
  <2>1. poll.pc \notin Unloaded
    BY <1>6 DEF ListPage, ListFails, PageDone, Tick, Handler, StopPolling, StopPublishing,
                SetTags, SetIgnoreTags
  <2> QED BY <1>1, <1>6, <2>1 DEF ListPage, ListFails, PageDone, Tick, Handler, StopPolling,
                                  StopPublishing, SetTags, SetIgnoreTags
<1>7. CASE HandOut
  <2>1. PICK w \in Workers : /\ worker[w].pc = "idle"
                             /\ worker' = [worker EXCEPT ![w] = Resume(Head(poll.page), <<>>)]
    BY <1>7 DEF HandOut
  <2>2. worker \in [Workers -> WorkerState]
    BY DEF TypeOK
  <2>3. poll'.pc = poll.pc
    BY <1>7 DEF HandOut, TypeOK
  <2>4. worker'[w].out = <<>> /\ worker'[w].pc # "spec" /\ \A v \in Workers : v # w => worker'[v] = worker[v]
    BY <2>1, <2>2, ResumeOut
  <2>5. Elements(worker'[w].out) \subseteq {}
    BY <2>4 DEF Elements
  <2>6. Building' \cup Built' \subseteq Building \cup Built \cup {}
    BY <2>4, <2>5, StepAdds
  <2>7. InFlight' \subseteq cache'
    BY <1>7, <2>6 DEF HandOut, InFlight, Known
  <2> QED BY <1>2, <1>7, <2>3, <2>7 DEF HandOut
<1>8. ASSUME NEW w \in Workers, Process(w) PROVE Known'
  <2>1. InFlight' \subseteq cache' /\ UNCHANGED <<central, poll>> /\ cache \subseteq cache'
    BY <1>8, ProcessAdds DEF Known
  <2> QED BY <1>2, <2>1
<1>9. CASE \E w \in Workers : GetAPIPanics(w)
  BY <1>3, <1>9 DEF GetAPIPanics
<1>10. CASE Receive
  <2>1. apiChan \in Seq(Checksum) /\ apiChan # <<>>
    BY <1>10 DEF Receive, TypeOK
  <2>2. Elements(apiChan) = {pub'} \cup Elements(apiChan')
    BY <1>10, <2>1, HeadTailElements DEF Receive
  <2>3. Building' = Building /\ Built' = Built
    BY <1>10 DEF Receive, Building, Built, At
  <2>4. InFlight' \subseteq cache'
    BY <1>10, <2>2, <2>3 DEF Receive, InFlight, Known
  <2> QED BY <1>2, <1>10, <2>4 DEF Receive
<1>11. CASE Publish
  <2>1. pub \in Checksum /\ central \in Seq(Checksum)
    BY <1>11 DEF Publish, TypeOK
  <2>2. Elements(central') = Elements(central) \cup {pub}
    BY <1>11, <2>1, AppendElements DEF Publish
  <2>3. Building' = Building /\ Built' = Built
    BY <1>11 DEF Publish, Building, Built, At
  <2>4. pub \in InFlight
    BY <2>1, NoneAssumption DEF InFlight
  <2>5. InFlight' \subseteq cache'
    BY <1>11, <2>3 DEF Publish, InFlight, Known
  <2> QED BY <1>2, <1>11, <2>2, <2>4, <2>5 DEF Publish
<1>12. CASE PublishFails
  <2>1. Building' = Building /\ Built' = Built
    BY <1>12 DEF PublishFails, Building, Built, At
  <2>2. InFlight' \subseteq cache'
    BY <1>12, <2>1 DEF PublishFails, InFlight, Known
  <2> QED BY <1>2, <1>12, <2>2 DEF PublishFails
<1>13. CASE Crash
  BY <1>3, <1>13 DEF Crash
<1>14. CASE Restart
  <2>1. poll'.pc = "revisions" /\ poll.pc = "down"
    BY <1>14 DEF Restart, Stopped
  <2> QED BY <1>1, <1>14, <2>1 DEF Restart
<1>15. CASE UNCHANGED vars
  BY <1>1, <1>15 DEF vars
<1> QED BY <1>4, <1>5, <1>6, <1>7, <1>8, <1>9, <1>10, <1>11, <1>12, <1>13, <1>14, <1>15
        DEF Next, Poller, Publisher

(* If loading the revisions does not fail, the agent recognises all it has *)
(* published, however passes overlap, whenever it is restarted and         *)
(* whenever its configuration changes.                                     *)
THEOREM RevisionsAreKnown ==
    ASSUME "revisions" \notin Faults
    PROVE  Spec => []RevisionsKnown
<1>1. Init => Known
  <2> SUFFICES ASSUME Init PROVE Known
    OBVIOUS
  <2>1. poll.pc = "revisions" /\ pub = None /\ Elements(apiChan) = {} /\ Elements(<<>>) = {}
    BY DEF Init, Stopped, Elements
  <2>2. \A w \in Workers : worker[w].pc = "idle" /\ worker[w].out = <<>>
    BY DEF Init, Idle
  <2> QED BY <2>1, <2>2 DEF Known, RevisionsKnown, InFlight, Building, Built, At
<1>2. TypeOK /\ Known /\ [Next]_vars => Known'
  BY KnownStep
<1>3. Known => RevisionsKnown
  BY DEF Known
<1> QED BY <1>1, <1>2, <1>3, TypeCorrect, PTL DEF Spec
-----------------------------------------------------------------------------
(* Passes go on.  Edits, faults and crashes are bounded, so that in the    *)
(* end all is quiet; then changes of the configuration come to an end,     *)
(* then new checksums, then details to send, and the passes that still     *)
(* begin find nothing in their way.  Each of these is a finite set that    *)
(* loses elements until it stays what it is.                               *)

(* Nothing changes in Mulesoft or in the configuration, and nothing fails. *)
Quiet == UNCHANGED <<world, faults, crashes>>

LEMMA NoFailure == ASSUME TypeOK, Quiet, NEW call PROVE ~Fails(call)
BY PipelineAssumption DEF TypeOK, Quiet, Fails

(* A finite set from which elements are only ever taken stays what it is   *)
(* from some point on.  True of any set: the induction over its size is    *)
(* what no prover here can do, and each instance used is a hypothesis.     *)
Settles(S) == [](IsFiniteSet(S)) /\ <>[][S' \subseteq S]_S => \E T : <>[](S = T)

Budget == 1 .. ((MaxEdits - edits) + (MaxFaults - faults) + (MaxCrashes - crashes))

(* The checksums a goroutine may still write into the cache, and the       *)
(* places of the details it may still send.                                *)
Unsaved == {x \in Workers \X Checksum :
               x[2] \notin cache \/ (At(x[1], "save") /\ worker[x[1]].sum = x[2])}
Pending(w) == Len(worker[w].out) + IF At(w, "spec") THEN 1 ELSE 0
Unsent == UNION {{w} \X (1 .. Pending(w)) : w \in Workers}
Waiting == 1 .. Len(apiChan)

(* What a goroutine has to look at, a pass to list and to hand out, and    *)
(* the goroutines that work.                                               *)
TodoLeft(w) == 1 .. Len(worker[w].todo)
Unlisted == poll.offset + 1 .. Len(listing)
PageLeft == 1 .. Len(poll.page)
Working == {w \in Workers : ~At(w, "idle")}

TodoSettles(w) == Settles(TodoLeft(w))
AllSettle == /\ Settles(Budget)
             /\ Settles(Unsaved) /\ Settles(Unsent) /\ Settles(Waiting)
             /\ \A w \in Workers : TodoSettles(w)
             /\ Settles(Unlisted) /\ Settles(PageLeft) /\ Settles(Working)

FewWorkers == IsFiniteSet(Workers) /\ Workers # {} /\ IsFiniteSet(Checksum)

(* A goroutine that goes on is not in the middle of an API.                *)
LEMMA ResumePlaces ==
    ASSUME NEW todo, NEW out
    PROVE  /\ Resume(todo, out).out = out /\ Resume(todo, out).todo = todo
           /\ Resume(todo, out).pc \in {"idle", "detail", "send"}
BY DEF Resume, Idle

(* A goroutine reads on, saves a checksum, is done with an API or sends.   *)
ReadsOn(w) ==
    /\ worker'[w].todo = worker[w].todo /\ worker'[w].out = worker[w].out
    /\ \/ At(w, "detail") /\ worker'[w].pc = "policies"
       \/ At(w, "policies") /\ worker'[w].pc = "lookup"
       \/ /\ At(w, "lookup") /\ worker'[w].pc = "save"
          /\ worker'[w].sum = worker[w].sum /\ worker[w].sum \notin cache
    /\ UNCHANGED <<cache, apiChan>>
Saves(w) ==
    /\ Save(w)
    /\ worker'[w].todo = worker[w].todo /\ worker'[w].out = worker[w].out
    /\ worker'[w].pc = "spec"
    /\ UNCHANGED apiChan
IsDone(w) ==
    /\ worker[w].pc \in {"detail", "policies", "lookup", "spec"}
    /\ worker'[w].pc \in {"idle", "detail", "send"}
    /\ Len(worker[w].todo) > 0 /\ Len(worker'[w].todo) = Len(worker[w].todo) - 1
    /\ Pending(w)' <= Pending(w)
    /\ UNCHANGED <<cache, apiChan>>
Sends(w) ==
    /\ Send(w)
    /\ worker'[w].todo = <<>>
    /\ Pending(w)' = Pending(w) - 1
    /\ worker'[w].pc \in {"idle", "detail", "send"}
    /\ UNCHANGED cache

LEMMA WorkerMoves ==
    ASSUME TypeOK, NEW w \in Workers, Process(w)
    PROVE  /\ \A v \in Workers : v # w => worker'[v] = worker[v]
           /\ UNCHANGED <<poll, pub, filter>>
           /\ ReadsOn(w) \/ Saves(w) \/ IsDone(w) \/ Sends(w)
<1>0. /\ worker \in [Workers -> WorkerState] /\ worker[w] \in WorkerState
      /\ worker[w].todo \in Seq(Entry) /\ worker[w].out \in Seq(Checksum)
  BY DEF TypeOK, WorkerState, WorkerType
<1> DEFINE Moves == /\ \A v \in Workers : v # w => worker'[v] = worker[v]
                    /\ ReadsOn(w) \/ Saves(w) \/ IsDone(w) \/ Sends(w)
<1>1. UNCHANGED <<poll, pub, filter>>
  BY DEF Process, SkipUnwanted, GetAPI, GetPolicies, PoliciesFail, Lookup, Save,
         BuildDetail, BuildFails, Send
<1>2. ASSUME NEW found \in Seq(Checksum), NextApi(w, found),
             worker[w].pc \in {"detail", "policies", "lookup", "spec"},
             found # <<>> => At(w, "spec") /\ Len(found) = 1,
             UNCHANGED <<cache, apiChan>>
      PROVE  Moves
  <2> DEFINE todo == Tail(worker[w].todo)
             out == worker[w].out \o found
  <2>1. worker'[w] = Resume(todo, out) /\ \A v \in Workers : v # w => worker'[v] = worker[v]
    BY <1>0, <1>2 DEF NextApi
  <2>2. Len(worker[w].todo) > 0 /\ Len(todo) = Len(worker[w].todo) - 1
    BY <1>0, <1>2 DEF WorkerState
  <2>3. Len(out) = Len(worker[w].out) + Len(found) /\ Len(<<>>) = 0
    BY <1>0, <1>2
  <2> HIDE DEF todo, out
  <2>4. /\ worker'[w].todo = todo /\ worker'[w].out = out
        /\ worker'[w].pc \in {"idle", "detail", "send"}
    BY <2>1, ResumePlaces
  <2>5. Pending(w)' <= Pending(w)
    <3>1. Len(worker[w].out) \in Nat /\ Len(found) \in Nat
      BY <1>0, <1>2
    <3>2. Pending(w)' = Len(out)
      BY <2>4 DEF Pending, At
    <3>3. Len(found) = 0 \/ (At(w, "spec") /\ Len(found) = 1)
      BY <1>2, <2>3
    <3>4. CASE At(w, "spec")
      <4>1. Pending(w) = Len(worker[w].out) + 1
        BY <3>4 DEF Pending
      <4>2. Len(found) \in 0 .. 1
        BY <3>3
      <4>3. ASSUME NEW m \in Nat, NEW n \in 0 .. 1 PROVE m + n <= m + 1
        OBVIOUS
      <4>4. Len(out) <= Len(worker[w].out) + 1
        BY <2>3, <3>1, <4>2, <4>3
      <4> QED BY <3>2, <4>1, <4>4
    <3>5. CASE ~At(w, "spec")
      <4>1. Pending(w) = Len(worker[w].out)
        BY <3>1, <3>5 DEF Pending
      <4> QED BY <2>3, <3>1, <3>2, <3>3, <3>5, <4>1
    <3> QED BY <3>4, <3>5
  <2> QED BY <1>2, <2>1, <2>2, <2>4, <2>5 DEF IsDone
<1>3. <<>> \in Seq(Checksum)
  OBVIOUS
<1>4. CASE SkipUnwanted(w) \/ PoliciesFail(w) \/ BuildFails(w)
  <2>1. NextApi(w, <<>>) /\ worker[w].pc \in {"detail", "policies", "lookup", "spec"}
        /\ UNCHANGED <<cache, apiChan>>
    BY <1>4 DEF SkipUnwanted, PoliciesFail, BuildFails, At, known
  <2> QED BY <1>1, <1>2, <1>3, <2>1
<1>5. CASE GetAPI(w)
  <2> DEFINE r == [worker[w] EXCEPT !.pc = "policies", !.proxy = live[Job(w).api].proxy]
  <2>1. worker' = [worker EXCEPT ![w] = r] /\ UNCHANGED <<cache, apiChan>> /\ At(w, "detail")
    BY <1>0, <1>5 DEF GetAPI, known
  <2>2. r.todo = worker[w].todo /\ r.out = worker[w].out /\ r.pc = "policies"
    BY <1>0 DEF WorkerState, WorkerType
  <2> HIDE DEF r
  <2>3. worker'[w] = r /\ \A v \in Workers : v # w => worker'[v] = worker[v]
    BY <1>0, <2>1
  <2> QED BY <1>1, <2>1, <2>2, <2>3 DEF ReadsOn
<1>6. CASE GetPolicies(w)
  <2>1. At(w, "policies") /\ UNCHANGED <<cache, apiChan>>
    BY <1>6 DEF GetPolicies, known
  <2>2. CASE Incompatible(live[Job(w).api].policies)
    <3>1. NextApi(w, <<>>)
      BY <1>6, <2>2 DEF GetPolicies
    <3> QED BY <1>1, <1>2, <1>3, <2>1, <3>1 DEF At
  <2>3. CASE ~Incompatible(live[Job(w).api].policies)
    <3> DEFINE sum == [api |-> Job(w).api, content |-> Job(w).content,
                       proxy |-> worker[w].proxy,
                       config |-> Configuration(live[Job(w).api].policies)]
               r == [worker[w] EXCEPT !.pc = "lookup", !.proxy = None, !.sum = sum]
    <3>1. worker' = [worker EXCEPT ![w] = r]
      BY <1>0, <1>6, <2>3 DEF GetPolicies
    <3>2. r.todo = worker[w].todo /\ r.out = worker[w].out /\ r.pc = "lookup"
      BY <1>0 DEF WorkerState, WorkerType
    <3> HIDE DEF r
    <3>3. worker'[w] = r /\ \A v \in Workers : v # w => worker'[v] = worker[v]
      BY <1>0, <3>1
    <3> QED BY <1>1, <2>1, <3>2, <3>3 DEF ReadsOn
  <2> QED BY <2>2, <2>3
<1>7. CASE Lookup(w) /\ worker[w].sum \in cache
  <2>1. NextApi(w, <<>>) /\ worker[w].pc = "lookup" /\ UNCHANGED <<cache, apiChan>>
    BY <1>7 DEF Lookup, At, known
  <2> QED BY <1>1, <1>2, <1>3, <2>1
<1>8. CASE Save(w) \/ (Lookup(w) /\ worker[w].sum \notin cache)
  <2> DEFINE r == [worker[w] EXCEPT !.pc = IF At(w, "save") THEN "spec" ELSE "save"]
  <2>1. worker' = [worker EXCEPT ![w] = r] /\ UNCHANGED apiChan
    BY <1>0, <1>8 DEF Lookup, Save, At
  <2>2. /\ r.todo = worker[w].todo /\ r.out = worker[w].out /\ r.sum = worker[w].sum
        /\ r.pc = IF At(w, "save") THEN "spec" ELSE "save"
    BY <1>0 DEF WorkerState, WorkerType
  <2> HIDE DEF r
  <2>3. worker'[w] = r /\ \A v \in Workers : v # w => worker'[v] = worker[v]
    BY <1>0, <2>1
  <2>4. CASE Save(w)
    BY <1>1, <2>1, <2>2, <2>3, <2>4 DEF Saves, Save
  <2>5. CASE Lookup(w) /\ worker[w].sum \notin cache
    BY <1>1, <2>1, <2>2, <2>3, <2>5 DEF ReadsOn, Lookup, At, known
  <2> QED BY <1>8, <2>4, <2>5
<1>9. CASE BuildDetail(w)
  <2> DEFINE found == IF Job(w).api \in WithSpec THEN <<worker[w].sum>> ELSE <<>>
  <2>1. worker[w].pc = "spec" /\ worker[w].sum \in Checksum
    BY <1>0, <1>9 DEF BuildDetail, At, WorkerState
  <2>2. found \in Seq(Checksum) /\ (found # <<>> => Len(found) = 1)
    BY <2>1
  <2> HIDE DEF found
  <2>3. NextApi(w, found) /\ UNCHANGED <<cache, apiChan>>
    BY <1>9 DEF BuildDetail, found, known
  <2> QED BY <1>1, <1>2, <2>1, <2>2, <2>3 DEF At
<1>10. CASE Send(w)
  <2> DEFINE none == <<>>
             rest == Tail(worker[w].out)
  <2>1. /\ worker'[w] = Resume(none, rest) /\ UNCHANGED cache
        /\ \A v \in Workers : v # w => worker'[v] = worker[v]
    BY <1>0, <1>10 DEF Send, known
  <2>2. Len(rest) = Len(worker[w].out) - 1 /\ worker[w].pc = "send"
    BY <1>0, <1>10 DEF Send, At, WorkerState
  <2>3. none = <<>>
    OBVIOUS
  <2> HIDE DEF none, rest
  <2>4. /\ worker'[w].todo = none /\ worker'[w].out = rest
        /\ worker'[w].pc \in {"idle", "detail", "send"}
    BY <2>1, ResumePlaces
  <2>5. Pending(w)' = Pending(w) - 1
    BY <1>0, <2>2, <2>4 DEF Pending, At
  <2> QED BY <1>1, <1>10, <2>1, <2>3, <2>4, <2>5 DEF Sends
<1> QED BY <1>4, <1>5, <1>6, <1>7, <1>8, <1>9, <1>10 DEF Process

(* What is possible once all is quiet.                                     *)
LEMMA QuietNext ==
    ASSUME TypeOK, [Next]_vars, Quiet
    PROVE  \/ \E w \in Workers : Process(w)
           \/ GetRevisions \/ ListPage \/ HandOut \/ PageDone \/ Tick
           \/ Handler
           \/ Receive \/ Publish
           \/ Restart
           \/ UNCHANGED vars
<1>1. \A call : ~Fails(call)
  BY NoFailure
<1>2. /\ crashes' = crashes /\ crashes \in Nat
      /\ edits' = edits /\ edits \in Nat
  BY PipelineAssumption DEF Quiet, world, TypeOK
<1>3. ~ListFails /\ ~PublishFails /\ \A w \in Workers : ~GetAPIPanics(w)
  BY <1>1 DEF ListFails, PublishFails, GetAPIPanics
<1>4. ~Relist /\ ~Reconfigure /\ \A a \in Apis : ~Edit(a)
  BY <1>2 DEF Relist, Reconfigure, Edit
<1>5. ~Crash
  BY <1>2 DEF Crash
<1> QED BY <1>3, <1>4, <1>5 DEF Next, Poller, Publisher

(* The budget is never added to, and once it is not used all is quiet.     *)
BudgetIs(T) == Budget = T

LEMMA BudgetStep ==
    ASSUME TypeOK, [Next]_vars
    PROVE  Budget' \subseteq Budget /\ (Budget' = Budget => [Quiet]_vars)
<1> USE PipelineAssumption
<1>0. /\ edits \in 0 .. MaxEdits /\ faults \in 0 .. MaxFaults /\ crashes \in 0 .. MaxCrashes
      /\ {MaxEdits, MaxFaults, MaxCrashes} \subseteq Nat
  BY DEF TypeOK
<1> DEFINE More(n, max) == n' = n \/ (n' = n + 1 /\ n < max)
           Effect == /\ More(edits, MaxEdits) /\ More(faults, MaxFaults)
                     /\ More(crashes, MaxCrashes)
                     /\ edits' = edits => UNCHANGED world
<1>9. Effect
  <2>1. CASE Relist \/ Reconfigure \/ \E a \in Apis : Edit(a)
    <3>1. edits' = edits + 1 /\ edits < MaxEdits /\ UNCHANGED <<faults, crashes>>
      BY <2>1 DEF Relist, Reconfigure, Edit
    <3>2. edits' # edits
      BY <1>0, <3>1
    <3> QED BY <3>1, <3>2
  <2>2. ASSUME UNCHANGED <<world, crashes>>, UNCHANGED faults \/ \E call : Fails(call)
        PROVE  Effect
    BY <2>2 DEF Fails, world
  <2>3. CASE Poller
    BY <2>2, <2>3 DEF Poller, GetRevisions, ListPage, ListFails, HandOut, PageDone, Tick
  <2>4. CASE Handler \/ Restart
    BY <2>2, <2>4 DEF Handler, StopPolling, StopPublishing, SetTags, SetIgnoreTags, Restart
  <2>5. CASE \E w \in Workers : Process(w) \/ GetAPIPanics(w)
    BY <2>2, <2>5 DEF Process, SkipUnwanted, GetAPI, GetPolicies, PoliciesFail, Lookup, Save,
                      BuildDetail, BuildFails, Send, GetAPIPanics
  <2>6. CASE Publisher
    BY <2>2, <2>6 DEF Publisher, Receive, Publish, PublishFails
  <2>7. CASE Crash
    BY <2>7 DEF Crash, world
  <2>8. CASE UNCHANGED vars
    BY <2>8 DEF vars, world
  <2> HIDE DEF Effect
  <2> QED BY <2>1, <2>3, <2>4, <2>5, <2>6, <2>7, <2>8 DEF Next
<1>10. ASSUME NEW max \in Nat, NEW m \in 0 .. max, NEW n, n = m \/ (n = m + 1 /\ m < max)
      PROVE  max - m \in Nat /\ max - n \in Nat /\ max - n <= max - m
             /\ (max - n = max - m => n = m)
  BY <1>10
<1> DEFINE e == MaxEdits - edits
           f == MaxFaults - faults
           c == MaxCrashes - crashes
           eNext == MaxEdits - edits'
           fNext == MaxFaults - faults'
           cNext == MaxCrashes - crashes'
           left == e + f + c
           leftNext == eNext + fNext + cNext
<1>11. Budget = 1 .. left /\ Budget' = 1 .. leftNext
  BY DEF Budget
<1>12. /\ {e, f, c, eNext, fNext, cNext} \subseteq Nat
       /\ eNext <= e /\ fNext <= f /\ cNext <= c
       /\ eNext = e => edits' = edits
       /\ fNext = f => faults' = faults
       /\ cNext = c => crashes' = crashes
  BY <1>0, <1>9, <1>10
<1> HIDE DEF e, f, c, eNext, fNext, cNext
<1>13. /\ left \in Nat /\ leftNext \in Nat /\ leftNext <= left
       /\ leftNext = left => UNCHANGED <<edits, faults, crashes>>
  <2>1. /\ left \in Nat /\ leftNext \in Nat /\ leftNext <= left
        /\ leftNext = left => eNext = e /\ fNext = f /\ cNext = c
    BY ONLY <1>12
  <2> QED BY <1>12, <2>1
<1> HIDE DEF left, leftNext
<1>14. Budget' \subseteq Budget /\ (Budget' = Budget => leftNext = left)
  <2>1. left \in 1 .. left \/ left = 0
    BY <1>13
  <2> QED BY <1>11, <1>13, <2>1
<1> QED BY <1>9, <1>13, <1>14 DEF Quiet
-----------------------------------------------------------------------------
(* Changes of the configuration come to an end.                            *)
Down == poll.pc = "down"
Loading == poll.pc = "revisions"
Polling == poll.pc \in {"list", "hand", "sleep"}
Stopping == poll.pc = "stopping"
ToSetTags == poll.pc = "tags"
ToSetIgnored == poll.pc = "ignoreTags"
HalfInForce == filter.discovery = Cleaned(configured).discovery
PubFree == pub = None

LEMMA ChangeStep ==
    ASSUME TypeOK, [Next]_vars, [Quiet]_vars
    PROVE  /\ Down => Down' \/ Loading'
           /\ Loading => Loading' \/ Polling'
           /\ Polling => Polling' \/ (~InForce /\ Stopping')
           /\ Stopping => Stopping' \/ ToSetTags'
           /\ ToSetTags => ToSetTags' \/ (ToSetIgnored' /\ HalfInForce')
           /\ ToSetIgnored => ToSetIgnored' \/ (Loading' /\ (HalfInForce => InForce'))
           /\ HalfInForce => HalfInForce'
           /\ InForce => InForce'
<1> USE DEF Down, Loading, Polling, Stopping, ToSetTags, ToSetIgnored, Stopped
<1> DEFINE Goal == /\ Down => Down' \/ Loading'
                   /\ Loading => Loading' \/ Polling'
                   /\ Polling => Polling' \/ (~InForce /\ Stopping')
                   /\ Stopping => Stopping' \/ ToSetTags'
                   /\ ToSetTags => ToSetTags' \/ (ToSetIgnored' /\ HalfInForce')
                   /\ ToSetIgnored => ToSetIgnored' \/ (Loading' /\ (HalfInForce => InForce'))
                   /\ HalfInForce => HalfInForce'
                   /\ InForce => InForce'
<1>0. /\ filter \in TagLists /\ Cleaned(configured) \in TagLists
      /\ poll \in [pc : PollStates, offset : Nat, page : Seq(Seq(Entry)), more : BOOLEAN]
      /\ configured' = configured
  BY CleanedType, PipelineAssumption DEF TypeOK, Quiet, world, vars
<1>1. ASSUME UNCHANGED filter, poll'.pc = poll.pc PROVE Goal
  BY <1>0, <1>1 DEF HalfInForce, InForce
<1>2. ASSUME UNCHANGED filter, Polling, Polling' PROVE Goal
  BY <1>0, <1>2 DEF HalfInForce, InForce
<1>3. ASSUME \E w \in Workers : Process(w) PROVE Goal
  BY <1>1, <1>3, WorkerMoves
<1>4. ASSUME Receive \/ Publish \/ UNCHANGED vars PROVE Goal
  BY <1>1, <1>4 DEF Receive, Publish, vars
<1>5. ASSUME HandOut PROVE Goal
  <2>1. poll'.pc = poll.pc
    BY <1>0, <1>5 DEF HandOut
  <2> QED BY <1>1, <1>5, <2>1 DEF HandOut
<1>6. ASSUME ListPage \/ Tick PROVE Goal
  BY <1>2, <1>6 DEF ListPage, Tick
<1>7. ASSUME PageDone PROVE Goal
  <2>1. poll'.pc \in {"list", "sleep"}
    BY <1>0, <1>7 DEF PageDone
  <2> QED BY <1>2, <1>7, <2>1 DEF PageDone
<1>8. ASSUME GetRevisions PROVE Goal
  BY <1>0, <1>8 DEF GetRevisions, HalfInForce, InForce
<1>9. ASSUME StopPolling \/ StopPublishing PROVE Goal
  BY <1>0, <1>9 DEF StopPolling, StopPublishing, HalfInForce, InForce
<1>10. ASSUME SetTags PROVE Goal
  <2>1. filter' \in TagLists /\ filter'.discovery = Cleaned(configured).discovery
        /\ filter'.ignore = filter.ignore
    BY <1>0, <1>10 DEF SetTags, TagLists
  <2>2. InForce => filter' = filter
    BY <1>0, <2>1 DEF InForce, TagLists
  <2> QED BY <1>0, <1>10, <2>1, <2>2 DEF SetTags, HalfInForce, InForce
<1>11. ASSUME SetIgnoreTags PROVE Goal
  <2>1. filter' \in TagLists /\ filter'.ignore = Cleaned(configured).ignore
        /\ filter'.discovery = filter.discovery
    BY <1>0, <1>11 DEF SetIgnoreTags, TagLists
  <2>2. HalfInForce => filter' = Cleaned(configured)
    BY <1>0, <2>1 DEF HalfInForce, TagLists
  <2>3. InForce => HalfInForce
    BY DEF InForce, HalfInForce
  <2> QED BY <1>0, <1>11, <2>1, <2>2, <2>3 DEF SetIgnoreTags, HalfInForce, InForce
<1>12. ASSUME Restart PROVE Goal
  BY <1>0, <1>12 DEF Restart, HalfInForce, InForce
<1> HIDE DEF Goal
<1>13. ASSUME Quiet PROVE Goal
  BY <1>3, <1>4, <1>5, <1>6, <1>7, <1>8, <1>9, <1>10, <1>11, <1>12, <1>13, QuietNext
     DEF Handler
<1>14. Goal
  BY <1>4, <1>13 DEF vars
<1> QED BY <1>14 DEF Goal

(* The fair behaviours.  That they are fair, never stuck and that sets     *)
(* settle holds from any state on if it holds from the first.              *)
Run == /\ []TypeOK /\ [][Next]_vars
       /\ []NeverStuck /\ []Fairness /\ []AllSettle

FallsQuiet == <>[][Quiet]_vars
AllQuiet == Run /\ [][Quiet]_vars

LEMMA RunFallsQuiet == Run => FallsQuiet
<1>1. TypeOK /\ [Next]_vars => Budget' \subseteq Budget
  BY BudgetStep
<1>2. TypeOK => IsFiniteSet(Budget)
  <2> SUFFICES ASSUME TypeOK PROVE IsFiniteSet(Budget)
    OBVIOUS
  <2> DEFINE left == (MaxEdits - edits) + (MaxFaults - faults) + (MaxCrashes - crashes)
  <2>1. left \in Int
    BY PipelineAssumption DEF TypeOK
  <2> HIDE DEF left
  <2>2. IsFiniteSet(1 .. left)
    BY <2>1, FS_Interval
  <2> QED BY <2>2 DEF Budget, left
<1>3. Run => [](IsFiniteSet(Budget)) /\ <>[][Budget' \subseteq Budget]_Budget
  BY <1>1, <1>2, PTL DEF Run
<1>4. AllSettle => Settles(Budget)
  BY DEF AllSettle
<1>5. Run => Settles(Budget)
  BY <1>4, PTL DEF Run
<1>6. Run => \E T : <>[](Budget = T)
  BY <1>3, <1>5 DEF Settles
<1>7. ASSUME NEW T PROVE Run /\ <>[](Budget = T) => FallsQuiet
  <2>1. TypeOK /\ [Next]_vars /\ Budget = T /\ (Budget = T)' => [Quiet]_vars
    BY BudgetStep
  <2> QED BY <2>1, PTL DEF Run, FallsQuiet
<1> QED BY <1>6, <1>7

LEMMA PublisherComesFree == Run => []<>PubFree
<1>1. NeverStuck => (~PubFree => ENABLED <<Publisher>>_vars)
  BY DEF NeverStuck, CanPublish, PubFree
<1>2. <<Publisher>>_vars /\ ~PubFree => PubFree'
  BY DEF Publisher, Receive, Publish, PublishFails, PubFree
<1> QED BY <1>1, <1>2, PTL DEF Run, Fairness

(* Each change comes to its end and leaves at least the discovery tags in  *)
(* force, the second one both lists, and then there is nothing to change.  *)
InPasses == AllQuiet /\ []Polling

LEMMA ChangesEnd == AllQuiet => <>InPasses
<1>1. TypeOK => Down \/ Loading \/ Polling \/ Stopping \/ ToSetTags \/ ToSetIgnored
  BY DEF TypeOK, PollStates, Down, Loading, Polling, Stopping, ToSetTags, ToSetIgnored
<1>2. /\ Down => ~Loading /\ ~Polling /\ ~Stopping /\ ~ToSetTags /\ ~ToSetIgnored
      /\ Loading => ~Polling /\ ~Stopping /\ ~ToSetTags /\ ~ToSetIgnored
      /\ Polling => ~Stopping /\ ~ToSetTags /\ ~ToSetIgnored
      /\ Stopping => ~ToSetTags /\ ~ToSetIgnored
      /\ ToSetTags => ~ToSetIgnored
  BY DEF Down, Loading, Polling, Stopping, ToSetTags, ToSetIgnored
<1>3. TypeOK /\ [Next]_vars /\ [Quiet]_vars
      => /\ Down => Down' \/ Loading'
         /\ Loading => Loading' \/ Polling'
         /\ Polling => Polling' \/ (~InForce /\ Stopping')
         /\ Stopping => Stopping' \/ ToSetTags'
         /\ ToSetTags => ToSetTags' \/ (ToSetIgnored' /\ HalfInForce')
         /\ ToSetIgnored => ToSetIgnored' \/ (Loading' /\ (HalfInForce => InForce'))
         /\ HalfInForce => HalfInForce'
         /\ InForce => InForce'
  BY ChangeStep
<1>4. NeverStuck => /\ Down => ENABLED <<Restart>>_vars
                    /\ Loading => ENABLED <<Poller>>_vars
                    /\ Stopping /\ PubFree => ENABLED <<Handler>>_vars
                    /\ ToSetTags \/ ToSetIgnored => ENABLED <<Handler>>_vars
  BY DEF NeverStuck, CanPoll, CanChange, Down, Loading, Stopping, ToSetTags, ToSetIgnored, PubFree
<1>5. <<Restart>>_vars => ~Down'
  BY DEF Restart, Stopped, Down
<1>6. TypeOK /\ <<Poller>>_vars => ~Loading'
  <2>1. GetRevisions \/ ListPage \/ ListFails \/ Tick => ~Loading'
    BY DEF GetRevisions, ListPage, ListFails, Tick, Stopped, Loading
  <2>2. TypeOK /\ HandOut => ~Loading'
    BY DEF HandOut, TypeOK, Loading
  <2>3. PageDone => ~Loading'
    BY DEF PageDone, Stopped, Loading
  <2> QED BY <2>1, <2>2, <2>3 DEF Poller
<1>7. <<Handler>>_vars => /\ Stopping => ~Stopping'
                          /\ ToSetTags => ~ToSetTags'
                          /\ ToSetIgnored => ~ToSetIgnored'
  BY DEF Handler, StopPolling, StopPublishing, SetTags, SetIgnoreTags, Stopped,
         Stopping, ToSetTags, ToSetIgnored
<1>8. AllQuiet => []<>PubFree
  BY PublisherComesFree DEF AllQuiet
<1>9. AllQuiet => <>[]~Down
  BY <1>1, <1>2, <1>3, <1>4, <1>5, PTL DEF AllQuiet, Run, Fairness
<1>10. AllQuiet => []<>(~Loading)
  BY <1>4, <1>6, PTL DEF AllQuiet, Run, Fairness
<1>11. AllQuiet => []<>(~Stopping) /\ []<>(~ToSetTags) /\ []<>(~ToSetIgnored)
  BY <1>4, <1>7, <1>8, PTL DEF AllQuiet, Run, Fairness
<1> QED BY <1>1, <1>2, <1>3, <1>9, <1>10, <1>11, PTL DEF AllQuiet, Run, InPasses
-----------------------------------------------------------------------------
(* In the passes that are left no checksum is new any more, then nothing   *)
(* is sent, then nothing is queued or published.                           *)
NoSave == \A w \in Workers : ~Save(w)
NoSend == \A w \in Workers : ~Send(w)
NoReceive == ~Receive
EmptyQueue == apiChan = <<>>

LEMMA PassNext ==
    ASSUME TypeOK, [Next]_vars, [Quiet]_vars, Polling, Polling'
    PROVE  \/ \E w \in Workers : Process(w)
           \/ ListPage \/ HandOut \/ PageDone \/ Tick
           \/ Receive \/ Publish
           \/ UNCHANGED vars
<1>1. ~GetRevisions /\ ~Restart
  BY DEF GetRevisions, Restart, Polling
<1>2. ~Handler
  BY DEF Handler, StopPolling, StopPublishing, SetTags, SetIgnoreTags, Stopped, Polling
<1>3. CASE Quiet
  BY <1>1, <1>2, <1>3, QuietNext
<1> QED BY <1>3

LEMMA SaveStep ==
    ASSUME TypeOK, [Next]_vars, [Quiet]_vars, Polling, Polling'
    PROVE  Unsaved' \subseteq Unsaved /\ (Unsaved' = Unsaved => NoSave)
<1> DEFINE Goal == Unsaved' \subseteq Unsaved /\ (Unsaved' = Unsaved => NoSave)
<1>0. \A v \in Workers : Save(v) => worker[v].pc = "save" /\ worker'[v].pc = "spec"
  BY DEF Save, At, TypeOK, WorkerState, WorkerType
(* Enough: what a goroutine may save now it could save before.             *)
<1>1. ASSUME cache \subseteq cache',
             \A v \in Workers : At(v, "save")' =>
                \/ At(v, "save") /\ worker'[v].sum = worker[v].sum
                \/ worker'[v].sum \notin cache,
             NoSave
      PROVE  Goal
  BY <1>1 DEF Unsaved, At
<1>2. ASSUME NEW w \in Workers, Process(w) PROVE Goal
  <2>1. /\ \A v \in Workers : v # w => worker'[v] = worker[v]
        /\ ReadsOn(w) \/ Saves(w) \/ IsDone(w) \/ Sends(w)
    BY <1>2, WorkerMoves
  <2>2. CASE ~Saves(w)
    <3>1. cache \subseteq cache' /\ ~Save(w)
      BY <2>1, <2>2 DEF ReadsOn, IsDone, Sends, Save, Send, At
    <3>2. \A v \in Workers : At(v, "save")' =>
                \/ At(v, "save") /\ worker'[v].sum = worker[v].sum
                \/ worker'[v].sum \notin cache
      BY <2>1, <2>2 DEF ReadsOn, IsDone, Sends, At
    <3>3. \A v \in Workers : Save(v) => v = w
      BY <1>0, <2>1
    <3> QED BY <1>1, <3>1, <3>2, <3>3 DEF NoSave
  <2>3. CASE Saves(w)
    <3> DEFINE c == worker[w].sum
    <3>1. /\ cache' = cache \cup {c} /\ At(w, "save") /\ worker'[w].pc = "spec"
          /\ c \in Checksum
      BY <2>3 DEF Saves, Save, At, TypeOK, WorkerState
    <3>2. <<w, c>> \in Unsaved /\ <<w, c>> \notin Unsaved'
      BY <3>1 DEF Unsaved, At
    <3>3. Unsaved' \subseteq Unsaved
      <4> SUFFICES ASSUME NEW x \in Unsaved' PROVE x \in Unsaved
        OBVIOUS
      <4>1. x \in Workers \X Checksum
            /\ (x[2] \notin cache' \/ (At(x[1], "save")' /\ worker'[x[1]].sum = x[2]))
        BY DEF Unsaved
      <4> HIDE DEF c
      <4>2. CASE x[1] = w
        BY <3>1, <4>1, <4>2 DEF Unsaved, At
      <4>3. CASE x[1] # w
        BY <2>1, <3>1, <4>1, <4>3 DEF Unsaved, At
      <4> QED BY <4>2, <4>3
    <3> QED BY <3>2, <3>3
  <2> QED BY <2>2, <2>3
<1>4. ASSUME UNCHANGED <<cache, worker>> PROVE Goal
  BY <1>0, <1>1, <1>4 DEF NoSave, At
<1>5. ASSUME HandOut PROVE Goal
  <2>1. PICK w \in Workers : /\ worker[w].pc = "idle"
                             /\ worker' = [worker EXCEPT ![w] = Resume(Head(poll.page), <<>>)]
    BY <1>5 DEF HandOut
  <2>2. worker'[w].pc \in {"idle", "detail", "send"} /\ \A v \in Workers : v # w => worker'[v] = worker[v]
    BY <2>1, ResumePlaces DEF TypeOK
  <2>3. UNCHANGED cache
    BY <1>5 DEF HandOut, known
  <2>4. \A v \in Workers : At(v, "save")' =>
                \/ At(v, "save") /\ worker'[v].sum = worker[v].sum
                \/ worker'[v].sum \notin cache
    BY <2>2 DEF At
  <2>5. NoSave
    BY <1>0, <2>1, <2>2 DEF NoSave
  <2> QED BY <1>1, <2>3, <2>4, <2>5
<1>6. ASSUME ListPage \/ PageDone \/ Tick \/ Receive \/ Publish \/ UNCHANGED vars PROVE Goal
  BY <1>4, <1>6 DEF ListPage, PageDone, Tick, Receive, Publish, vars, known
<1> HIDE DEF Goal
<1>7. Goal
  BY <1>2, <1>5, <1>6, PassNext
<1> QED BY <1>7 DEF Goal

LEMMA PendingType == TypeOK => \A w \in Workers : Pending(w) \in Nat
<1> SUFFICES ASSUME TypeOK, NEW w \in Workers PROVE Pending(w) \in Nat
  OBVIOUS
<1>1. Len(worker[w].out) \in Nat
  BY DEF TypeOK, WorkerState, WorkerType
<1>2. CASE At(w, "spec")
  BY <1>1, <1>2 DEF Pending
<1>3. CASE ~At(w, "spec")
  BY <1>1, <1>3 DEF Pending
<1> QED BY <1>2, <1>3

LEMMA SendStep ==
    ASSUME TypeOK, [Next]_vars, [Quiet]_vars, Polling, Polling', NoSave
    PROVE  Unsent' \subseteq Unsent /\ (Unsent' = Unsent => NoSend)
<1> DEFINE Goal == Unsent' \subseteq Unsent /\ (Unsent' = Unsent => NoSend)
<1>0. /\ worker \in [Workers -> WorkerState]
      /\ \A v \in Workers : worker[v].out \in Seq(Checksum)
      /\ \A v \in Workers : worker[v].pc = "idle" => worker[v].out = <<>>
  BY DEF TypeOK, WorkerState, WorkerType
<1>1. \A v \in Workers : Pending(v) \in Nat /\ Pending(v)' \in Nat
  <2>1. TypeOK'
    BY TypeStep
  <2>2. TypeOK' => (\A w \in Workers : Pending(w) \in Nat)'
    BY PendingType, PTL
  <2> QED BY <2>1, <2>2, PendingType
(* Enough: no goroutine has more to send than before.                      *)
<1>2. ASSUME \A v \in Workers : Pending(v)' = Pending(v) \/ Pending(v)' <= Pending(v)
      PROVE  Unsent' \subseteq Unsent
  <2> SUFFICES ASSUME NEW x \in Unsent' PROVE x \in Unsent
    OBVIOUS
  <2>1. PICK v \in Workers : x \in {v} \X (1 .. Pending(v)')
    BY DEF Unsent
  <2>2. x \in {v} \X (1 .. Pending(v))
    <3>1. \A m, n \in Nat : m = n \/ m <= n => 1 .. m \subseteq 1 .. n
      OBVIOUS
    <3>2. 1 .. Pending(v)' \subseteq 1 .. Pending(v)
      BY <1>1, <1>2, <3>1
    <3> QED BY <2>1, <3>2
  <2> QED BY <2>2 DEF Unsent
<1>3. \A v \in Workers : Send(v) => apiChan' # apiChan
  <2> SUFFICES ASSUME NEW v \in Workers, Send(v) PROVE apiChan' # apiChan
    OBVIOUS
  <2>1. apiChan \in Seq(Checksum) /\ Head(worker[v].out) \in Checksum
    <3>1. worker[v].out # <<>>
      BY DEF Send, At, TypeOK, WorkerState
    <3> QED BY <1>0, <3>1, HeadTailElements DEF TypeOK
  <2>2. Len(apiChan') = Len(apiChan) + 1
    BY <2>1 DEF Send
  <2> QED BY <2>1, <2>2
<1>4. ASSUME NEW w \in Workers, Process(w) PROVE Goal
  <2>1. /\ \A v \in Workers : v # w => worker'[v] = worker[v]
        /\ ReadsOn(w) \/ IsDone(w) \/ Sends(w)
    BY <1>4, WorkerMoves DEF NoSave, Saves
  <2>2. \A v \in Workers : v # w => Pending(v)' = Pending(v)
    BY <2>1 DEF Pending, At
  <2>3. CASE ReadsOn(w) \/ IsDone(w)
    <3>1. Pending(w)' = Pending(w) \/ Pending(w)' <= Pending(w)
      <4>1. CASE ReadsOn(w)
        BY <4>1 DEF ReadsOn, Pending, At
      <4>2. CASE IsDone(w)
        BY <4>2 DEF IsDone
      <4> QED BY <2>3, <4>1, <4>2
    <3>2. NoSend
      BY <1>3, <2>3 DEF ReadsOn, IsDone, NoSend
    <3> QED BY <1>2, <2>2, <3>1, <3>2
  <2>4. CASE Sends(w)
    <3>1. Pending(w)' = Pending(w) - 1 /\ Pending(w) > 0
      <4>1. worker[w].out # <<>>
        BY <2>4 DEF Sends, Send, At, TypeOK, WorkerState
      <4>2. Len(worker[w].out) > 0
        BY <1>0, <4>1
      <4>3. Pending(w) = Len(worker[w].out)
        BY <1>0, <2>4 DEF Sends, Send, Pending, At
      <4> QED BY <2>4, <4>2, <4>3 DEF Sends
    <3> DEFINE x == <<w, Pending(w)>>
    <3>2. x \in Unsent
      BY <1>1, <3>1 DEF Unsent
    <3>3. x \notin Unsent'
      <4>1. ASSUME NEW v \in Workers, x \in {v} \X (1 .. Pending(v)') PROVE FALSE
        BY <1>1, <3>1, <4>1
      <4> QED BY <4>1 DEF Unsent
    <3>4. Pending(w)' <= Pending(w)
      BY <1>1, <3>1
    <3>5. Unsent' \subseteq Unsent
      BY <1>2, <2>2, <3>4
    <3> QED BY <3>2, <3>3, <3>5
  <2> QED BY <2>1, <2>3, <2>4
<1>5. ASSUME UNCHANGED <<worker, apiChan>> PROVE Goal
  BY <1>2, <1>3, <1>5 DEF NoSend, Pending, At
<1>6. ASSUME HandOut PROVE Goal
  <2>1. PICK w \in Workers : /\ worker[w].pc = "idle"
                             /\ worker' = [worker EXCEPT ![w] = Resume(Head(poll.page), <<>>)]
    BY <1>6 DEF HandOut
  <2> DEFINE todo == Head(poll.page)
             none == <<>>
  <2>2. worker'[w] = Resume(todo, none) /\ \A v \in Workers : v # w => worker'[v] = worker[v]
    BY <1>0, <2>1
  <2>3. none = <<>>
    OBVIOUS
  <2> HIDE DEF todo, none
  <2>4. worker'[w].out = none /\ worker'[w].pc \in {"idle", "detail", "send"}
    BY <2>2, ResumePlaces
  <2>5. \A v \in Workers : Pending(v)' = Pending(v)
    BY <1>0, <2>1, <2>2, <2>3, <2>4 DEF Pending, At
  <2>6. NoSend
    BY <1>3, <1>6 DEF NoSend, HandOut
  <2> QED BY <1>2, <2>5, <2>6
<1>7. ASSUME Receive PROVE Goal
  <2>1. UNCHANGED worker /\ \A v \in Workers : Send(v) => UNCHANGED pub
    BY <1>7 DEF Receive, Send
  <2>2. pub' # pub
    <3>1. Head(apiChan) \in Checksum
      BY <1>7, HeadTailElements DEF Receive, TypeOK
    <3> QED BY <1>7, <3>1, NoneAssumption DEF Receive
  <2> QED BY <1>2, <2>1, <2>2 DEF NoSend, Pending, At
<1>8. ASSUME ListPage \/ PageDone \/ Tick \/ Publish \/ UNCHANGED vars PROVE Goal
  BY <1>5, <1>8 DEF ListPage, PageDone, Tick, Publish, vars
<1> HIDE DEF Goal
<1>9. Goal
  BY <1>4, <1>6, <1>7, <1>8, PassNext
<1> QED BY <1>9 DEF Goal

LEMMA ReceiveStep ==
    ASSUME TypeOK, [Next]_vars, [Quiet]_vars, Polling, Polling', NoSend
    PROVE  Waiting' \subseteq Waiting /\ (Waiting' = Waiting => NoReceive)
<1> DEFINE Goal == Waiting' \subseteq Waiting /\ (Waiting' = Waiting => NoReceive)
<1>0. apiChan \in Seq(Checksum) /\ Len(apiChan) \in Nat
  BY DEF TypeOK
<1>1. Receive => Len(apiChan) > 0 /\ Len(apiChan') = Len(apiChan) - 1
  BY <1>0 DEF Receive
<1>2. ASSUME UNCHANGED apiChan PROVE Goal
  BY <1>0, <1>1, <1>2 DEF Waiting, NoReceive
<1>3. ASSUME Receive PROVE Goal
  <2> DEFINE n == Len(apiChan)
             m == Len(apiChan')
  <2>1. n \in Nat /\ n > 0 /\ m = n - 1
    BY <1>0, <1>1, <1>3
  <2>2. Waiting = 1 .. n /\ Waiting' = 1 .. m
    BY DEF Waiting
  <2> HIDE DEF n, m
  <2>3. Waiting' \subseteq Waiting /\ n \in Waiting /\ n \notin Waiting'
    BY <2>1, <2>2
  <2> QED BY <2>3
<1>4. ASSUME NEW w \in Workers, Process(w) PROVE Goal
  <2>1. ReadsOn(w) \/ Saves(w) \/ IsDone(w)
    BY <1>4, WorkerMoves DEF NoSend, Sends
  <2> QED BY <1>2, <2>1 DEF ReadsOn, Saves, IsDone
<1>5. ASSUME ListPage \/ HandOut \/ PageDone \/ Tick \/ Publish \/ UNCHANGED vars PROVE Goal
  BY <1>2, <1>5 DEF ListPage, HandOut, PageDone, Tick, Publish, vars
<1> HIDE DEF Goal
<1>6. Goal
  BY <1>3, <1>4, <1>5, PassNext
<1> QED BY <1>6 DEF Goal

LEMMA FiniteImage ==
    ASSUME NEW S, IsFiniteSet(S), NEW f
    PROVE  IsFiniteSet({f[x] : x \in S})
<1> DEFINE T == {f[x] : x \in S}
           g == [x \in S |-> f[x]]
<1>1. g \in Surjection(S, T)
  BY DEF Surjection
<1> HIDE DEF g, T
<1>2. IsFiniteSet(T)
  BY <1>1, FS_Surjection
<1> QED BY <1>2 DEF T

LEMMA UnsavedFinite == ASSUME FewWorkers PROVE IsFiniteSet(Unsaved)
<1>1. IsFiniteSet(Workers \X Checksum)
  BY FS_Product DEF FewWorkers
<1>2. Unsaved \subseteq Workers \X Checksum
  BY DEF Unsaved
<1> QED BY <1>1, <1>2, FS_Subset

LEMMA UnsentFinite == ASSUME FewWorkers PROVE TypeOK => IsFiniteSet(Unsent)
<1> SUFFICES ASSUME TypeOK PROVE IsFiniteSet(Unsent)
  OBVIOUS
<1> DEFINE places == {{w} \X (1 .. Pending(w)) : w \in Workers}
<1>1. IsFiniteSet(places)
  <2> DEFINE f == [w \in Workers |-> {w} \X (1 .. Pending(w))]
  <2>1. {f[w] : w \in Workers} = places
    OBVIOUS
  <2> HIDE DEF f, places
  <2>2. IsFiniteSet({f[w] : w \in Workers})
    BY FiniteImage DEF FewWorkers
  <2> QED BY <2>1, <2>2
<1>2. ASSUME NEW s \in places PROVE IsFiniteSet(s)
  <2>1. PICK w \in Workers : s = {w} \X (1 .. Pending(w))
    OBVIOUS
  <2>2. Pending(w) \in Int
    BY PendingType
  <2>3. \A n \in Int : IsFiniteSet(1 .. n)
    BY FS_Interval
  <2>4. IsFiniteSet({w}) /\ IsFiniteSet(1 .. Pending(w))
    BY <2>2, <2>3, FS_Singleton
  <2> QED BY <2>1, <2>4, FS_Product
<1> HIDE DEF places
<1>3. IsFiniteSet(UNION places)
  BY <1>1, <1>2, FS_UNION
<1> QED BY <1>3 DEF Unsent, places

(* One after the other they come to an end.                                *)
NothingNew == InPasses /\ [][NoSave]_vars
NothingSent == NothingNew /\ [][NoSend]_vars
NothingQueued == NothingSent /\ []EmptyQueue /\ []PubFree

LEMMA NewEnds == ASSUME FewWorkers PROVE InPasses => <>NothingNew
<1>1. IsFiniteSet(Unsaved)
  BY UnsavedFinite
<1>2. TypeOK /\ [Next]_vars /\ [Quiet]_vars /\ Polling /\ Polling'
      => Unsaved' \subseteq Unsaved
  BY SaveStep
<1>3. InPasses => [](IsFiniteSet(Unsaved)) /\ <>[][Unsaved' \subseteq Unsaved]_Unsaved
  BY <1>1, <1>2, PTL DEF InPasses, AllQuiet, Run
<1>4. AllSettle => Settles(Unsaved)
  BY DEF AllSettle
<1>5. InPasses => Settles(Unsaved)
  BY <1>4, PTL DEF InPasses, AllQuiet, Run
<1>6. InPasses => \E T : <>[](Unsaved = T)
  BY <1>3, <1>5 DEF Settles
<1>7. ASSUME NEW T PROVE InPasses /\ <>[](Unsaved = T) => <>NothingNew
  <2>1. TypeOK /\ [Next]_vars /\ [Quiet]_vars /\ Polling /\ Polling'
        /\ Unsaved = T /\ (Unsaved = T)'
        => NoSave
    BY SaveStep
  <2> QED BY <2>1, PTL DEF NothingNew, InPasses, AllQuiet, Run
<1> QED BY <1>6, <1>7

LEMMA SendsEnd == ASSUME FewWorkers PROVE NothingNew => <>NothingSent
<1>1. TypeOK => IsFiniteSet(Unsent)
  BY UnsentFinite
<1>2. TypeOK /\ [Next]_vars /\ [Quiet]_vars /\ Polling /\ Polling' /\ [NoSave]_vars
      => Unsent' \subseteq Unsent
  BY SendStep DEF vars, Unsent, Pending, At
<1>3. NothingNew => [](IsFiniteSet(Unsent)) /\ <>[][Unsent' \subseteq Unsent]_Unsent
  BY <1>1, <1>2, PTL DEF NothingNew, InPasses, AllQuiet, Run
<1>4. AllSettle => Settles(Unsent)
  BY DEF AllSettle
<1>5. NothingNew => Settles(Unsent)
  BY <1>4, PTL DEF NothingNew, InPasses, AllQuiet, Run
<1>6. NothingNew => \E T : <>[](Unsent = T)
  BY <1>3, <1>5 DEF Settles
<1>7. ASSUME NEW T PROVE NothingNew /\ <>[](Unsent = T) => <>NothingSent
  <2>1. TypeOK /\ [Next]_vars /\ [Quiet]_vars /\ Polling /\ Polling' /\ [NoSave]_vars
        /\ Unsent = T /\ (Unsent = T)'
        => [NoSend]_vars
    BY SendStep
  <2> QED BY <2>1, PTL DEF NothingSent, NothingNew, InPasses, AllQuiet, Run
<1> QED BY <1>6, <1>7

(* Only a send fills an empty queue, only a receive occupies the publisher. *)
LEMMA FillsOnly ==
    ASSUME TypeOK, [Next]_vars, [Quiet]_vars, Polling, Polling'
    PROVE  /\ [NoSend]_vars /\ EmptyQueue => EmptyQueue'
           /\ [NoReceive]_vars /\ PubFree => PubFree'
<1> DEFINE Goal == /\ NoSend /\ EmptyQueue => EmptyQueue'
                   /\ NoReceive /\ PubFree => PubFree'
<1>1. ASSUME NEW w \in Workers, Process(w) PROVE Goal
  <2>1. UNCHANGED pub /\ (ReadsOn(w) \/ Saves(w) \/ IsDone(w) \/ Sends(w))
    BY <1>1, WorkerMoves
  <2> QED BY <2>1 DEF NoSend, ReadsOn, Saves, IsDone, Sends, EmptyQueue, PubFree
<1>2. ASSUME Receive \/ Publish PROVE Goal
  BY <1>2 DEF Receive, Publish, EmptyQueue, PubFree, NoReceive
<1>3. ASSUME ListPage \/ HandOut \/ PageDone \/ Tick \/ UNCHANGED vars PROVE Goal
  BY <1>3 DEF ListPage, HandOut, PageDone, Tick, vars, EmptyQueue, PubFree
<1>4. UNCHANGED vars => UNCHANGED <<apiChan, pub>>
  BY DEF vars
<1> HIDE DEF Goal
<1>5. Goal
  BY <1>1, <1>2, <1>3, PassNext
<1> QED BY <1>4, <1>5 DEF Goal, EmptyQueue, PubFree

LEMMA QueueEmpties == NothingSent => <>NothingQueued
<1>1. TypeOK => IsFiniteSet(Waiting)
  <2> SUFFICES ASSUME TypeOK PROVE IsFiniteSet(Waiting)
    OBVIOUS
  <2>1. Len(apiChan) \in Int
    BY DEF TypeOK
  <2> QED BY <2>1, FS_Interval DEF Waiting
<1>2. TypeOK /\ [Next]_vars /\ [Quiet]_vars /\ Polling /\ Polling' /\ [NoSend]_vars
      => Waiting' \subseteq Waiting
  BY ReceiveStep DEF vars, Waiting
<1>3. NothingSent => [](IsFiniteSet(Waiting)) /\ <>[][Waiting' \subseteq Waiting]_Waiting
  BY <1>1, <1>2, PTL DEF NothingSent, NothingNew, InPasses, AllQuiet, Run
<1>4. AllSettle => Settles(Waiting)
  BY DEF AllSettle
<1>5. NothingSent => Settles(Waiting)
  BY <1>4, PTL DEF NothingSent, NothingNew, InPasses, AllQuiet, Run
<1>6. NothingSent => \E T : <>[](Waiting = T)
  BY <1>3, <1>5 DEF Settles
<1>7. ASSUME NEW T PROVE NothingSent /\ <>[](Waiting = T) => <>NothingQueued
  <2>1. TypeOK /\ [Next]_vars /\ [Quiet]_vars /\ Polling /\ Polling' /\ [NoSend]_vars
        /\ Waiting = T /\ (Waiting = T)'
        => [NoReceive]_vars
    BY ReceiveStep
  <2>2. TypeOK /\ [Next]_vars /\ [Quiet]_vars /\ Polling /\ Polling' /\ [NoReceive]_vars
        /\ PubFree
        => PubFree'
    BY FillsOnly
  <2>3. NeverStuck /\ Polling /\ ~EmptyQueue => ENABLED <<Publisher>>_vars
    BY DEF NeverStuck, CanPublish, Polling, EmptyQueue
  <2>4. <<Publisher>>_vars /\ [NoReceive]_vars => ~PubFree
    BY DEF Publisher, Publish, PublishFails, NoReceive, PubFree
  <2>5. TypeOK /\ [Next]_vars /\ [Quiet]_vars /\ Polling /\ Polling' /\ [NoSend]_vars
        /\ EmptyQueue
        => EmptyQueue'
    BY FillsOnly
  <2>6. NothingSent => []<>PubFree
    BY PublisherComesFree, PTL DEF NothingSent, NothingNew, InPasses, AllQuiet
  <2> QED BY <2>1, <2>2, <2>3, <2>4, <2>5, <2>6, PTL
          DEF NothingQueued, NothingSent, NothingNew, InPasses, AllQuiet, Run, Fairness
<1> QED BY <1>6, <1>7
-----------------------------------------------------------------------------
(* Then every goroutine ends: each API it is done with is one less, and it *)
(* cannot go on with one API for ever.                                     *)
Returned(w) == At(w, "idle")
ReadsAPI(w) == At(w, "detail")
ReadsPolicies(w) == At(w, "policies")
LooksUp(w) == At(w, "lookup")
WillSave(w) == At(w, "save")

LEMMA WorkerStays ==
    ASSUME TypeOK, [Next]_vars, [Quiet]_vars, Polling, Polling', NEW w \in Workers,
           ~Process(w), ~Returned(w)
    PROVE  UNCHANGED worker[w]
<1>1. ASSUME NEW v \in Workers, Process(v) PROVE UNCHANGED worker[w]
  BY <1>1, WorkerMoves
<1>2. ASSUME HandOut PROVE UNCHANGED worker[w]
  <2>1. PICK v \in Workers : /\ worker[v].pc = "idle"
                             /\ worker' = [worker EXCEPT ![v] = Resume(Head(poll.page), <<>>)]
    BY <1>2 DEF HandOut
  <2> QED BY <2>1 DEF TypeOK, Returned, At
<1>3. ASSUME ListPage \/ PageDone \/ Tick \/ Receive \/ Publish \/ UNCHANGED vars
      PROVE  UNCHANGED worker[w]
  BY <1>3 DEF ListPage, PageDone, Tick, Receive, Publish, vars
<1> QED BY <1>1, <1>2, <1>3, PassNext

LEMMA TodoMoves ==
    ASSUME TypeOK, [Next]_vars, [Quiet]_vars, Polling, Polling', [NoSave]_vars, [NoSend]_vars,
           NEW w \in Workers, ~Returned(w)
    PROVE  /\ TodoLeft(w)' \subseteq TodoLeft(w)
           /\ TodoLeft(w)' = TodoLeft(w) =>
                /\ ReadsAPI(w) => ReadsAPI(w)' \/ ReadsPolicies(w)'
                /\ ReadsPolicies(w) => ReadsPolicies(w)' \/ LooksUp(w)'
                /\ LooksUp(w) => LooksUp(w)' \/ WillSave(w)'
                /\ WillSave(w) => WillSave(w)'
                /\ <<Process(w)>>_vars => \/ ReadsAPI(w) /\ ReadsPolicies(w)'
                                          \/ ReadsPolicies(w) /\ LooksUp(w)'
                                          \/ LooksUp(w) /\ WillSave(w)'
<1> USE DEF ReadsAPI, ReadsPolicies, LooksUp, WillSave
<1>1. CASE UNCHANGED worker[w] /\ ~<<Process(w)>>_vars
  BY <1>1 DEF TodoLeft, At
<1>2. CASE <<Process(w)>>_vars
  <2>1. ReadsOn(w) \/ IsDone(w)
    BY <1>2, WorkerMoves DEF Saves, Sends, NoSave, NoSend
  <2>2. CASE ReadsOn(w)
    BY <1>2, <2>2 DEF ReadsOn, TodoLeft, At
  <2>3. CASE IsDone(w)
    <3> DEFINE n == Len(worker[w].todo)
               m == Len(worker'[w].todo)
    <3>1. n \in Nat /\ n > 0 /\ m = n - 1
      BY <2>3 DEF IsDone, TypeOK, WorkerState, WorkerType
    <3>2. TodoLeft(w) = 1 .. n /\ TodoLeft(w)' = 1 .. m
      BY DEF TodoLeft
    <3> HIDE DEF n, m
    <3>3. TodoLeft(w)' \subseteq TodoLeft(w) /\ n \in TodoLeft(w) /\ n \notin TodoLeft(w)'
      BY <3>1, <3>2
    <3> QED BY <3>3
  <2> QED BY <2>1, <2>2, <2>3
<1>3. CASE ~<<Process(w)>>_vars
  <2>1. UNCHANGED worker[w]
    <3>1. UNCHANGED vars => UNCHANGED worker[w]
      BY DEF vars
    <3> QED BY <1>3, <3>1, WorkerStays
  <2> QED BY <1>1, <1>3, <2>1
<1> QED BY <1>2, <1>3

LEMMA WorkerReturns ==
    ASSUME NEW w \in Workers
    PROVE  NothingQueued => Returns(w)
<1>1. TypeOK => IsFiniteSet(TodoLeft(w))
  <2> SUFFICES ASSUME TypeOK PROVE IsFiniteSet(TodoLeft(w))
    OBVIOUS
  <2>1. Len(worker[w].todo) \in Int
    BY DEF TypeOK, WorkerState, WorkerType
  <2>2. \A n \in Int : IsFiniteSet(1 .. n)
    BY FS_Interval
  <2> QED BY <2>1, <2>2 DEF TodoLeft
<1>2. TypeOK /\ [Next]_vars /\ [Quiet]_vars /\ Polling /\ Polling' /\ [NoSave]_vars /\ [NoSend]_vars
      /\ ~Returned(w)
      => TodoLeft(w)' \subseteq TodoLeft(w)
  BY TodoMoves
<1>3. NothingQueued /\ []~Returned(w)
      => [](IsFiniteSet(TodoLeft(w))) /\ <>[][TodoLeft(w)' \subseteq TodoLeft(w)]_(TodoLeft(w))
  BY <1>1, <1>2, PTL DEF NothingQueued, NothingSent, NothingNew, InPasses, AllQuiet, Run
<1>4. AllSettle => Settles(TodoLeft(w))
  BY DEF AllSettle, TodoSettles
<1>5. NothingQueued => Settles(TodoLeft(w))
  BY <1>4, PTL DEF NothingQueued, NothingSent, NothingNew, InPasses, AllQuiet, Run
<1>6. NothingQueued /\ []~Returned(w) => \E T : <>[](TodoLeft(w) = T)
  BY <1>3, <1>5 DEF Settles
<1>7. ASSUME NEW T PROVE NothingQueued /\ <>[](TodoLeft(w) = T) => <>Returned(w)
  <2>1. TypeOK /\ [Next]_vars /\ [Quiet]_vars /\ Polling /\ Polling' /\ [NoSave]_vars /\ [NoSend]_vars
        /\ ~Returned(w) /\ TodoLeft(w) = T /\ (TodoLeft(w) = T)'
        => /\ ReadsAPI(w) => ReadsAPI(w)' \/ ReadsPolicies(w)'
           /\ ReadsPolicies(w) => ReadsPolicies(w)' \/ LooksUp(w)'
           /\ LooksUp(w) => LooksUp(w)' \/ WillSave(w)'
           /\ WillSave(w) => WillSave(w)'
           /\ <<Process(w)>>_vars => \/ ReadsAPI(w) /\ ReadsPolicies(w)'
                                     \/ ReadsPolicies(w) /\ LooksUp(w)'
                                     \/ LooksUp(w) /\ WillSave(w)'
    BY TodoMoves
  <2>2. /\ ReadsAPI(w) => ~ReadsPolicies(w) /\ ~LooksUp(w) /\ ~WillSave(w)
        /\ ReadsPolicies(w) => ~LooksUp(w) /\ ~WillSave(w)
        /\ LooksUp(w) => ~WillSave(w)
    BY DEF ReadsAPI, ReadsPolicies, LooksUp, WillSave, At
  <2>3. NeverStuck /\ EmptyQueue /\ ~Returned(w) => ENABLED <<Process(w)>>_vars
    <3>1. Len(<<>>) < ChanCap
      BY PipelineAssumption
    <3>2. EmptyQueue => Len(apiChan) < ChanCap
      BY <3>1 DEF EmptyQueue
    <3> QED BY <3>2 DEF NeverStuck, CanProcess, Returned
  <2>4. AllProcessed => Processed(w)
    BY DEF AllProcessed
  <2> QED BY <2>1, <2>2, <2>3, <2>4, PTL
          DEF NothingQueued, NothingSent, NothingNew, InPasses, AllQuiet, Run, Fairness, Processed
<1>8. NothingQueued /\ []~Returned(w) => <>Returned(w)
  BY <1>6, <1>7
<1>9. Returned(w) => worker[w].pc = "idle"
  BY DEF Returned, At
<1> QED BY <1>8, <1>9, PTL DEF Returns
-----------------------------------------------------------------------------
(* So a pass ends: the offset passes the end of the list, a page beyond it *)
(* is empty and the last one, and any other page is handed out because a   *)
(* goroutine comes free and stays so until it is given an asset.           *)
Lists == poll.pc = "list"
Hands == poll.pc = "hand"
Sleeps == poll.pc = "sleep"
LastPage == Hands /\ poll.page = <<>> /\ ~poll.more

LEMMA ListMoves ==
    ASSUME TypeOK, [Next]_vars, [Quiet]_vars, Polling, Polling', ~Sleeps, ~Sleeps'
    PROVE  /\ Unlisted' \subseteq Unlisted
           /\ Unlisted' = Unlisted =>
                /\ Lists => Lists' \/ LastPage'
                /\ LastPage => LastPage'
<1> DEFINE Goal == /\ Unlisted' \subseteq Unlisted
                   /\ Unlisted' = Unlisted =>
                        /\ Lists => Lists' \/ LastPage'
                        /\ LastPage => LastPage'
<1>0. /\ poll \in [pc : PollStates, offset : Nat, page : Seq(Seq(Entry)), more : BOOLEAN]
      /\ listing \in Seq(Seq(Apis)) /\ PageSize \in Nat \ {0}
      /\ UNCHANGED listing
  BY PipelineAssumption DEF TypeOK, Quiet, world, vars
<1>1. ASSUME UNCHANGED poll PROVE Goal
  BY <1>0, <1>1 DEF Unlisted, Lists, LastPage, Hands
<1>2. ASSUME ListPage PROVE Goal
  <2> DEFINE n == Len(listing)
             o == poll.offset
             last == IF n < o + PageSize THEN n ELSE o + PageSize
             assets == SubSeq(listing, o + 1, last)
  <2>1. /\ poll'.pc = "hand" /\ poll'.offset = o + PageSize
        /\ poll'.page = [i \in DOMAIN assets |->
                           [j \in DOMAIN assets[i] |->
                              [api |-> assets[i][j], content |-> live[assets[i][j]].content]]]
        /\ poll'.more = (Len(assets) = PageSize)
    BY <1>2 DEF ListPage
  <2>2. n \in Nat /\ o \in Nat
    BY <1>0
  <2>3. Unlisted = o + 1 .. n /\ Unlisted' = o + PageSize + 1 .. n
    BY <1>0, <2>1 DEF Unlisted
  <2>4. Unlisted' \subseteq Unlisted
    BY <1>0, <2>2, <2>3
  <2>5. CASE o < n
    <3>1. o + 1 \in Unlisted /\ o + 1 \notin Unlisted'
      BY <1>0, <2>2, <2>3, <2>5
    <3> QED BY <2>4, <3>1
  <2>6. CASE ~(o < n)
    <3>1. last = n
      BY <1>0, <2>2, <2>6
    <3>2. assets = <<>>
      <4>1. SubSeq(listing, o + 1, n) = <<>>
        BY <1>0, <2>2, <2>6
      <4> QED BY <3>1, <4>1
    <3> HIDE DEF assets
    <3>3. Len(assets) = 0 /\ DOMAIN assets = {}
      BY <3>2
    <3>4. poll'.page = <<>>
      BY <2>1, <3>3
    <3>5. LastPage'
      BY <1>0, <2>1, <3>3, <3>4 DEF LastPage, Hands
    <3>6. ~LastPage
      BY <1>2 DEF LastPage, Hands, ListPage
    <3> QED BY <2>4, <3>5, <3>6
  <2> QED BY <2>5, <2>6
<1>3. ASSUME HandOut PROVE Goal
  <2>1. poll'.offset = poll.offset
    BY <1>0, <1>3 DEF HandOut
  <2>2. ~Lists /\ ~LastPage
    BY <1>3 DEF HandOut, Lists, LastPage
  <2> QED BY <1>0, <2>1, <2>2 DEF Unlisted
<1>4. ASSUME PageDone PROVE Goal
  <2>1. poll.more
    BY <1>4 DEF PageDone, Stopped, Sleeps
  <2>2. poll'.offset = poll.offset
    BY <1>0, <1>4, <2>1 DEF PageDone
  <2>3. ~Lists /\ ~LastPage
    BY <1>4, <2>1 DEF PageDone, Lists, LastPage
  <2> QED BY <1>0, <2>2, <2>3 DEF Unlisted
<1>5. ~Tick
  BY DEF Tick, Sleeps
<1>6. ASSUME (\E w \in Workers : Process(w)) \/ Receive \/ Publish \/ UNCHANGED vars PROVE Goal
  BY <1>1, <1>6, WorkerMoves DEF Receive, Publish, vars
<1> HIDE DEF Goal
<1>7. Goal
  BY <1>2, <1>3, <1>4, <1>5, <1>6, PassNext
<1> QED BY <1>7 DEF Goal

LEMMA PageMoves ==
    ASSUME TypeOK, [Next]_vars, [Quiet]_vars, Hands, Hands'
    PROVE  PageLeft' \subseteq PageLeft /\ (PageLeft' = PageLeft => ~HandOut)
<1> DEFINE Goal == PageLeft' \subseteq PageLeft /\ (PageLeft' = PageLeft => ~HandOut)
<1>0. Polling /\ Polling'
  BY DEF Polling, Hands
<1>1. HandOut => /\ Len(poll.page) \in Nat /\ Len(poll.page) > 0
                 /\ Len(poll'.page) = Len(poll.page) - 1
  <2> SUFFICES ASSUME HandOut
               PROVE  /\ Len(poll.page) \in Nat /\ Len(poll.page) > 0
                      /\ Len(poll'.page) = Len(poll.page) - 1
    OBVIOUS
  <2>1. poll.page \in Seq(Seq(Entry)) /\ poll.page # <<>> /\ poll'.page = Tail(poll.page)
    BY DEF HandOut, TypeOK
  <2> QED BY <2>1
<1>2. ASSUME HandOut PROVE Goal
  <2> DEFINE n == Len(poll.page)
             m == Len(poll'.page)
  <2>1. n \in Nat /\ n > 0 /\ m = n - 1
    BY <1>1, <1>2
  <2>2. PageLeft = 1 .. n /\ PageLeft' = 1 .. m
    BY DEF PageLeft
  <2> HIDE DEF n, m
  <2>3. PageLeft' \subseteq PageLeft /\ n \in PageLeft /\ n \notin PageLeft'
    BY <2>1, <2>2
  <2> QED BY <2>3
<1>3. ASSUME UNCHANGED poll PROVE Goal
  <2>1. ~HandOut
    <3> SUFFICES ASSUME HandOut PROVE FALSE
      OBVIOUS
    <3>1. Len(poll'.page) = Len(poll.page)
      BY <1>3
    <3> QED BY <1>1, <3>1
  <2> QED BY <1>3, <2>1 DEF PageLeft
<1>4. ~ListPage /\ ~Tick
  BY DEF ListPage, Tick, Hands
<1>5. ~PageDone
  <2>1. PageDone => poll'.pc \in {"list", "sleep"}
    BY DEF PageDone, Stopped, TypeOK
  <2> QED BY <2>1 DEF Hands
<1>6. ASSUME (\E w \in Workers : Process(w)) \/ Receive \/ Publish \/ UNCHANGED vars PROVE Goal
  BY <1>3, <1>6, WorkerMoves DEF Receive, Publish, vars
<1> HIDE DEF Goal
<1>7. Goal
  BY <1>0, <1>2, <1>4, <1>5, <1>6, PassNext
<1> QED BY <1>7 DEF Goal

LEMMA ReturnedStays ==
    ASSUME TypeOK, [Next]_vars, [Quiet]_vars, Polling, Polling', NEW w \in Workers,
           Returned(w), ~HandOut
    PROVE  Returned(w)'
<1>1. ASSUME NEW v \in Workers, Process(v) PROVE Returned(w)'
  <2>1. v # w
    BY <1>1 DEF Process, SkipUnwanted, GetAPI, GetPolicies, PoliciesFail, Lookup, Save,
                BuildDetail, BuildFails, Send, Returned, At
  <2> QED BY <1>1, <2>1, WorkerMoves DEF Returned, At
<1>2. ASSUME ListPage \/ PageDone \/ Tick \/ Receive \/ Publish \/ UNCHANGED vars
      PROVE  Returned(w)'
  BY <1>2 DEF ListPage, PageDone, Tick, Receive, Publish, vars, Returned, At
<1> QED BY <1>1, <1>2, PassNext

LEMMA PassesEnd == ASSUME FewWorkers PROVE NothingQueued => []<>Sleeps
<1> DEFINE Awake == NothingQueued /\ []~Sleeps
<1>0. PICK w \in Workers : TRUE
  BY DEF FewWorkers
<1>1. TypeOK => IsFiniteSet(Unlisted) /\ IsFiniteSet(PageLeft)
  <2> SUFFICES ASSUME TypeOK PROVE IsFiniteSet(Unlisted) /\ IsFiniteSet(PageLeft)
    OBVIOUS
  <2>1. poll.offset + 1 \in Int /\ Len(listing) \in Int /\ Len(poll.page) \in Int
    BY PipelineAssumption DEF TypeOK
  <2>2. \A m, n \in Int : IsFiniteSet(m .. n)
    BY FS_Interval
  <2> QED BY <2>1, <2>2 DEF Unlisted, PageLeft
<1>2. TypeOK /\ Polling => Lists \/ Hands \/ Sleeps
  BY DEF Polling, Lists, Hands, Sleeps
<1>3. (Lists => ~Hands /\ ~Sleeps) /\ (Hands => ~Sleeps) /\ (LastPage => Hands)
  BY DEF Lists, Hands, Sleeps, LastPage
<1>4. NeverStuck => /\ Lists \/ LastPage => ENABLED <<Poller>>_vars
                    /\ Hands /\ Returned(w) => ENABLED <<Poller>>_vars
  BY <1>0 DEF NeverStuck, CanPoll, Lists, LastPage, Hands, Returned
<1>5. TypeOK /\ <<Poller>>_vars /\ ~Sleeps' => /\ Lists => ~Lists'
                                               /\ LastPage => ~LastPage'
  <2>1. TypeOK /\ (GetRevisions \/ ListPage \/ ListFails \/ HandOut \/ Tick) => ~(Lists /\ Lists') /\ ~LastPage
    BY DEF GetRevisions, ListPage, ListFails, HandOut, Tick, Stopped, TypeOK, Lists, LastPage, Hands
  <2>2. TypeOK /\ PageDone => ~Lists /\ ~LastPage'
    BY DEF PageDone, Stopped, TypeOK, Lists, LastPage, Hands
  <2> QED BY <2>1, <2>2 DEF Poller
(* The offset comes past the end of the list, and no page is left to hand  *)
(* out.                                                                    *)
<1>6. Awake => <>[]Hands
  <2>1. TypeOK /\ [Next]_vars /\ [Quiet]_vars /\ Polling /\ Polling' /\ ~Sleeps /\ ~Sleeps'
        => Unlisted' \subseteq Unlisted
    BY ListMoves
  <2>2. Awake => [](IsFiniteSet(Unlisted)) /\ <>[][Unlisted' \subseteq Unlisted]_Unlisted
    BY <1>1, <2>1, PTL DEF NothingQueued, NothingSent, NothingNew, InPasses, AllQuiet, Run
  <2>3. AllSettle => Settles(Unlisted)
    BY DEF AllSettle
  <2>4. Awake => Settles(Unlisted)
    BY <2>3, PTL DEF NothingQueued, NothingSent, NothingNew, InPasses, AllQuiet, Run
  <2>5. Awake => \E T : <>[](Unlisted = T)
    BY <2>2, <2>4 DEF Settles
  <2>6. ASSUME NEW T PROVE Awake /\ <>[](Unlisted = T) => <>[]Hands
    <3>1. TypeOK /\ [Next]_vars /\ [Quiet]_vars /\ Polling /\ Polling' /\ ~Sleeps /\ ~Sleeps'
          /\ Unlisted = T /\ (Unlisted = T)'
          => /\ Lists => Lists' \/ LastPage'
             /\ LastPage => LastPage'
      BY ListMoves
    <3> QED BY <1>2, <1>3, <1>4, <1>5, <3>1, PTL
            DEF NothingQueued, NothingSent, NothingNew, InPasses, AllQuiet, Run, Fairness
  <2> QED BY <2>5, <2>6
<1>7. Awake /\ <>[]Hands => FALSE
  <2>1. TypeOK /\ [Next]_vars /\ [Quiet]_vars /\ Hands /\ Hands' => PageLeft' \subseteq PageLeft
    BY PageMoves
  <2>2. NothingQueued /\ <>[]Hands => [](IsFiniteSet(PageLeft)) /\ <>[][PageLeft' \subseteq PageLeft]_PageLeft
    BY <1>1, <2>1, PTL DEF NothingQueued, NothingSent, NothingNew, InPasses, AllQuiet, Run
  <2>3. AllSettle => Settles(PageLeft)
    BY DEF AllSettle
  <2>4. NothingQueued => Settles(PageLeft)
    BY <2>3, PTL DEF NothingQueued, NothingSent, NothingNew, InPasses, AllQuiet, Run
  <2>5. NothingQueued /\ <>[]Hands => \E T : <>[](PageLeft = T)
    BY <2>2, <2>4 DEF Settles
  <2>6. ASSUME NEW T PROVE NothingQueued /\ <>[]Hands /\ <>[](PageLeft = T) => FALSE
    <3>1. TypeOK /\ [Next]_vars /\ [Quiet]_vars /\ Hands /\ Hands'
          /\ PageLeft = T /\ (PageLeft = T)'
          => ~HandOut
      BY PageMoves
    <3>2. TypeOK /\ [Next]_vars /\ [Quiet]_vars /\ Polling /\ Polling' /\ Returned(w) /\ ~HandOut
          => Returned(w)'
      BY <1>0, ReturnedStays
    <3>3. TypeOK /\ Hands /\ Hands' /\ <<Poller>>_vars => HandOut
      <4>1. Hands => ~GetRevisions /\ ~ListPage /\ ~ListFails /\ ~Tick
        BY DEF GetRevisions, ListPage, ListFails, Tick, Hands
      <4>2. TypeOK /\ PageDone => ~Hands'
        BY DEF PageDone, Stopped, TypeOK, Hands
      <4> QED BY <4>1, <4>2 DEF Poller
    <3>4. NothingQueued => []<>Returned(w)
      <4>1. NothingQueued => Returns(w)
        BY <1>0, WorkerReturns
      <4>2. worker[w].pc = "idle" => Returned(w)
        BY DEF Returned, At
      <4> QED BY <4>1, <4>2, PTL DEF Returns, NothingQueued, NothingSent, NothingNew, InPasses,
                                     AllQuiet, Run
    <3> QED BY <1>4, <3>1, <3>2, <3>3, <3>4, PTL
            DEF NothingQueued, NothingSent, NothingNew, InPasses, AllQuiet, Run, Fairness
  <2> QED BY <2>5, <2>6
<1>8. NothingQueued => ~[]~Sleeps
  BY <1>6, <1>7
<1> QED BY <1>8, PTL DEF NothingQueued, NothingSent, NothingNew, InPasses, AllQuiet, Run
-----------------------------------------------------------------------------
(* And the next one begins: between two passes the goroutines end one by   *)
(* one, none begins, and a change that is still wanted would be possible   *)
(* at every end of a pass, hence come.                                     *)
LEMMA WorkingLess ==
    ASSUME TypeOK, [Next]_vars, [Quiet]_vars, Polling, Polling', Sleeps
    PROVE  Working' \subseteq Working
<1>1. ~HandOut
  BY DEF HandOut, Sleeps
<1>2. \A w \in Workers : Returned(w) => Returned(w)'
  BY <1>1, ReturnedStays
<1> QED BY <1>2 DEF Working, Returned

LEMMA PassesBegin == ASSUME FewWorkers PROVE NothingQueued => []<>~Sleeps
<1>1. IsFiniteSet(Working)
  BY FS_Subset DEF FewWorkers, Working
<1>2. TypeOK /\ [Next]_vars /\ [Quiet]_vars /\ Polling /\ Polling' /\ Sleeps
      => Working' \subseteq Working
  BY WorkingLess
<1>3. NothingQueued /\ []Sleeps => [](IsFiniteSet(Working)) /\ <>[][Working' \subseteq Working]_Working
  BY <1>1, <1>2, PTL DEF NothingQueued, NothingSent, NothingNew, InPasses, AllQuiet, Run
<1>4. AllSettle => Settles(Working)
  BY DEF AllSettle
<1>5. NothingQueued => Settles(Working)
  BY <1>4, PTL DEF NothingQueued, NothingSent, NothingNew, InPasses, AllQuiet, Run
<1>6. NothingQueued /\ []Sleeps => \E T : <>[](Working = T)
  BY <1>3, <1>5 DEF Settles
<1>7. ASSUME NEW T PROVE NothingQueued /\ []Sleeps /\ <>[](Working = T) => FALSE
  <2>1. CASE T = {}
    <3>1. Sleeps /\ EmptyQueue /\ PubFree /\ Working = T => MayBegin
      BY <2>1 DEF Sleeps, EmptyQueue, PubFree, Working, At, MayBegin, Drained
    <3>2. NeverStuck /\ MayBegin => ENABLED <<Poller>>_vars
      BY DEF NeverStuck, CanPoll
    <3>3. <<Poller>>_vars /\ Sleeps => ~Sleeps'
      BY DEF Poller, GetRevisions, ListPage, ListFails, HandOut, PageDone, Tick, Stopped, Sleeps
    <3> QED BY <3>1, <3>2, <3>3, PTL
            DEF NothingQueued, NothingSent, NothingNew, InPasses, AllQuiet, Run, Fairness
  <2>2. ASSUME NEW w \in T PROVE NothingQueued /\ []Sleeps /\ <>[](Working = T) => FALSE
    <3>1. CASE w \in Workers
      <4>1. Working = T => ~(worker[w].pc = "idle")
        BY <2>2, <3>1 DEF Working, At
      <4>2. NothingQueued => Returns(w)
        BY <3>1, WorkerReturns
      <4> QED BY <4>1, <4>2, PTL DEF Returns, NothingQueued, NothingSent, NothingNew, InPasses,
                                     AllQuiet, Run
    <3>2. CASE w \notin Workers
      <4>1. ~(Working = T)
        BY <2>2, <3>2 DEF Working
      <4> QED BY <4>1, PTL
    <3> QED BY <3>1, <3>2
  <2> QED BY <2>1, <2>2
<1>8. NothingQueued => ~[]Sleeps
  BY <1>6, <1>7
<1> QED BY <1>8, PTL DEF NothingQueued, NothingSent, NothingNew, InPasses, AllQuiet, Run

LEMMA TickBegins ==
    ASSUME TypeOK, [Next]_vars, [Quiet]_vars, Polling, Polling', Sleeps, ~Sleeps'
    PROVE  MayBegin /\ PassBegins'
<1>1. ~ListPage /\ ~HandOut /\ ~PageDone
  BY DEF ListPage, HandOut, PageDone, Sleeps
<1>2. \A w \in Workers : ~Process(w)
  BY WorkerMoves DEF Sleeps
<1>3. ~Receive /\ ~Publish /\ ~UNCHANGED vars
  BY DEF Receive, Publish, vars, Sleeps
<1>4. Tick
  BY <1>1, <1>2, <1>3, PassNext
<1> QED BY <1>4 DEF Tick, MayBegin, PassBegins

LEMMA PassesRepeat ==
    ASSUME FewWorkers
    PROVE  NothingQueued => []<>(PassBegins /\ InForce)
<1>1. NothingQueued => []<>Sleeps /\ []<>~Sleeps
  BY PassesEnd, PassesBegin
<1>2. TypeOK /\ [Next]_vars /\ [Quiet]_vars /\ Polling /\ Polling' /\ Sleeps /\ ~Sleeps'
      => MayBegin /\ PassBegins'
  BY TickBegins
<1>3. TypeOK /\ [Next]_vars /\ [Quiet]_vars /\ InForce => InForce'
  BY ChangeStep
<1>4. NeverStuck /\ MayBegin /\ ~InForce => ENABLED <<Handler>>_vars
  BY DEF NeverStuck, CanChange
<1>5. <<Handler>>_vars => ~Polling'
  BY DEF Handler, StopPolling, StopPublishing, SetTags, SetIgnoreTags, Stopped, Polling
<1> QED BY <1>1, <1>2, <1>3, <1>4, <1>5, PTL
        DEF NothingQueued, NothingSent, NothingNew, InPasses, AllQuiet, Run, Fairness

(* All of it, from any state of a fair behaviour.                          *)
LEMMA RunComesToPasses == ASSUME FewWorkers PROVE Run => <>NothingQueued
<1>1. Run => <>AllQuiet
  BY RunFallsQuiet, PTL DEF FallsQuiet, AllQuiet, Run
<1> QED BY <1>1, ChangesEnd, NewEnds, SendsEnd, QueueEmpties, PTL

LEMMA AllReturn == ASSUME FewWorkers PROVE Run => []EachReturns
<1>1. ASSUME NEW w \in Workers PROVE Run => Returns(w)
  <2>1. NothingQueued => Returns(w)
    BY WorkerReturns
  <2> QED BY <2>1, RunComesToPasses, PTL DEF Returns
<1>2. Run => EachReturns
  BY <1>1 DEF EachReturns
<1> QED BY <1>2, PTL DEF Run

(* Work never stops.  With finitely many goroutines and checksums passes   *)
(* begin again and again, in the end with the tags that are configured,    *)
(* and end; every goroutine ends; the queue is emptied and all is          *)
(* published.  What is assumed besides fairness is that no part is ever    *)
(* stuck in the sense of NeverStuck, and that finite sets settle.          *)
(* []Fairness is Fairness: what is fair from here on is fair from any      *)
(* later point on.  The provers do not move [] into the quantifier.        *)
THEOREM PassesContinue ==
    ASSUME FewWorkers
    PROVE  Spec /\ []Fairness /\ []NeverStuck /\ []AllSettle => PassesGoOn
<1>1. Spec /\ []Fairness /\ []NeverStuck /\ []AllSettle => Run
  BY TypeCorrect, PTL DEF Spec, Run
<1>2. NothingQueued => []<>Sleeps /\ []<>(PassBegins /\ InForce)
  BY PassesEnd, PassesRepeat
<1>3. Sleeps => poll.pc = "sleep"
  BY DEF Sleeps
<1>4. (EmptyQueue => apiChan = <<>>) /\ (PubFree => pub = None)
  BY DEF EmptyQueue, PubFree
<1>5. Run => []<>(PassBegins /\ InForce) /\ []<>(poll.pc = "sleep")
             /\ []<>(apiChan = <<>>) /\ []<>(pub = None)
  BY <1>2, <1>3, <1>4, RunComesToPasses, PTL DEF NothingQueued
<1> QED BY <1>1, <1>5, AllReturn DEF PassesGoOn
=============================================================================
