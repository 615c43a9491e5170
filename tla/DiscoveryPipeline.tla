------------------------- MODULE DiscoveryPipeline -------------------------
(***************************************************************************)
(* The discovery agent between two remote systems: it polls the API        *)
(* Manager of Mulesoft page by page, hands every listed asset to a         *)
(* goroutine that turns its APIs into service details, and a publisher     *)
(* sends the details to Amplify Central one at a time                      *)
(* (pkg/discovery/{discover,servicehandler,publish}.go).                   *)
(*                                                                         *)
(* What keeps a poll from publishing everything again is a cache of        *)
(* checksums, shared by all goroutines: written before the detail is       *)
(* built, never cleaned, lost with the process and rebuilt from the        *)
(* revisions Central holds.  This module keeps every read of remote state, *)
(* every cache access and every channel operation a step of its own.       *)
(*                                                                         *)
(* Bounds: Workers (goroutines at a time), MaxEdits, MaxFaults,            *)
(* MaxCrashes.  Overlap = FALSE is the assumption that the poll interval   *)
(* outlasts a pass; the code itself starts a pass at every tick, so the    *)
(* properties that need the assumption say so and the others are checked   *)
(* for passes that overlap.                                                *)
(***************************************************************************)
EXTENDS FiniteSets, DiscoveryFilter, PolicyMapping

CONSTANTS Apis,         \* API instances
          Listings,     \* the API Manager's possible lists of assets, an asset being
                        \* a sequence of APIs
          Listing,      \* the list when the agent is installed
          PageSize,     \* assets in a page
          ChanCap,      \* capacity of apiChan
          Workers,      \* names for the goroutines that live at the same time
          Contents,     \* what a list entry of an API may say
          Proxies,      \* proxy paths, read separately from the list
          PolicyLists,  \* the policies that may be applied to an API
          WithSpec,     \* the APIs whose Exchange asset has a usable specification
          Initial,      \* the state of each API when the agent is installed
          Overlap,      \* may a pass begin while the last one is still processed
          TagConfigs,   \* the tag lists that may be configured
          TagConfig,    \* those at installation
          Revert,       \* may an edit bring back a former value
          Faults,       \* the remote calls that may fail
          MaxEdits, MaxFaults, MaxCrashes,
          None          \* no detail, no value read yet

Calls == {"revisions", "list", "detail", "policies", "spec", "publish"}

Live == [content : Contents, proxy : Proxies, policies : PolicyLists]

ASSUME PipelineAssumption ==
    /\ Listings \subseteq Seq(Seq(Apis))
    /\ Listing \in Listings
    /\ PageSize \in Nat \ {0}
    /\ ChanCap \in Nat \ {0}
    /\ Contents \subseteq [endpoint : BOOLEAN, tags : SUBSET Tags]
    /\ WithSpec \subseteq Apis
    /\ Initial \in [Apis -> Live]
    /\ {Overlap, Revert} \subseteq BOOLEAN
    /\ TagConfigs \subseteq TagLists
    /\ TagConfig \in TagConfigs
    /\ Faults \subseteq Calls
    /\ {MaxEdits, MaxFaults, MaxCrashes} \subseteq Nat

(* A list entry and a checksum.  The checksum is a hash of the list entry, *)
(* with the proxy path appended to its endpoint, and of the configuration  *)
(* of the policies, so two checksums agree when all of these do.           *)
Entry == [api : Apis, content : Contents]
Checksum == [api : Apis, content : Contents, proxy : Proxies,
             config : {Configuration(ps) : ps \in PolicyLists}]

ASSUME NoneAssumption == None \notin Checksum /\ None \notin Proxies

Idle == [pc |-> "idle", todo |-> <<>>, proxy |-> None, sum |-> None, out |-> <<>>]

VARIABLES
    live,       \* [Apis -> Live], the state of the APIs in Mulesoft
    seen,       \* history: the values each part of live[a] has had
    listing,    \* the list of assets in the API Manager
    configured, \* the tag lists of the agent's configuration
    central,    \* the revisions in Central, oldest first
    cache,      \* the checksums in the agent's cache
    lost,       \* history: the checksums whose detail a failed call dropped since
                \* the process was started
    filter,     \* the cleaned tag lists the service handler goes by
    poll,       \* the polling goroutine and the handler of a configuration change:
                \* pc, offset, page still to hand out, more
    worker,     \* the goroutines that process an asset
    apiChan,    \* details waiting for the publisher
    pub,        \* the detail the publisher is sending, or None
    edits, faults, crashes

vars == <<live, seen, listing, configured, central, cache, lost, filter, poll, worker,
          apiChan, pub, edits, faults, crashes>>
known == <<cache, lost>>
process == <<filter, poll, worker, apiChan, pub, known>>
world == <<live, seen, listing, configured, edits>>

Elements(s) == {s[i] : i \in DOMAIN s}

(* A call in Faults may fail as long as the fault budget lasts.            *)
Fails(call) == /\ call \in Faults
               /\ faults < MaxFaults
               /\ faults' = faults + 1
-----------------------------------------------------------------------------
(* What a complete, untorn reading of API a would publish.                 *)
Current(a) == [api |-> a, content |-> live[a].content, proxy |-> live[a].proxy,
               config |-> Configuration(live[a].policies)]

Eligible(a) == /\ a \in WithSpec
               /\ \E i \in DOMAIN listing : a \in Elements(listing[i])
               /\ ShouldDiscover(Cleaned(configured), live[a].content.endpoint, live[a].content.tags)
               /\ ~Incompatible(live[a].policies)

Stopped(pc) == [pc |-> pc, offset |-> 0, page |-> <<>>, more |-> FALSE]

Init == /\ live = Initial
        /\ seen = [a \in Apis |-> [content |-> {Initial[a].content},
                                   proxy |-> {Initial[a].proxy},
                                   policies |-> {Initial[a].policies}]]
        /\ listing = Listing
        /\ configured = TagConfig
        /\ filter = Cleaned(TagConfig)
        /\ central = <<>>
        /\ cache = {} /\ lost = {}
        /\ poll = Stopped("revisions")
        /\ worker = [w \in Workers |-> Idle]
        /\ apiChan = <<>>
        /\ pub = None
        /\ edits = 0 /\ faults = 0 /\ crashes = 0
-----------------------------------------------------------------------------
(* Mulesoft: someone changes one part of one API.                          *)
Edit(a) ==
    /\ edits < MaxEdits
    /\ \E new \in Live :
         /\ \E part \in {"content", "proxy", "policies"} :
              /\ new = [live[a] EXCEPT ![part] = new[part]]
              /\ new[part] # live[a][part]
              /\ Revert \/ new[part] \notin seen[a][part]
              /\ seen' = [seen EXCEPT ![a][part] = @ \cup {new[part]}]
         /\ live' = [live EXCEPT ![a] = new]
    /\ edits' = edits + 1
    /\ UNCHANGED <<listing, configured, central, process, faults, crashes>>

(* The API Manager lists other assets, or in another order: what lies      *)
(* behind the offset of a pass that is under way moves.  Without Revert    *)
(* the list changes once.                                                  *)
Relist ==
    /\ edits < MaxEdits
    /\ Revert \/ listing = Listing
    /\ listing' \in Listings \ {listing}
    /\ edits' = edits + 1
    /\ UNCHANGED <<live, seen, configured, central, process, faults, crashes>>

(* Someone configures other tags.  A second change while the process lives *)
(* is left to AgentLifecycle: the loop that the first one stopped may take *)
(* the second stop in place of the one that polls.                         *)
Reconfigure ==
    /\ edits < MaxEdits
    /\ configured = TagConfig
    /\ configured' \in TagConfigs \ {configured}
    /\ edits' = edits + 1
    /\ UNCHANGED <<live, seen, listing, central, process, faults, crashes>>
-----------------------------------------------------------------------------
(* The polling goroutine (discovery.Loop).                                 *)

(* Mutant of GetRevisions: the answer is not put into the cache.           *)
GetRevisionsUnused ==
    /\ poll.pc = "revisions"
    /\ \/ UNCHANGED faults
       \/ Fails("revisions")
    /\ poll' = Stopped("list")
    /\ UNCHANGED <<known, world, filter, central, worker, apiChan, pub, crashes>>

(* getRevisions: every revision in Central marks its checksum as known.    *)
GetRevisions ==
    /\ poll.pc = "revisions"
    /\ \/ cache' = cache \cup Elements(central) /\ UNCHANGED faults
       \/ Fails("revisions") /\ UNCHANGED cache
    /\ poll' = Stopped("list")
    /\ UNCHANGED <<lost, world, filter, central, worker, apiChan, pub, crashes>>

(* Mutant of ListPage: only the first page is ever asked for.              *)
ListOnePage ==
    LET n == IF Len(listing) < PageSize THEN Len(listing) ELSE PageSize
    IN  /\ poll.pc = "list"
        /\ poll' = [pc |-> "hand", offset |-> PageSize,
                    page |-> [i \in 1..n |->
                                [j \in DOMAIN listing[i] |->
                                    [api |-> listing[i][j],
                                     content |-> live[listing[i][j]].content]]],
                    more |-> FALSE]
        /\ UNCHANGED <<world, filter, central, known, worker, apiChan, pub, faults, crashes>>

(* Mutant of ListPage: the offset is not moved on.                         *)
ListSamePage ==
    LET n == IF Len(listing) < PageSize THEN Len(listing) ELSE PageSize
    IN  /\ poll.pc = "list"
        /\ poll' = [pc |-> "hand", offset |-> 0,
                    page |-> [i \in 1..n |->
                                [j \in DOMAIN listing[i] |->
                                    [api |-> listing[i][j],
                                     content |-> live[listing[i][j]].content]]],
                    more |-> n = PageSize]
        /\ UNCHANGED <<world, filter, central, known, worker, apiChan, pub, faults, crashes>>

(* ListAssets: one page from the offset, each asset with the list entries  *)
(* of its APIs as they are now.  A full page means there may be another.   *)
ListPage ==
    LET first == poll.offset + 1
        last == IF Len(listing) < poll.offset + PageSize THEN Len(listing)
                ELSE poll.offset + PageSize
        assets == SubSeq(listing, first, last)
    IN  /\ poll.pc = "list"
        /\ poll' = [pc |-> "hand", offset |-> poll.offset + PageSize,
                    page |-> [i \in DOMAIN assets |->
                                [j \in DOMAIN assets[i] |->
                                    [api |-> assets[i][j],
                                     content |-> live[assets[i][j]].content]]],
                    more |-> Len(assets) = PageSize]
        /\ UNCHANGED <<world, filter, central, known, worker, apiChan, pub, faults, crashes>>

(* An error leaves no assets, which ends the pass like a short page.       *)
ListFails ==
    /\ poll.pc = "list"
    /\ Fails("list")
    /\ poll' = Stopped("sleep")
    /\ UNCHANGED <<world, filter, central, known, worker, apiChan, pub, crashes>>

(* A goroutine that still has APIs to look at, details to send, or neither. *)
Resume(todo, out) ==
    IF todo = <<>> /\ out = <<>> THEN Idle
    ELSE [pc |-> IF todo # <<>> THEN "detail" ELSE "send",
          todo |-> todo, proxy |-> None, sum |-> None, out |-> out]

(* go func(asset): a goroutine for the next asset of the page.             *)
HandOut ==
    /\ poll.pc = "hand"
    /\ poll.page # <<>>
    /\ \E w \in Workers :
         /\ worker[w].pc = "idle"
         /\ worker' = [worker EXCEPT ![w] = Resume(Head(poll.page), <<>>)]
    /\ poll' = [poll EXCEPT !.page = Tail(@)]
    /\ UNCHANGED <<world, filter, central, known, apiChan, pub, faults, crashes>>

(* The page is handed out: the next one, or the end of the pass.  The      *)
(* goroutines are not waited for.                                          *)
PageDone ==
    /\ poll.pc = "hand"
    /\ poll.page = <<>>
    /\ poll' = IF poll.more THEN [poll EXCEPT !.pc = "list", !.more = FALSE]
               ELSE Stopped("sleep")
    /\ UNCHANGED <<world, filter, central, known, worker, apiChan, pub, faults, crashes>>

Drained == /\ \A w \in Workers : worker[w].pc = "idle"
           /\ apiChan = <<>>
           /\ pub = None

Tick ==
    /\ poll.pc = "sleep"
    /\ Overlap \/ Drained
    /\ poll' = Stopped("list")
    /\ UNCHANGED <<world, filter, central, known, worker, apiChan, pub, faults, crashes>>
-----------------------------------------------------------------------------
(* A configuration change (onConfigChange): both loops are stopped, each   *)
(* where it waits for work, the service handler gets its new tag lists one *)
(* after the other, and the loops are started again with a first pass.     *)
(* Goroutines, queue and cache stay as they are: goroutines go on with the *)
(* lists they find, and senders wait while nobody receives.                *)

StopPolling ==
    /\ poll.pc = "sleep"
    /\ filter # Cleaned(configured)
    /\ Overlap \/ Drained
    /\ poll' = Stopped("stopping")
    /\ UNCHANGED <<world, filter, central, known, worker, apiChan, pub, faults, crashes>>

StopPublishing ==
    /\ poll.pc = "stopping"
    /\ pub = None
    /\ poll' = Stopped("tags")
    /\ UNCHANGED <<world, filter, central, known, worker, apiChan, pub, faults, crashes>>

SetTags ==
    /\ poll.pc = "tags"
    /\ filter' = [filter EXCEPT !.discovery = Cleaned(configured).discovery]
    /\ poll' = Stopped("ignoreTags")
    /\ UNCHANGED <<world, central, known, worker, apiChan, pub, faults, crashes>>

SetIgnoreTags ==
    /\ poll.pc = "ignoreTags"
    /\ filter' = [filter EXCEPT !.ignore = Cleaned(configured).ignore]
    /\ poll' = Stopped("revisions")
    /\ UNCHANGED <<world, central, known, worker, apiChan, pub, faults, crashes>>
-----------------------------------------------------------------------------
(* A goroutine turning the APIs of one asset into details                  *)
(* (ToServiceDetails and getServiceDetail).                                *)

At(w, pc) == worker[w].pc = pc
Job(w) == Head(worker[w].todo)

(* Go on with the next API of the asset, with found appended to what the   *)
(* goroutine will send.                                                    *)
NextApi(w, found) ==
    worker' = [worker EXCEPT ![w] = Resume(Tail(@.todo), @.out \o found)]

SkipUnwanted(w) ==
    /\ At(w, "detail")
    /\ ~ShouldDiscover(filter, Job(w).content.endpoint, Job(w).content.tags)
    /\ NextApi(w, <<>>)
    /\ UNCHANGED <<world, filter, central, known, poll, apiChan, pub, faults, crashes>>

GetAPI(w) ==
    /\ At(w, "detail")
    /\ ShouldDiscover(filter, Job(w).content.endpoint, Job(w).content.tags)
    /\ worker' = [worker EXCEPT ![w].pc = "policies",
                                ![w].proxy = live[Job(w).api].proxy]
    /\ UNCHANGED <<world, filter, central, known, poll, apiChan, pub, faults, crashes>>

(* Mutant of GetPolicies: an incompatible policy is no reason to stop.     *)
GetPoliciesLenient(w) ==
    LET ps == live[Job(w).api].policies
    IN  /\ At(w, "policies")
        /\ worker' = [worker EXCEPT
                ![w].pc = "lookup",
                ![w].proxy = None,
                ![w].sum = [api |-> Job(w).api, content |-> Job(w).content,
                            proxy |-> worker[w].proxy, config |-> Configuration(ps)]]
        /\ UNCHANGED <<world, filter, central, known, poll, apiChan, pub, faults, crashes>>

(* GetPolicies, the mapping of the policies and the checksum.              *)
GetPolicies(w) ==
    LET ps == live[Job(w).api].policies
    IN  /\ At(w, "policies")
        /\ IF Incompatible(ps) THEN NextApi(w, <<>>)
           ELSE worker' = [worker EXCEPT
                    ![w].pc = "lookup",
                    ![w].proxy = None,
                    ![w].sum = [api |-> Job(w).api, content |-> Job(w).content,
                                proxy |-> worker[w].proxy,
                                config |-> Configuration(ps)]]
        /\ UNCHANGED <<world, filter, central, known, poll, apiChan, pub, faults, crashes>>

(* Mutant of PoliciesFail: no return after the error.                      *)
PoliciesFailIgnored(w) ==
    /\ At(w, "policies")
    /\ Fails("policies")
    /\ worker' = [worker EXCEPT ![w].pc = "lookup"]
    /\ UNCHANGED <<world, filter, central, known, poll, apiChan, pub, crashes>>

PoliciesFail(w) ==
    /\ At(w, "policies")
    /\ Fails("policies")
    /\ NextApi(w, <<>>)
    /\ UNCHANGED <<world, filter, central, known, poll, apiChan, pub, crashes>>

(* Mutant of Lookup: whatever the cache says, the API is published.        *)
LookupIgnored(w) ==
    /\ At(w, "lookup")
    /\ worker' = [worker EXCEPT ![w].pc = "save"]
    /\ UNCHANGED <<world, filter, central, known, poll, apiChan, pub, faults, crashes>>

(* isPublished: a checksum in the cache counts as published.               *)
Lookup(w) ==
    /\ At(w, "lookup")
    /\ IF worker[w].sum \in cache THEN NextApi(w, <<>>)
       ELSE worker' = [worker EXCEPT ![w].pc = "save"]
    /\ UNCHANGED <<world, filter, central, known, poll, apiChan, pub, faults, crashes>>

(* SetWithSecondaryKey, before anything of the detail is built.            *)
Save(w) ==
    /\ At(w, "save")
    /\ cache' = cache \cup {worker[w].sum}
    /\ worker' = [worker EXCEPT ![w].pc = "spec"]
    /\ UNCHANGED <<lost, world, filter, central, poll, apiChan, pub, faults, crashes>>

(* Mutant of BuildDetail: the detail is made of what the cache has for the *)
(* API, which may be a former state.                                       *)
BuildCached(w) ==
    /\ At(w, "spec")
    /\ \E c \in cache : /\ c.api = Job(w).api
                        /\ NextApi(w, IF Job(w).api \in WithSpec THEN <<c>> ELSE <<>>)
    /\ UNCHANGED <<world, filter, central, known, poll, apiChan, pub, faults, crashes>>

(* The Exchange asset, its specification file, the parser, the rewriting   *)
(* of the specification and the icon: without a usable specification there *)
(* is no detail and no error (SpecBuilding has these steps).               *)
BuildDetail(w) ==
    /\ At(w, "spec")
    /\ NextApi(w, IF Job(w).api \in WithSpec THEN <<worker[w].sum>> ELSE <<>>)
    /\ UNCHANGED <<world, filter, central, known, poll, apiChan, pub, faults, crashes>>

BuildFails(w) ==
    /\ At(w, "spec")
    /\ Fails("spec")
    /\ lost' = lost \cup {worker[w].sum}
    /\ NextApi(w, <<>>)
    /\ UNCHANGED <<world, filter, central, cache, poll, apiChan, pub, crashes>>

(* Mutant of Send: a detail the channel has no room for is dropped.        *)
SendOrDrop(w) ==
    /\ At(w, "send")
    /\ apiChan' = IF Len(apiChan) < ChanCap THEN Append(apiChan, Head(worker[w].out))
                  ELSE apiChan
    /\ worker' = [worker EXCEPT ![w] = Resume(<<>>, Tail(@.out))]
    /\ UNCHANGED <<world, filter, central, known, poll, pub, faults, crashes>>

(* Mutant of Send: the last place of the channel is left free.             *)
SendWithRoom(w) ==
    /\ At(w, "send")
    /\ Len(apiChan) + 1 < ChanCap
    /\ apiChan' = Append(apiChan, Head(worker[w].out))
    /\ worker' = [worker EXCEPT ![w] = Resume(<<>>, Tail(@.out))]
    /\ UNCHANGED <<world, filter, central, known, poll, pub, faults, crashes>>

(* The goroutine sends its details in order once all are built; a full     *)
(* channel blocks it.                                                      *)
Send(w) ==
    /\ At(w, "send")
    /\ Len(apiChan) < ChanCap
    /\ apiChan' = Append(apiChan, Head(worker[w].out))
    /\ worker' = [worker EXCEPT ![w] = Resume(<<>>, Tail(@.out))]
    /\ UNCHANGED <<world, filter, central, known, poll, pub, faults, crashes>>
-----------------------------------------------------------------------------
(* The publisher (publisher.Loop and publish).                             *)

Receive ==
    /\ pub = None
    /\ poll.pc \notin {"tags", "ignoreTags"}
    /\ apiChan # <<>>
    /\ pub' = Head(apiChan)
    /\ apiChan' = Tail(apiChan)
    /\ UNCHANGED <<world, filter, central, known, poll, worker, faults, crashes>>

Publish ==
    /\ pub # None
    /\ central' = Append(central, pub)
    /\ pub' = None
    /\ UNCHANGED <<world, filter, known, poll, worker, apiChan, faults, crashes>>

(* The error is logged and the detail forgotten.                           *)
PublishFails ==
    /\ pub # None
    /\ Fails("publish")
    /\ lost' = lost \cup {pub}
    /\ pub' = None
    /\ UNCHANGED <<world, filter, central, cache, poll, worker, apiChan, crashes>>
-----------------------------------------------------------------------------
(* The process ends and everything it held in memory with it.              *)
Die == /\ poll' = Stopped("down")
       /\ worker' = [w \in Workers |-> Idle]
       /\ apiChan' = <<>>
       /\ pub' = None
       /\ cache' = {} /\ lost' = {}

Crash ==
    /\ poll.pc # "down"
    /\ crashes < MaxCrashes
    /\ crashes' = crashes + 1
    /\ Die
    /\ UNCHANGED <<world, filter, central, faults>>

(* An error of GetAPI is logged, then the missing answer is dereferenced:  *)
(* the panic of one goroutine ends the process.                            *)
GetAPIPanics(w) ==
    /\ At(w, "detail")
    /\ ShouldDiscover(filter, Job(w).content.endpoint, Job(w).content.tags)
    /\ Fails("detail")
    /\ Die
    /\ UNCHANGED <<world, filter, central, crashes>>

Restart ==
    /\ poll.pc = "down"
    /\ poll' = Stopped("revisions")
    /\ filter' = Cleaned(configured)
    /\ UNCHANGED <<world, central, known, worker, apiChan, pub, faults, crashes>>
-----------------------------------------------------------------------------
Poller == GetRevisions \/ ListPage \/ ListFails \/ HandOut \/ PageDone \/ Tick

Handler == StopPolling \/ StopPublishing \/ SetTags \/ SetIgnoreTags

Process(w) == \/ SkipUnwanted(w) \/ GetAPI(w) \/ GetPolicies(w) \/ PoliciesFail(w)
              \/ Lookup(w) \/ Save(w) \/ BuildDetail(w) \/ BuildFails(w) \/ Send(w)

Publisher == Receive \/ Publish \/ PublishFails

Next == \/ \E a \in Apis : Edit(a)
        \/ Relist
        \/ Reconfigure
        \/ Poller
        \/ Handler
        \/ \E w \in Workers : Process(w) \/ GetAPIPanics(w)
        \/ Publisher
        \/ Crash
        \/ Restart

Spec == Init /\ [][Next]_vars

(* Every goroutine that can run eventually does.  The select of a loop     *)
(* picks at random among a tick and a stop, so a stop is not passed over   *)
(* for ever.  The process is restarted by whatever supervises it.          *)
Processed(w) == WF_vars(Process(w))
AllProcessed == \A w \in Workers : Processed(w)
Fairness == /\ WF_vars(Poller)
            /\ SF_vars(Handler)
            /\ AllProcessed
            /\ WF_vars(Publisher)
            /\ WF_vars(Restart)

FairSpec == Spec /\ Fairness
-----------------------------------------------------------------------------
(* Type invariant of the pipeline.                                         *)
WorkerType == [pc : {"idle", "detail", "policies", "lookup", "save", "spec", "send"},
               todo : Seq(Entry), proxy : Proxies \cup {None},
               sum : Checksum \cup {None}, out : Seq(Checksum)]

(* What a goroutine has read so far belongs to the API it is looking at.   *)
WorkerState ==
    {r \in WorkerType :
        /\ r.pc = "idle" => r.out = <<>>
        /\ r.pc \in {"detail", "policies", "lookup", "save", "spec"} => r.todo # <<>>
        /\ r.pc = "policies" => r.proxy \in Proxies
        /\ r.pc \in {"lookup", "save", "spec"} =>
             r.sum \in Checksum /\ r.sum.api = Head(r.todo).api
        /\ r.pc = "send" => r.out # <<>>}

PollStates == {"down", "revisions", "list", "hand", "sleep", "stopping", "tags", "ignoreTags"}

TypeOK ==
    /\ live \in [Apis -> Live]
    /\ seen \in [Apis -> [content : SUBSET Contents, proxy : SUBSET Proxies,
                          policies : SUBSET PolicyLists]]
    /\ listing \in Listings
    /\ configured \in TagConfigs
    /\ filter \in TagLists
    /\ central \in Seq(Checksum)
    /\ cache \subseteq Checksum /\ lost \subseteq Checksum
    /\ poll \in [pc : PollStates, offset : Nat, page : Seq(Seq(Entry)), more : BOOLEAN]
    /\ worker \in [Workers -> WorkerState]
    /\ apiChan \in Seq(Checksum) /\ Len(apiChan) <= ChanCap
    /\ pub \in Checksum \cup {None}
    /\ edits \in 0..MaxEdits /\ faults \in 0..MaxFaults /\ crashes \in 0..MaxCrashes

(* What is on its way to Central: being built, built, queued or sent.      *)
Building == {worker[w].sum : w \in {v \in Workers : At(v, "spec")}}
Built == UNION {Elements(worker[w].out) : w \in Workers}
InFlight == Building \cup Built \cup Elements(apiChan) \cup ({pub} \ {None})

(* A checksum in the cache makes every later pass skip its API, so it must *)
(* be in Central already, still be on its way there, or have been dropped  *)
(* by a call that failed after the cache write and nothing else; APIs      *)
(* without a specification are exempt.                                     *)
CacheAccounted ==
    \A c \in cache : c.api \in WithSpec => c \in Elements(central) \cup InFlight \cup lost

(* Once the revisions of Central are loaded, the agent recognises every    *)
(* revision it has published and everything it is about to publish, before *)
(* and after a crash: a later pass can only add what is new.               *)
RevisionsKnown ==
    poll.pc \notin {"down", "revisions"} =>
        Elements(central) \cup InFlight \subseteq cache

(* Central never receives the same checksum twice.  Between the lookup and *)
(* the save of the cache nothing keeps a second goroutine of the same API  *)
(* out, so this rests on passes that do not overlap and on a list that     *)
(* does not push an asset from one page to the next during a pass.         *)
NoDuplicateRevision ==
    \A i, j \in DOMAIN central : central[i] = central[j] => i = j

(* When passes do overlap, the goroutines that look a checksum up before   *)
(* one of them saves it are the only ones to publish it: no later pass     *)
(* repeats it, nor does a later run of the process, unless the revisions   *)
(* of Central could not be loaded into its cache.                          *)
Copies(c) == Cardinality({i \in DOMAIN central : central[i] = c})
OncePerGoroutine ==
    \A c \in Elements(central) : Copies(c) <= Cardinality(Workers) * (1 + faults)

(* "Published with the latest changes": when the agent has nothing on its  *)
(* way and counts an API as published, because its present state is in     *)
(* Central, that state is the latest revision of the API there.            *)
Latest(a) == CHOOSE i \in DOMAIN central :
                 /\ central[i].api = a
                 /\ \A j \in DOMAIN central : central[j].api = a => j <= i
InOrder(a) == Current(a) \in Elements(central) => central[Latest(a)] = Current(a)
LatestIsCurrent == poll.pc = "sleep" /\ Drained => \A a \in Apis : InOrder(a)

(* What has been read of an API and is under way: the list entries to be   *)
(* looked at, what goroutines have read since, and the details.            *)
ToDo == UNION {Elements(worker[w].todo) : w \in Workers}
Entries == ToDo \cup UNION {Elements(poll.page[i]) : i \in DOMAIN poll.page}
EntriesFresh(a) == \A e \in Entries : e.api = a => e.content = live[a].content
WorkFresh(a) ==
    \A w \in Workers :
        /\ At(w, "policies") /\ Job(w).api = a => worker[w].proxy = live[a].proxy
        /\ worker[w].pc \in {"lookup", "save", "spec"} /\ worker[w].sum.api = a =>
              worker[w].sum = Current(a)
Leaving == Built \cup Elements(apiChan) \cup ({pub} \ {None})
LeavingFresh(a) == \A c \in Leaving : c.api = a => c = Current(a)
NothingOlder(a) == EntriesFresh(a) /\ WorkFresh(a) /\ LeavingFresh(a)

(* Only a reading of an earlier state, on its way since before the API was *)
(* changed, can get behind the present state in Central.  Once none is     *)
(* left anywhere and the latest revision is right, it stays right until    *)
(* the API changes again, however many passes overlap, whichever calls     *)
(* fail, and over a restart: nothing former is taken up again, not from    *)
(* the cache nor from the revisions that are loaded into it.               *)
StaysInOrder ==
    [][\A a \in Apis : live'[a] = live[a] /\ NothingOlder(a) /\ InOrder(a) =>
                            NothingOlder(a)' /\ InOrder(a)']_vars

(* Work never stops: passes begin again and again, in the end with the     *)
(* tags that are configured, and end; every goroutine ends, as none waits  *)
(* for a place in the channel for ever; what is in the channel is taken    *)
(* out and published.                                                      *)
PassBegins == poll = Stopped("list")
InForce == filter = Cleaned(configured)
Returns(w) == <>(worker[w].pc = "idle")
EachReturns == \A w \in Workers : Returns(w)
PassesGoOn == /\ []<>(PassBegins /\ InForce) /\ []<>(poll.pc = "sleep")
              /\ []EachReturns
              /\ []<>(apiChan = <<>>) /\ []<>(pub = None)

(* No part of the agent is ever stuck: the poller waits for a goroutine    *)
(* that is free, for the end of its interval and, should passes not        *)
(* overlap, of the last pass; a change waits for the publisher, a sender   *)
(* for room in the channel, the publisher for a detail; nothing else makes *)
(* any of them wait.  This is what the proof of PassesGoOn takes from the  *)
(* meaning of ENABLED.                                                     *)
MayBegin == poll.pc = "sleep" /\ (Overlap \/ Drained)
CanPoll == \/ poll.pc \in {"revisions", "list"} \/ MayBegin
           \/ poll.pc = "hand" /\ (poll.page = <<>> \/ \E w \in Workers : At(w, "idle"))
CanChange == \/ MayBegin /\ ~InForce
             \/ poll.pc = "stopping" /\ pub = None
             \/ poll.pc \in {"tags", "ignoreTags"}
CanProcess(w) == ~At(w, "idle") /\ (At(w, "send") => Len(apiChan) < ChanCap)
CanPublish == pub # None \/ (apiChan # <<>> /\ poll.pc \notin {"tags", "ignoreTags"})
NeverStuck ==
    /\ CanPoll => ENABLED <<Poller>>_vars
    /\ CanChange => ENABLED <<Handler>>_vars
    /\ \A w \in Workers : CanProcess(w) => ENABLED <<Process(w)>>_vars
    /\ CanPublish => ENABLED <<Publisher>>_vars
    /\ poll.pc = "down" => ENABLED <<Restart>>_vars

(* Once the APIs and their list stop changing and the faults are over,     *)
(* every API that is to be discovered reaches Central in its current state *)
(* and the agent has nothing to add.  Only a failure after the cache write *)
(* excuses an API, and a restart takes the excuse away: the cache is       *)
(* rebuilt from the revisions that Central really has.                     *)
Synced(a) == Eligible(a) => Current(a) \in Elements(central) \cup lost
SyncedForGood(a) == <>[]Synced(a)
EventuallySynced == \A a \in Apis : SyncedForGood(a)

(* "Published with the latest changes" as a promise: once the APIs stop    *)
(* changing, the latest revision of every API to be discovered comes to be  *)
(* its current state.                                                       *)
EventuallyLatest ==
    <>[](\A a \in Apis : Eligible(a) => /\ Current(a) \in Elements(central)
                                       /\ central[Latest(a)] = Current(a))

(* The pipeline keeps the promise of RevisionLedger, with the revisions in *)
(* Central as the ledger: at most once, only what was really there, and    *)
(* eventually what is there now.                                           *)
Ledger == INSTANCE RevisionLedger WITH ledger <- central
KeepsLedger == Ledger!FairSpec
=============================================================================
