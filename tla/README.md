# Formal models of the Mulesoft agents

TLA+ specifications, TLC instances and TLAPS proofs for `agents-mulesoft`: two Go
agents that connect the Mulesoft Anypoint Platform with Amplify Central. The
*discovery agent* finds API instances in the API Manager, publishes them to
Central and provisions applications, contracts and credentials on request of
consumers. The *traceability agent* reads metrics of those APIs and reports them.

## 1. The system

| part | source | state | operations | hard about it |
|---|---|---|---|---|
| poller | `pkg/discovery/discover.go` | page offset of a pass, ticker, stop channel | load revisions, a pass at every tick, a goroutine per listed asset | passes overlap, goroutines are not waited for, errors end a pass like a short page |
| service handler | `pkg/discovery/servicehandler.go` | the shared cache of checksums | filter, read API and policies, look the checksum up, save it, build the detail | lookup and save are not atomic, the save precedes everything that can still fail, checksums are never removed, a nil dereference after a failed `GetAPI` |
| specification building | `servicehandler.go`, `client.go`, `types.go` | none; one handling per API | read the policies, choose a file of the Exchange asset, download, parse, rewrite its security | files come in any order, conversions are told by a name, the offer of credentials and the security of the document are made by different ways |
| publisher | `pkg/discovery/publish.go` | the queue `apiChan` (5 details), stop channel | receive, publish | errors are logged and the detail dropped |
| agent | `pkg/discovery/agent.go` | the loops that run, the handler of configuration changes, the signal | Run, onConfigChange, Stop | blocking sends to loops that are busy; a change and a signal at once; a polling loop that does not return |
| authentication | `pkg/anypoint/authentication.go` | token, user, timer, stop channel per auth object | login, refresh at 75%, retry, stop | goroutines of former configurations; token expiry against retries |
| REST client | `pkg/anypoint/client.go` | configuration, current auth and environment | calls, OnConfigChange | a failed login ends the process |
| provisioning | `pkg/subscription` | none of its own; Anypoint and Central hold it | application, access and credential requests | several remote calls per request, any of which may fail; retries |
| metric emitter | `pkg/traceability/muleemitter.go`, `pkg/anypoint/monitoring.go` | last run per asset (persisted) | health check, one run over all APIs | an error ends the run in the middle; a restart between reading, saving and handing over; unsorted metrics; days of the archive |
| traceability agent | `pkg/traceability/agent.go`, `credential.go` | event report, credential cache | process events, config changes | cache filled and read by different goroutines |
| configuration, commands, helpers | `pkg/config`, `pkg/cmd`, `pkg/common` | none after start | parse, validate, construct | - |

Interaction. The poller hands assets to goroutines of the service handler, these
share one cache and feed one channel; the publisher empties it. The agent stops and
restarts both loops through unbuffered channels when the SDK announces a new
configuration, and tells the client to log in again in between. The SDK
(`agent-sdk`), Central and Anypoint are outside `src/` and appear as their answers.
`PROJECT.json` lists every hazard at its line.

What makes each part correct: the pipeline publishes each state of each
discoverable API once, in order, and the present state in the end; what is published
is the best specification there is and demands what consumers are offered; the lifecycle
never has two publishers, never ends idle and always ends a change or a shutdown;
the authentication never lets the token expire and never has two refreshers; what
provisioning reports to Central is what Anypoint has, and what it cannot account for
does not exceed the calls that failed; reporting counts each request to an API once and
loses none between two windows.

## 2. The modules

| module | models |
|---|---|
| `DiscoveryFilter` | tags and endpoint filter; case folding and trimming as functions on tags |
| `PolicyMapping` | policies to authentication kinds, configuration and credential kind |
| `RevisionLedger` | abstract: an append-only ledger of readings, each entry once, current states in the end |
| `DiscoveryPipeline` | poller, goroutines, cache, channel, publisher, configuration changes, crashes, restarts; implements `RevisionLedger` |
| `MCDiscoveryPipeline` | values for the runs of the pipeline |
| `SpecBuilding` | one API from its policies to the rewritten specification: the steps `DiscoveryPipeline` takes as `GetPolicies` and `BuildDetail` |
| `MCSpecBuilding` | values for the runs of `SpecBuilding` |
| `TokenRefresh` | every auth object with its goroutine and timer, `client.OnConfigChange`, time |
| `AgentLifecycle` | loops, stop channels, `onConfigChange`, `Run`, `Stop`; extends `TokenRefresh` and implements it |
| `Provisioning` | the requests of consumers as sequences of calls to Anypoint, the SDK that runs them, crashes |
| `MCProvisioning` | values for the runs of provisioning |
| `MetricReporting` | runs of the metric emitter, the event loop of the traceability agent, restarts |
| `MCMetricReporting` | values for the runs of reporting |
| `DiscoveryPipelineProofs`, `DiscoveryLedgerProofs`, `SpecBuildingProofs`, `TokenRefreshProofs`, `AgentLifecycleProofs`, `ProvisioningProofs`, `ProvisioningLossProofs`, `MetricReportingProofs` | theorems |

**DiscoveryPipeline.** Every remote read, cache access and channel operation is a
step: a goroutine goes `detail` (filter, `GetAPI`), `policies` (`GetPolicies`, mapping,
checksum), `lookup` (`isPublished`), `save` (`SetWithSecondaryKey`), `spec` (Exchange
asset, file, parser, icon), and when all APIs of its asset are through, `send`. A
checksum is the record of what the hash covers: the list entry, the proxy path that
`GetAPI` adds, and the configuration of the policies; hash collisions are left out.
The cache is a set, as it is only asked whether it has a checksum. `GetAPIPanics` is
the nil dereference after a failed `GetAPI`; it ends the process, as does `Crash`; what was
in memory is gone, `Restart` loads the revisions of Central again. Central answers with
all revisions it holds. The list of the API Manager changes (`Relist`), as do the entries in it
(`Edit`), between any two requests, so that a page may skip an asset or repeat it. When
other tags are configured (`Reconfigure`), the handler stops the poller and the publisher where they
wait for work, replaces the two lists of the service handler one after the other
(`SetTags`, `SetIgnoreTags`) and starts both again; goroutines, queue and cache are as they
were. There is one such change, as a second one may leave two polling loops (finding 2, in
`AgentLifecycle`), and this model has one. `lost`
remembers, for the properties only, what `BuildFails` and `PublishFails` dropped after the
cache write; it is forgotten with the process, as the cache is. What `BuildDetail` finds in
Exchange is fixed per API (`WithSpec`); `SpecBuilding` has the steps, and its
`BestIsDelivered` is what the fixed outcome stands for: a detail or an error if there is a
supported file, nothing otherwise.

**SpecBuilding.** `getServiceDetail` after the look-up of the API: `GetPolicies` (once more for
the older API, `ArrayAnswer`), `GetExchangeAsset` with the choice of the file,
`GetExchangeFileContent`, `Parse`, `UpdateSpec`, `GetExchangeAssetIcon`; any call may
fail (`CallFails`). The look-up in the cache lies in between and changes nothing here. A content
is what the parser makes of it, and whether Exchange converted it from RAML; a rewritten
specification is its schemes and its requirements with their scopes. Titles, hosts,
token addresses and what operations demand of their own are left out. sort.Sort is taken as
stable, which it is for up to twelve files.

**TokenRefresh.** The goroutine of an auth object does not return when it is stopped,
so all of them stay in `auths`. Time passes in units; a unit passes only when no timer
is due, and no login or refresh is under way.

**AgentLifecycle.** A loop is named by what started it. A value on a stop channel is
taken by any loop of its kind that is in its select. The polling loop, whose stop
case does not return, is `deaf` afterwards but goes on taking stops. The token is that
of `TokenRefresh`, its actions are the client's steps.

**Provisioning.** `managed`, `request` and `credential` are what Central has,
`apps`, `contracts` and `tiers` what Anypoint has, `job` is the one handler that runs:
the SDK calls one handler at a time and writes its outcome to the resource (`Report`).
A handler starts by the action named after it (`AccessRequestProvision` and so on),
each remote call is an action after that. A call succeeds, fails without effect, or
takes effect and fails all the same (a lost answer); the calls of `CreateContract` that
only read are one step with it. IDs are positions in the sequences, 0 the empty ID.
Names, tier limits, the type of a credential and what the SDK passes on unchanged are
left out; `CredentialDeprovision` answers without doing anything. What Anypoint does
with the contracts of a deleted application is external and taken from the comment at
`provision.go:47`. A job that crashes is gone, the resource stays as it was and is handled again.

**MetricReporting.** A run (`Begin`) visits the API instances in any order; a visit asks
Anypoint (`Query`, `NotFound`, `QueryFails`), sends the metrics one by one (`Emit`), saves
the time of the last report (`SaveLastRun`); `Complete` hands the report to the SDK. The
event channel has no buffer, so sending and `processEvent` are one step. A metric is the
set of requests it counts, which makes "lost" and "twice" visible. `unread` remembers
which files of a query failed, for the properties only. The archive shows a time once it
is over, in the folder of its day; an empty day is an empty list or a 404. That the SDK empties the report it is handed
is assumed. `Restart` also stands for `Stop` and signals: `Run` returns, the report in
memory is gone. Left out: what a metric says beyond the count, and the job's `Status` and
`Ready`, which only delay runs.

Definitions whose comment begins with "Mutant of" are deliberately wrong variants of
the action that follows; PROJECT.json says which property each of them breaks.

## 3. The runs

| run | checks | shows |
|---|---|---|
| `Pipeline_serial` | `TypeOK`, `NoDuplicateRevision`, `RevisionsKnown`, `NeverStuck`, `KeepsLedger`, `PassesGoOn` | with passes that do not overlap and a list that shrinks: each revision once, also over a crash and a change of the configured tags; refinement of `RevisionLedger` with its liveness; no part of the agent is stuck, passes, goroutines and publications begin and end for ever |
| `Pipeline_delivery` | `CacheAccounted`, `OncePerGoroutine`, `StaysInOrder`, `EventuallySynced` | despite overlap, a list whose order changes, other tags being configured, any failing call, the panic and a crash: every cached checksum is in Central, on its way or was dropped by a failed call; everything else is delivered, and what was dropped is delivered after a restart; what is published last falls behind only by readings that were under way; a checksum is repeated only by goroutines that looked it up before it was saved |
| `Pipeline_overlap` | violates `LatestIsCurrent` | a slow goroutine of an earlier pass publishes a former state last, and it stays: finding 6 |
| `Pipeline_undone` | violates `EventuallyLatest` | a change that is undone is never published: finding 1 |
| `SpecBuilding` | `TypeOK`, `BestIsDelivered`, `ConversionIsTold`, `CredentialFits` | of up to three files in any order the best one is published, a conversion is told, and the security published fits the credential offered |
| `AgentLifecycle` | `TypeOK`, `TokenTypeOK`, `AtMostOnePublisher`, `NeverIdle`, `OneRefresher`, `TokenFresh`, `WaitsAreMet`, `ChangeCompletes`, `ChangeEnds`, `ShutdownCompletes`, `PollingContinues` | changes, failing logins and a signal at any moment; whoever waits is met; `TokenRefresh` is checked within it |
| `AgentLifecycle_stop` | violates `StoppedWhileChanging` | the stop of a second change may go to a loop already stopped: finding 2 |
| `Provisioning` | `TypeOK`, `LeaksBounded`, `AccessIsReal`, `RemovedIsGone`, `OneTier`, `SecretHeld`, `NeverStuck`, `RequestsAnswered` | requests granted, rotated and removed in any order, a failure and a crash anywhere; a handler has a next step whatever failed before, and everyone is answered |
| `Provisioning_unrecorded` | violates `NotYetProvisioned` | an application whose ID was not written back outlives its removal: finding 3 |
| `MetricReporting` | `TypeOK`, `NotCountedTwice`, `NeverStuck`, `WindowLosesNothing`, `EventuallyReported`, `RunsGoOn` | either source, a failed call, an unreadable file or a restart anywhere: nothing lost between windows, nothing twice, no run is stuck, everything owed is reported |
| `MetricReporting_shared` | violates `StartTimePerApi` | APIs of one asset share one time of the last report: finding 4 |
| `MetricReporting_midnight` | violates `Gathered` | reporting from the archive stops at the end of a day: finding 5 |

Bounds. Two APIs, in one asset (details of one goroutine, sent in order) or two (two
goroutines, pages); two goroutines at a time, enough for a race; a page of one asset,
so that the list has a full last page; a channel of one, so that senders block; one or
two edits, one failing call, one crash. The edit of `Pipeline_delivery` may change the proxy address, after which the API is
published again, or its tags, which may hide it. A list may shrink (the API of the second asset comes to be
one of the first) or change its order (an asset moves to the next page); the latter lists an
asset twice in a pass, which may publish a revision twice, so the run about
duplicates has the shrinking one. The tags configured at first hide one of the APIs and then do
not (`Pipeline_delivery`), or they come to hide both (`Pipeline_serial`). What `lost` excuses is the code's
behaviour: a call that fails after the checksum was cached is not made again before the process is
restarted. `Overlap` says whether a pass, or the handling of a configuration change, may begin while the
last pass is still processed; FALSE is an assumption on the poll interval and on when somebody
configures, which the code does not enforce. Only `NoDuplicateRevision` and `KeepsLedger`, in
`Pipeline_serial`, need it: two goroutines that look the same checksum up at once publish it twice, and a slow
one publishes a former state last (finding 6). `Pipeline_delivery` has passes that overlap. Its
properties about order and delivery were checked besides on one API with two edits, which
undo each other or tear a reading (433 thousand states, 2 minutes).
`Revert` says whether an edit may bring back a former value; FALSE in `Pipeline_serial` and
`Pipeline_overlap`, where finding 1 would interfere; `EventuallySynced` asks only that the present state
has been published. The lifetime of the token is 12 units of 10 seconds, room for two retries in the last
quarter; one change after another, two in all, suffice for three generations of goroutines.
Provisioning has one application with
two requests for the same API, one with and one without a tier of its own, and a
credential: enough for two handlers to meet at the application, the tier and the
contracts in every order. With one failure and one crash each property is
exercised by each of them and by both. `RemovedIsGone` counts: a failed revocation or deletion
(`provision.go:48`) is logged, the removal is reported, and the contract may stay in force, but
nothing else leaves one. `SecretHeld` allows for a reset whose answer was lost: Central has that credential
as failed. `faults = 0` in `AccessIsReal` leaves out what a failed call does, of which finding 3 shows
a part. The safety properties were also checked with two credentials
of the application, which share its secret, two failures and two rotations (4 million states).
In `SpecBuilding`, three files suffice: the choice compares files two by two, and the third
one is in front of, between or behind them; the policies are every kind with and without scopes,
two kinds in both orders, two of one kind, and the older form. Reporting has an API
that is called and an idle one, two requests at five times, days of four: two unsorted metrics
fit between two reports, and the day changes. `EventuallyReported` allows one fault (a
failed call, file or a restart) per run, before, between and in the runs of the emitter;
it asks only for requests of the day of the last report, finding 5 for the others, and
`NotCountedTwice` lets the data base count the requests at a boundary twice, as both ends of
its ranges are included. In the passing run each API has an asset of its own.
Deadlock is not checked where a failed login or the shutdown ends the process, and in
`SpecBuilding`, whose handling ends.

Fairness. In the pipeline, weak fairness of each goroutine: Go runs every runnable
goroutine, and requests are answered or fail. In the lifecycle it is enough that some goroutine of a
kind that can step does (`EndPass`, `GoOn`); with several loops of a kind none of them is
promised a turn. Strong fairness of the sends on stop channels: the
receiver is in its select again and again and Go's select chooses at random
among ready cases, so a waiting sender is met. `Restart` is fair: both agents run
under a supervisor. In provisioning the calls are weakly
fair, as they are answered or fail, and each handler strongly (`AllServed`): the SDK takes events in
the order they came, so no request is overtaken for ever. Each API is visited again and again
(strong fairness), as the keys come from a Go map, whose order varies: a 404 of an idle API ends
the run, and in a fixed order it would hold up the APIs behind it for good. Edits, requests of consumers, failures, crashes, changes and signals are never fair.

## 4. What is proved

All for every value of the constants that satisfies the stated assumptions.

* `TypeCorrect`, `CacheIsAccountedFor`, `RevisionsAreKnown` (pipeline). The last two
  are conjoined with the type invariant, in which `WorkerState` carries what a
  goroutine has at each step (for instance that the checksum being saved belongs to the API at
  hand); without it, `NextApi` could not be shown to keep a detail on its way. The first assumes
  nothing, the second that loading the revisions does not fail. Nothing is assumed about
  overlap or about the lists: the two hold for any number of goroutines. As a configuration change
  loads the revisions while goroutines are at work, the second one needs that what is on its way
  is in the cache at any time (`Known`).
* `RevisionsAreUnique`, `PipelineKeepsLedger` (pipeline), from
  the assumptions `Serial` (passes do not overlap, the list changes at most once, the revisions
  can be loaded), `ListsOnce` (no list names an API twice) and `NothingMovesBack` (a changed
  list moves no API to a later place). Without the first, two goroutines look the same checksum up before
  either saves it; without the last, a pass meets an API a second time. The argument: `ApisApart` keeps
  the APIs in goroutines, on the page and in the rest of the list disjoint, so that
  `OncePlaced` can have each detail in one place between `save` and Central. The
  refinement (safety only) adds `AllReal`: what a goroutine holds is, part by part, a value the API had, and
  passed a configured filter, also while a configuration change replaces one tag list after the
  other.
* `StragglersOnly` (pipeline), about the order of revisions, which finding 6 shows is not kept in general.
  Nothing is assumed about overlap, lists or failures: while an API does not change, and once no older
  reading of it waits on a page (`EntriesFresh`), in a goroutine (`WorkFresh`) or on its way to Central
  (`LeavingFresh`), none comes up again, and what is published of it last remains its present state. Each
  of the three is kept by a step if the one before it was true; then only what is in the channel or with the publisher can
  extend Central (`InOrderStep`). That Central's latest revision of an API exists if
  it has one at all comes from the library's well-founded induction (`LatestFound`).
* `BuildingTypeCorrect`, `BestFileIsDelivered`, `ConversionIsTagged`, `CredentialAlwaysFits`
  (specification building), for any assets and policies, from the conjunction `Inv`: which
  file was chosen, what was read from it, and that offer and document come from the same
  configuration. `FirstIsBest` shows what the sort puts first; that a least place exists comes from
  the library's well-founded induction. Assumed are the form of assets
  (`SpecAssumption`) and how Exchange names conversions (`ConversionAssumption`, taken from
  the comments in `client.go` and `servicehandler.go`).
* `TokenTypeCorrect`, `OnlyNewestRefreshes`, `TokenStaysFresh` (token). `OneRefresher` is
  inductive with the types. Freshness needs an invariant on age plus timer: the next
  attempt comes before the end of the lifetime less the retries left; it assumes
  `RetriesFit`, that the allowed failures fit in the last quarter.
* `LifecycleTypeCorrect`, `PublishersExclude` (lifecycle): at most one handler is past
  `Arrive`, and a publishing loop is started only by the handler that saw the
  former one return; `AgentKeepsWorking`: only a handler that is between its stop and its
  start leaves the agent without a loop; `LifecycleImplementsToken` (each step is a step of `TokenSpec` or
  stutters), from which `AgentHasOneRefresher` follows.

* `ProvisioningTypeCorrect`, `TiersAreMadeOnce`, `GrantedAccessIsReal`
  (provisioning), for any number of applications, requests, failures and crashes.
  The type invariant needs `JobOK`, what a handler works on at each of its calls, and
  `CredentialOK`, by which a rotation always has an application. `OneTier` needs that a
  handler that found no tier is still right about it. Access needs `AccessInv`: who owns applications and
  contracts (`Ownership`), the state a resource is in while its handler runs (`Claims`), and
  how far the handler has got (`JobAhead`); without `Ownership` the removal of one request
  could not be shown to leave the contract of another alone.

* `SecretIsHeld`, `LeaksAreBounded`, `RemovalIsReal` (provisioning). That the secret of an application is
  held is `SecretInv`: one credential with the present secret remains (`SomeCurrent`) while a
  handler works, as the SDK runs handlers one by one and a rotation is marked on its
  credential before the secret is reset (`SecretJob`); one whose reset failed stays marked as failed. The bound on leaks counts:
  a step adds at most one application nobody knows of, and then a call failed or the process
  crashed. `CreationJob` has the handler record an application only where none is recorded, so
  that it forgets none, `RemovalJob` and `GoneAreDead` that a resource goes only after its applications.
  Contracts that stay in force are counted the same way (`KeptByFailures`): as a deleted contract stays
  deleted, a step adds one only if its call fails.

* `ReportingTypeCorrect`, `RequestsCountOnce`, `NothingBetweenWindows` (reporting), for any
  instances, days, requests and faults. `Counts` bounds the counts of a request by the time of the last
  report, with the report and without it, as a restart drops the report at any
  moment; `Fresh` says that what is still to be sent has not been counted; `Window` that
  what the last report has passed is in the report, unread or still to be sent. The last
  theorem assumes that no two APIs share an asset, which is finding 4. The days need
  only be monotone: what lies between two times of a day is of that day.

### Liveness

Every liveness property of the passing runs is a theorem too. Two things are out of the provers' reach,
and each enters as a hypothesis that is written out:

* ENABLED, for which TLAPS has no rule. `WaitsAreMet` (lifecycle) and `NeverStuck` (provisioning,
  pipeline, reporting) say in which states an action is enabled, in terms of guards; TLC checks them
  as invariants of the runs (that of the pipeline for overlapping passes too, on `Pipeline_delivery`,
  in 2.5 minutes).
* Induction over data. `Settles(S)` says that a finite set from which elements are only
  taken stays what it is in the end. It is true of every behaviour and every `S`, so it rules nothing out; the
  theorems name the sets for which they need it (`AllSettle`: the edits, faults and crashes left; the
  checksums still to be saved, the details still to be sent, the queue; the APIs in the hands of a
  goroutine, the rest of the list, the page, the goroutines at work; `Left` and `Unsent` in
  reporting). That these sets are finite and lose elements is proved.

The theorems of the pipeline take `[]Fairness` for `Fairness`. The two are the same, as weak and strong
fairness hold at every point of a behaviour or at none, but the provers do not move `[]` into a
quantifier. From there on the provers do the rest: one lemma says what a step does to what is
waiting, and the temporal step combines these.

* `ChangesComplete`, `ChangesOfClientEnd`, `ShutdownsComplete`, `PollingGoesOn` (lifecycle), from
  `FairSpec` and `[]WaitsAreMet`: an action that a waiting party needs is enabled once its partner is in
  its select. They hold for any number of changes that arrive, with a login for each
  (`RoomForChanges`) and tokens that live (`TokensExpire`, the opposite being a refresher that
  spins). The difficult part is a stop value taken by a loop of an earlier change: for the handler
  any loop will do, so that the proof counts no generations, only that one loop of each kind is left
  (`AgentKeepsWorking`). `LoginsLeft` shows that a change always has a login left.
* `EveryoneIsAnswered` (provisioning), from `FairSpec`, `[]NeverStuck` and `<>[][~Crash]_vars`: a handler
  that runs goes through its calls to `Report`, whatever fails, since no call comes back to one before
  it. If the agent crashes for ever, nobody has to be answered.
* `PassesSync`, `PassesSettleLedger` (pipeline), from `Spec`, `PassesGoOn` (passes begin with the
  tags in force and end, each goroutine ends, the channel and the publisher are empty, again and again) and
  `<>[][Quiet]_vars`, that Mulesoft and the configuration stop changing and calls stop failing. The argument is `PassInv`,
  which begins to hold with a pass from the first page: each API that the list has
  before the offset is in the cache, on the page or in the hands of a goroutine, in its present
  state. At the end of the pass no page is left (`PassEndCatches`); the goroutine ends and so has brought
  the API to the cache (`CaughtComes`); from there `CacheIsAccountedFor` says where it is, and each
  place empties into the next up to Central (`CachedComes`). Nothing is assumed about overlap: the
  work of former and later passes only adds to the cache. `PassesSettleLedger` adds that nothing fails
  behind the cache write (`BuildsSucceed`) and, with `PipelineKeepsLedger`, gives all of `KeepsLedger`. `LatestComesLast` joins `PassesSync` and the step of
  `StragglersOnly`: if at some time in this calm nothing older of an API is under way and none was published behind
  its present state, its latest revision in Central comes to be that state and stays it. Finding 6 is what the
  hypothesis excludes, and with the model's `Restart` nothing is under way.
* `PassesContinue` (pipeline), from `Spec`, `[]Fairness`, `[]NeverStuck` and `[]AllSettle`, for finitely many
  goroutines and checksums (`FewWorkers`): `PassesGoOn`, with overlapping passes too. The argument
  is a chain in which each link rests on the former ones. The bounds on edits, faults and crashes
  run out (`RunFallsQuiet`); a change of the configuration that is under way ends, as the publisher comes
  free, and no other begins once the tags in force are those configured (`ChangesEnd`); each goroutine
  that saves a checksum takes it from a finite set (`NewEnds`), so that no detail is built any more; those
  built are sent (`SendsEnd`), as the publisher makes room whenever the queue is full (`FillsOnly`);
  the queue empties (`QueueEmpties`). Then a goroutine only looks through its APIs and ends
  (`WorkerReturns`), the poller finds a free one for each asset of each page and comes to the end of the
  list (`PassesEnd`), and the next pass begins (`PassesBegin`). None of these could be shown first: while
  new details come, a sender waits for room, a pass waits for the sender, and a change for the pass.
* `OffersReachCentral` and `OffersSettleLedger` put this together with `PassesSync` and
  `PassesSettleLedger`: `EventuallySynced` and `KeepsLedger` follow from fairness, nothing is
  assumed about passes. That Mulesoft comes to rest is the model's bound on edits, faults and crashes (any
  numbers); `PassesSync` states what holds once they are over without that bound.
* `RequestsAreReported` (reporting), from `Spec` and `RunsGoOn`: a request that is owed stays owed
  until the window passes it (`OwedStep`, which rests on `WindowKept`); a run that begins thereafter asks
  for a range that includes it (`InTimeStep`), the next visit finds it (`VisitFinds`), and from
  the metrics it gets into the report (`UnderwayStep`) and to the SDK (`ReportStep`). No API may share its asset (finding 4).
* `RunsContinue` (reporting), from `FairSpec`, `NeverStuck` and `Settles`, for finitely many APIs and status
  codes (`FewApis`): `RunsGoOn`. A run that never ends would visit each API once, so that those left
  settle (`LeftComesToRest`), then send the metrics it has (`UnsentComesToRest`), and then has nothing
  left but to end (`SettledRunEnds`). That each API is visited again and again takes the
  strong fairness of visits, since any run may end before its turn (`TurnsCome`). `OwedIsReported` puts
  `RunsContinue` and `RequestsAreReported` together.

Only model-checked: `WaitsAreMet` and `NeverStuck`, which speak of ENABLED, `OncePerGoroutine`, and what the violation runs refute.
The guards these formulas turn on are proved where they depend on a history: that a handler of
provisioning is always at one of its calls, with what the call works on, is `JobOK`; that a goroutine of
the pipeline has an API or a detail where it needs one is `WorkerState`.
`PassesGoOn` is checked by `Pipeline_serial`. With overlapping passes it was checked besides on
`Pipeline_delivery` with no crash (1.5 minutes) and with a crash but no failure to load the revisions
(4 minutes); there it would double the time of the run.

## 5. Not modelled, and the plan

Not modelled: HTTP, JSON, health checks, logging, icons and images; commands and
configuration parsing, whose outcome is the initial state; the text of specifications.
In particular:

* The security that operations of a document demand of their own: `setOAS2policies` and
  `setOAS3policies` replace the requirements at the top and the schemes, so an operation may go
  on naming a scheme that is gone.
* The credential cache of the traceability agent (`credential.go`). It is keyed by the detail
  `clientId` of credentials, which provisioning does not write, and asked for the
  client ID of a metric event, which the emitter leaves empty: the look-up finds nothing in any
  order of events. For the same reason a metric does not tell who called.
* The response times: the data base fills in response sizes, the emitter reads times.
* `Status` and `Ready` of the emitter's job: they answer the SDK, which decides whether a run begins.
* The retry policy, authentication and caches inside the SDK, and its watch stream.
* In the pipeline: revisions that lack an ID, version or checksum, which `getRevisions` skips
  (`discover.go:103-106`); the other fields of a list entry that the hash covers (for instance `Audit.Updated`),
  which the `content` of an entry stands for together; goroutines without bound (`discover.go:74-81`): the
  model starts one when a name in `Workers` is free.
* Time within a login or a refresh: a request that hangs takes of the last quarter of the lifetime
  (`authentication.go:66`), which `TokenFresh` does not count. Lifetimes of
  at least one unit are assumed. Without one (`expires_in` below a second, `client.go:210`) no refresher is started
  (`authentication.go:44`), and with a lifetime of 0 in the model the change never gets past `auth.Stop`: its
  send has no receiver, and both loops stay stopped.
* What a policy in the older form (`configurationData`) says: `client.go:328-330` assigns the configuration to
  itself, so that an API that enforces client IDs is published without a credential. The model has this
  (`GetPolicies`), and `CredentialFits` holds all the same: offer and document agree.
* Requests of consumers that are refused for missing or wrong data (`provision.go:37`, `:65`, `:69`, `:76`,
  `:194-195`): they fail without a call. The tier of a contract: `strconv.Atoi`'s error is ignored
  (`mulesubscriptionclient.go:109`), so that a tier ID that is no number becomes tier 0. The dereference of
  `*resp.ID` if the answer to a new tier has no ID (`client.go:597`).
* In reporting, an error of writing the cache file, which is ignored, and a restart between setting the time in memory and
  writing it (`muleemitter.go:171-172`): setting and writing are one step.
* The type assertions of `UpdateSpec` on scopes and token addresses (`servicehandler.go:364`, `:368`), which panic for anything but a string.

Planned, in this order:

1. Several polling loops within the pipeline, which a second configuration change may leave:
   `AgentLifecycle` composed with `DiscoveryPipeline`.
2. The requirements of operations in `SpecBuilding`.
