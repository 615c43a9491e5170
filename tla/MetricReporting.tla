--------------------------- MODULE MetricReporting ---------------------------
(***************************************************************************)
(* The traceability agent (pkg/traceability): at every interval the SDK    *)
(* runs the emitter, which asks Anypoint for the metrics of each API since *)
(* the API was last reported, sends them to the agent and moves the time   *)
(* of the last report on.  The agent collects them in its event report and *)
(* hands that over to the SDK at the end of the run.                       *)
(*                                                                         *)
(* The times of the last reports are in a cache that is kept in a file;    *)
(* the event report is in memory.  The event channel has no buffer, so a   *)
(* send and its processing are one step.  Anypoint offers metrics in two   *)
(* ways: an archive with one metric per time and a folder per day, or a    *)
(* data base that is asked for a range of time.                            *)
(*                                                                         *)
(* A request stands for all calls of one API with one status code at one   *)
(* time; a metric covers the requests it counts.  External: the SDK empties*)
(* the report it is handed; the archive shows a time once it is over.      *)
(***************************************************************************)
EXTENDS Integers, FiniteSets

CONSTANTS Apis,             \* the API service instances in the SDK's cache
          Asset,            \* the asset ID among the details of an instance
          None,             \* no asset ID, no API
          Called,           \* the instances whose APIs are called at all
          Codes,            \* status codes
          Sources,          \* the values of useMonitoringAPI to consider
          DayLength,
          MaxTime, MaxRequests, MaxFaults

ASSUME MetricAssumption ==
    /\ Sources \subseteq BOOLEAN
    /\ None \notin Apis
    /\ DOMAIN Asset = Apis
    /\ Called \subseteq {a \in Apis : Asset[a] # None}
    /\ DayLength \in Nat \ {0}
    /\ {MaxTime, MaxRequests, MaxFaults} \subseteq Nat

VARIABLES
    useMonitoringAPI,   \* TRUE: the archive; FALSE: the data base
    now,                \* the time
    traffic,            \* Anypoint: the requests so far
    lastRun,            \* cache file: the last report of each asset, 0 for none
    emitter,            \* the run under way
    report,             \* the agent's event report: the details of this run
    reported,           \* the SDK: how often each request has been counted
    faults              \* failed calls, files not read, restarts

vars == <<useMonitoringAPI, now, traffic, lastRun, emitter, report, reported,
          faults>>
world == <<useMonitoringAPI, now, traffic>>

Tracked == {a \in Apis : Asset[a] # None}
Assets == {Asset[a] : a \in Tracked}
Times == 1 .. MaxTime
Requests == [api : Called, code : Codes, time : Times]
Day(t) == t \div DayLength

Idle == [at |-> "idle", todo |-> {}, api |-> None, start |-> 0, stop |-> 0,
         metrics |-> {}, endTime |-> 0, unread |-> {}]

Init ==
    /\ useMonitoringAPI \in Sources
    /\ now = 1 /\ traffic = {}
    /\ lastRun = [x \in Assets |-> 0]
    /\ emitter = Idle
    /\ report = {} /\ reported = [r \in Requests |-> 0]
    /\ faults = 0
-----------------------------------------------------------------------------
(* Anypoint: requests are made and time passes.                            *)
Traffic ==
    /\ Cardinality(traffic) < MaxRequests
    /\ \E r \in Requests \ traffic : /\ r.time = now
                                     /\ traffic' = traffic \cup {r}
    /\ UNCHANGED <<useMonitoringAPI, now, lastRun, emitter, report, reported,
                   faults>>

Elapse ==
    /\ now < MaxTime
    /\ now' = now + 1
    /\ UNCHANGED <<useMonitoringAPI, traffic, lastRun, emitter, report, reported,
                   faults>>

(* The files of the archive for the day of the last report.                *)
GetMonitoringArchive(a, start) ==
    {r \in traffic : r.api = a /\ r.time < now /\ Day(r.time) = Day(start)}

ArchiveMetrics(files) == {[time |-> r.time, covers |-> {r}] : r \in files}

(* Mutant of GetMonitoringMetrics: the query has no lower end.             *)
MetricsFromTheBeginning(a, start, stop) ==
    {[time |-> stop, covers |-> {r \in traffic : /\ r.api = a /\ r.code = c
                                                 /\ r.time <= stop}] :
        c \in Codes} \ {[time |-> stop, covers |-> {}]}

(* The data base counts the requests of a range per status code, both ends *)
(* included; the end of the range is the time of all these metrics.        *)
GetMonitoringMetrics(a, start, stop) ==
    {[time |-> stop, covers |-> {r \in traffic : /\ r.api = a /\ r.code = c
                                                 /\ start <= r.time /\ r.time <= stop}] :
        c \in Codes} \ {[time |-> stop, covers |-> {}]}
-----------------------------------------------------------------------------
(* A run of the emitter begins: Initialize is sent, the instances are      *)
(* listed, the end of the range is fixed.  Those without an asset ID will  *)
(* be passed over.  The archive does not ask for the end.                  *)
Begin ==
    /\ emitter.at = "idle"
    /\ emitter' = [Idle EXCEPT !.at = "loop", !.todo = Tracked,
                               !.stop = IF useMonitoringAPI THEN 0 ELSE now]
    /\ UNCHANGED <<world, lastRun, report, reported, faults>>

(* The data base is not known: the run ends before it began.               *)
BootstrapFails ==
    /\ emitter.at = "idle" /\ ~useMonitoringAPI
    /\ faults < MaxFaults
    /\ faults' = faults + 1
    /\ UNCHANGED <<world, lastRun, emitter, report, reported>>

Turn(a) == emitter.at = "loop" /\ a \in emitter.todo

(* Mutant of GetLastRun: the entry of the cache is not found.              *)
GetLastRunMissing(a) == now

GetLastRun(a) == IF lastRun[Asset[a]] = 0 THEN now ELSE lastRun[Asset[a]]

Got(a, at, metrics, unread) ==
    emitter' = [emitter EXCEPT !.at = at, !.todo = @ \ {a}, !.api = a,
                    !.start = GetLastRun(a), !.endTime = GetLastRun(a),
                    !.metrics = metrics, !.unread = unread]

(* The metrics of one API arrive.  Data files that cannot be read are left *)
(* out with a warning, and so is, without one, the rest of a file behind   *)
(* an entry that cannot be decoded.                                        *)
Query(a) ==
    /\ Turn(a)
    /\ IF useMonitoringAPI
       THEN \E unread \in SUBSET GetMonitoringArchive(a, GetLastRun(a)) :
              /\ faults + Cardinality(unread) <= MaxFaults
              /\ faults' = faults + Cardinality(unread)
              /\ Got(a, "emit",
                     ArchiveMetrics(GetMonitoringArchive(a, GetLastRun(a)) \ unread),
                     unread)
       ELSE /\ Got(a, "emit", GetMonitoringMetrics(a, GetLastRun(a), emitter.stop), {})
            /\ UNCHANGED faults
    /\ UNCHANGED <<world, lastRun, report, reported>>

(* There is no folder for that day: the answer is 404, which the client    *)
(* passes over but returns as an error all the same.                       *)
NotFound(a) ==
    /\ Turn(a) /\ useMonitoringAPI
    /\ GetMonitoringArchive(a, GetLastRun(a)) = {}
    /\ Got(a, "emitLast", {}, {})
    /\ UNCHANGED <<world, lastRun, report, reported, faults>>

QueryFails(a) ==
    /\ Turn(a)
    /\ faults < MaxFaults
    /\ faults' = faults + 1
    /\ Got(a, "emitLast", {}, {})
    /\ UNCHANGED <<world, lastRun, report, reported>>

(* Mutant of Emit: metrics are compared with the latest one seen.          *)
EmitInOrder ==
    /\ emitter.at = "emit"
    /\ \E m \in emitter.metrics :
         /\ emitter' = [emitter EXCEPT
                !.metrics = @ \ {m},
                !.endTime = IF m.time > @ THEN m.time ELSE @]
         /\ report' = IF m.time > emitter.endTime
                      THEN report \cup {[start |-> emitter.start, end |-> m.time,
                                         covers |-> m.covers]}
                      ELSE report
    /\ UNCHANGED <<world, lastRun, reported, faults>>

(* Mutant of Emit: metrics of the whole day are sent again.                *)
EmitAll ==
    /\ emitter.at = "emit"
    /\ \E m \in emitter.metrics :
         /\ emitter' = [emitter EXCEPT
                !.metrics = @ \ {m},
                !.endTime = IF m.time > @ THEN m.time ELSE @]
         /\ report' = report \cup {[start |-> emitter.start, end |-> m.time,
                                    covers |-> m.covers]}
    /\ UNCHANGED <<world, lastRun, reported, faults>>

(* The next metric, in no order: it is sent if it is newer than the last   *)
(* report, and processed.                                                  *)
Emit ==
    /\ emitter.at = "emit"
    /\ \E m \in emitter.metrics :
         /\ emitter' = [emitter EXCEPT
                !.metrics = @ \ {m},
                !.endTime = IF m.time > @ THEN m.time ELSE @]
         /\ report' = IF m.time > emitter.start
                      THEN report \cup {[start |-> emitter.start, end |-> m.time,
                                         covers |-> m.covers]}
                      ELSE report
    /\ UNCHANGED <<world, lastRun, reported, faults>>

(* Mutant of SaveLastRun: after an error the API is tried again.           *)
SaveAndRetry ==
    /\ emitter.at \in {"emit", "emitLast"} /\ emitter.metrics = {}
    /\ lastRun' = [lastRun EXCEPT ![Asset[emitter.api]] = emitter.endTime]
    /\ emitter' = [Idle EXCEPT !.at = "loop", !.stop = emitter.stop,
                               !.todo = IF emitter.at = "emit" THEN emitter.todo
                                        ELSE emitter.todo \cup {emitter.api}]
    /\ UNCHANGED <<world, report, reported, faults>>

(* Mutant of SaveLastRun: only a time that has moved on is saved.          *)
SaveIfNewer ==
    /\ emitter.at \in {"emit", "emitLast"} /\ emitter.metrics = {}
    /\ emitter.endTime > emitter.start
    /\ lastRun' = [lastRun EXCEPT ![Asset[emitter.api]] = emitter.endTime]
    /\ emitter' = [Idle EXCEPT !.at = IF emitter.at = "emit" THEN "loop" ELSE "failed",
                               !.todo = emitter.todo, !.stop = emitter.stop]
    /\ UNCHANGED <<world, report, reported, faults>>

(* The time of the latest metric is saved; after an error the run ends.    *)
SaveLastRun ==
    /\ emitter.at \in {"emit", "emitLast"} /\ emitter.metrics = {}
    /\ lastRun' = [lastRun EXCEPT ![Asset[emitter.api]] = emitter.endTime]
    /\ emitter' = [Idle EXCEPT !.at = IF emitter.at = "emit" THEN "loop" ELSE "failed",
                               !.todo = emitter.todo, !.stop = emitter.stop]
    /\ UNCHANGED <<world, report, reported, faults>>

(* The run ends, well or not: Completed is sent, the report handed over.   *)
Complete ==
    /\ \/ emitter.at = "loop" /\ emitter.todo = {}
       \/ emitter.at = "failed"
    /\ reported' = [r \in Requests |->
                      reported[r] + Cardinality({d \in report : r \in d.covers})]
    /\ report' = {}
    /\ emitter' = Idle
    /\ UNCHANGED <<world, lastRun, faults>>

(* The process ends, by a crash, a signal or Stop; it is started again.    *)
(* What is in memory is gone, in each case.                                *)
Restart ==
    /\ faults < MaxFaults
    /\ faults' = faults + 1
    /\ emitter' = Idle /\ report' = {}
    /\ UNCHANGED <<world, lastRun, reported>>
-----------------------------------------------------------------------------
Visit(a) == Query(a) \/ NotFound(a) \/ QueryFails(a)

Next == \/ Traffic \/ Elapse
        \/ Begin \/ BootstrapFails
        \/ \E a \in Tracked : Visit(a)
        \/ Emit \/ SaveLastRun \/ Complete
        \/ Restart

Spec == Init /\ [][Next]_vars

(* The SDK runs the job, calls are answered.  The instances come in the    *)
(* order of a Go map, which varies from run to run: each has its turn      *)
(* again and again.                                                        *)
Visited(a) == SF_vars(Visit(a))
AllVisited == \A a \in Tracked : Visited(a)
Fairness ==
    /\ WF_vars(Begin) /\ AllVisited
    /\ WF_vars(Emit) /\ WF_vars(SaveLastRun) /\ WF_vars(Complete)

FairSpec == Spec /\ Fairness
-----------------------------------------------------------------------------
(* Type invariant; a window that has begun does not end before it starts,  *)
(* and what a metric covers was asked for.                                 *)
TypeOK ==
    /\ useMonitoringAPI \in BOOLEAN
    /\ now \in Nat \ {0} /\ traffic \subseteq Requests
    /\ lastRun \in [Assets -> Nat]
    /\ emitter.at \in {"idle", "loop", "emit", "emitLast", "failed"}
    /\ emitter.todo \subseteq Apis
    /\ emitter.at \in {"emit", "emitLast"} => emitter.api \in Tracked
    /\ emitter.start <= emitter.endTime /\ emitter.endTime <= now
    /\ \A m \in emitter.metrics : /\ m.time \in Nat
                                  /\ m.covers \subseteq traffic
                                  /\ \A r \in m.covers : r.api = emitter.api
    /\ \A d \in report : /\ d.start < d.end
                         /\ \A r \in d.covers : d.start <= r.time /\ r.time <= d.end
    /\ reported \in [Requests -> Nat]

InReport(r) == \E d \in report : r \in d.covers

(* The time of the last report moves over the request at time t.           *)
Passes(t, from, to) == IF useMonitoringAPI THEN from < t /\ t <= to
                                           ELSE from <= t /\ t < to

(* Nothing is lost between two windows: when the time of an API's last     *)
(* report moves on, the requests it passes are in the report, whatever the *)
(* order of the metrics, unless their data file could not be read.  What   *)
(* is made at the end of a window is left to the next (saveLastRun, Start).*)
WindowLosesNothing ==
    [][\A r \in traffic :
          LET last == lastRun[Asset[r.api]]
              next == lastRun'[Asset[r.api]]
          IN  last # 0 /\ Passes(r.time, last, next)
                => \/ InReport(r)'
                   \/ emitter.api = r.api /\ r \in emitter.unread]_vars

(* No request is counted twice, over errors and restarts in any step of a  *)
(* run: nothing is handed over before its window is saved.  The ranges of  *)
(* the data base share their ends, so there it is twice at most (Start).   *)
NotCountedTwice ==
    \A r \in traffic :
        reported[r] + Cardinality({d \in report : r \in d.covers})
            <= IF useMonitoringAPI THEN 1 ELSE 2

(* Requests the emitter has yet to report: after the last report of their  *)
(* API, in the archive on the same day and not in a file that has just     *)
(* failed to be read.                                                      *)
Later(r) == /\ r \in traffic /\ r.time < now
            /\ lastRun[Asset[r.api]] # 0
            /\ IF useMonitoringAPI THEN lastRun[Asset[r.api]] < r.time
                                   ELSE lastRun[Asset[r.api]] <= r.time
Owed(r) == /\ Later(r) /\ r \notin emitter.unread
           /\ useMonitoringAPI => Day(r.time) = Day(lastRun[Asset[r.api]])

(* Runs go on: each of them ends, whatever fails, and each API is visited  *)
(* again and again, although one without metrics ends the run for those    *)
(* behind it (Start).                                                      *)
AtHand(a) == emitter.at \in {"emit", "emitLast"} /\ emitter.api = a
HasTurns(a) == []<>AtHand(a)
RunsEnd == []<>(emitter.at = "idle")
RunsGoOn == RunsEnd /\ \A a \in Tracked : HasTurns(a)

(* The emitter is never stuck: wherever a run has got to, and whatever it  *)
(* found or failed to read, it has a next step, and any API left can be    *)
(* the next.  This is what the proof of RunsGoOn takes from the meaning of *)
(* ENABLED.                                                                *)
Sending == emitter.at = "emit" /\ emitter.metrics # {}
Saving == emitter.at \in {"emit", "emitLast"} /\ emitter.metrics = {}
Over == (emitter.at = "loop" /\ emitter.todo = {}) \/ emitter.at = "failed"
NeverStuck ==
    /\ emitter.at = "idle" => ENABLED <<Begin>>_vars
    /\ \A a \in Tracked : Turn(a) => ENABLED <<Visit(a)>>_vars
    /\ Sending => ENABLED <<Emit>>_vars
    /\ Saving => ENABLED <<SaveLastRun>>_vars
    /\ Over => ENABLED <<Complete>>_vars

(* Every such request is reported in the end unless another fault occurs:  *)
(* not for ever held up by an API that has no metrics, or by the errors    *)
(* and restarts there were before (Start).                                 *)
ReportedInTheEnd(r, k) == Owed(r) /\ faults = k ~> reported[r] > 0 \/ faults > k
EventuallyReported ==
    \A r \in Requests, k \in 0 .. MaxFaults : ReportedInTheEnd(r, k)

(* "Gathers analytics data for publishing to Central" (muleemitter.go:40): *)
(* whatever comes after the last report of its API is reported in the end. *)
(* Not so: only the folder of the day of the last report is ever read, and *)
(* the last report never leaves that day (GetMonitoringArchive).           *)
Gathered == \A r \in Requests : Later(r) ~> reported[r] > 0

(* "change the cache to store startTime per API" (muleemitter.go:91): the  *)
(* start of an API's next window moves over requests that are not reported *)
(* only while that API is at hand.  Not so: it is stored per asset, and of *)
(* several APIs in an asset the first one moves it for all (saveLastRun).  *)
StartTimePerApi ==
    [][\A r \in traffic :
          LET last == lastRun[Asset[r.api]]
              next == lastRun'[Asset[r.api]]
          IN  last # 0 /\ Passes(r.time, last, next) /\ ~InReport(r) /\ reported[r] = 0
                => emitter.api = r.api]_vars
=============================================================================
