------------------------ MODULE MetricReportingProofs ------------------------
(***************************************************************************)
(* Theorems about MetricReporting, for any number of instances, assets,    *)
(* codes, requests and faults and days of any length.                      *)
(***************************************************************************)
EXTENDS MetricReporting, FiniteSetTheorems, TLAPS

(* The inductive invariant, in parts.  First what everything is made of.   *)
MetricType == [time : Nat, covers : SUBSET Requests]
DetailType == [start : Nat, end : Nat, covers : SUBSET Requests]
EmitterType == [at : {"idle", "loop", "emit", "emitLast", "failed"},
                todo : SUBSET Tracked, api : Tracked \cup {None},
                start : Nat, stop : Nat, metrics : SUBSET MetricType,
                endTime : Nat, unread : SUBSET Requests]

Types == /\ useMonitoringAPI \in BOOLEAN
         /\ now \in Nat \ {0} /\ traffic \subseteq Requests
         /\ lastRun \in [Assets -> Nat]
         /\ emitter \in EmitterType
         /\ report \subseteq DetailType /\ IsFiniteSet(report)
         /\ reported \in [Requests -> Nat]

(* An API is being visited.                                                *)
Visiting == emitter.at \in {"emit", "emitLast"}

(* Windows begin at the time of the last report, if there is one, and end  *)
(* in the past; the archive has nothing from the present moment.           *)
Clock == /\ \A x \in Assets : lastRun[x] <= now
         /\ emitter.stop <= now
         /\ emitter.start <= emitter.endTime /\ emitter.endTime <= now
         /\ useMonitoringAPI => emitter.endTime = emitter.start \/ emitter.endTime < now
         /\ Visiting => /\ emitter.api \in Tracked
                        /\ lastRun[Asset[emitter.api]] \in {0, emitter.start}
         /\ ~Visiting => emitter.metrics = {}

(* A metric covers requests of the API at hand, in the time asked for, and *)
(* no request is in two of them.                                           *)
Asked(m) == IF useMonitoringAPI
            THEN m.time < now /\ \A r \in m.covers : r.time = m.time
            ELSE /\ m.time = emitter.stop
                 /\ \A r \in m.covers : emitter.start <= r.time /\ r.time <= m.time

Metrics == \A m \in emitter.metrics :
              /\ m.covers \subseteq traffic
              /\ \A r \in m.covers : r.api = emitter.api
              /\ Asked(m)
              /\ \A n \in emitter.metrics, r \in m.covers : r \in n.covers => n = m

Details == \A d \in report :
              /\ d.start < d.end
              /\ \A r \in d.covers : d.start <= r.time /\ r.time <= d.end

(* How often a request has been counted, the report included, and up to    *)
(* which time requests of its API may have been.                           *)
Count(r) == Cardinality({d \in report : r \in d.covers})
Counted(r) == reported[r] + Count(r)
Last(r) == IF Visiting /\ Asset[emitter.api] = Asset[r.api] THEN emitter.endTime
           ELSE lastRun[Asset[r.api]]

(* A request is counted up to the time of the last report, and again only  *)
(* by the data base and strictly before that time.                         *)
Bounded(n, t, last) == /\ n >= 1 => t <= last
                       /\ n >= 2 => ~useMonitoringAPI /\ t < last
                       /\ n <= 2

(* Both with the report, should it be handed over, and without.            *)
Counts == \A r \in Requests : /\ Bounded(reported[r], r.time, lastRun[Asset[r.api]])
                              /\ Bounded(Counted(r), r.time, Last(r))

(* What is going to be sent has not been counted, except, by the data      *)
(* base, at the start of the window.                                       *)
Fresh == \A m \in emitter.metrics : \A r \in m.covers :
            m.time > emitter.start =>
               IF useMonitoringAPI THEN Counted(r) = 0
               ELSE Counted(r) <= 1 /\ (Counted(r) = 1 => r.time <= emitter.start)

(* What the end of the window has passed, or a metric still to be sent     *)
(* will pass, is accounted for.                                            *)
Passed(r) == \/ Passes(r.time, emitter.start, emitter.endTime)
             \/ \E m \in emitter.metrics : Passes(r.time, emitter.start, m.time)
Window == Visiting =>
    \A r \in traffic : r.api = emitter.api /\ Passed(r) =>
        \/ InReport(r) \/ r \in emitter.unread
        \/ \E m \in emitter.metrics : r \in m.covers /\ m.time > emitter.start

Inv == Types /\ Clock /\ Metrics /\ Details /\ Counts /\ Fresh /\ Window
-----------------------------------------------------------------------------
(* Times and days.                                                         *)
LEMMA DayMonotone ==
    ASSUME NEW t \in Nat, NEW u \in Nat, t <= u
    PROVE  Day(t) <= Day(u) /\ Day(t) \in Nat /\ Day(u) \in Nat
BY MetricAssumption DEF Day

LEMMA RequestType ==
    ASSUME NEW r \in Requests
    PROVE  /\ r.time \in Nat /\ r.time >= 1
           /\ r.code \in Codes
           /\ r.api \in Tracked /\ Asset[r.api] \in Assets
BY MetricAssumption DEF Requests, Times, Tracked, Assets

LEMMA GetLastRunType ==
    ASSUME Types, Clock, NEW a \in Tracked
    PROVE  /\ GetLastRun(a) \in Nat
           /\ lastRun[Asset[a]] <= GetLastRun(a) /\ GetLastRun(a) <= now
           /\ lastRun[Asset[a]] \in {0, GetLastRun(a)}
           /\ lastRun[Asset[a]] \in Nat
<1>1. Asset[a] \in Assets
  BY DEF Assets
<1>2. lastRun[Asset[a]] \in Nat /\ lastRun[Asset[a]] <= now
  BY <1>1 DEF Types, Clock
<1> QED BY <1>2 DEF GetLastRun, Types

(* What the answers hold.                                                  *)
LEMMA AnswerType ==
    ASSUME Types, Clock, NEW a \in Tracked
    PROVE  /\ GetMonitoringArchive(a, GetLastRun(a)) \subseteq traffic
           /\ \A F \in SUBSET GetMonitoringArchive(a, GetLastRun(a)) :
                 ArchiveMetrics(F) \in SUBSET MetricType
           /\ GetMonitoringMetrics(a, GetLastRun(a), emitter.stop) \in SUBSET MetricType
<1>1. traffic \subseteq Requests /\ emitter.stop \in Nat
  BY DEF Types, EmitterType
<1>2. GetMonitoringArchive(a, GetLastRun(a)) \subseteq traffic
  BY DEF GetMonitoringArchive
<1>3. ASSUME NEW F \in SUBSET traffic PROVE ArchiveMetrics(F) \in SUBSET MetricType
  <2>1. \A r \in F : r \in Requests /\ r.time \in Nat
    BY <1>1, RequestType
  <2> QED BY <2>1 DEF ArchiveMetrics, MetricType
<1>4. GetMonitoringMetrics(a, GetLastRun(a), emitter.stop) \in SUBSET MetricType
  BY <1>1 DEF GetMonitoringMetrics, MetricType
<1> QED BY <1>2, <1>3, <1>4

(* What each step makes of the emitter.                                    *)
LEMMA GotEffect ==
    ASSUME Types, Clock, NEW a \in Tracked, NEW at \in {"emit", "emitLast"},
           NEW metrics \in SUBSET MetricType, NEW unread \in SUBSET Requests,
           Got(a, at, metrics, unread)
    PROVE  /\ emitter' \in EmitterType
           /\ emitter'.at = at /\ emitter'.api = a
           /\ emitter'.start = GetLastRun(a) /\ emitter'.endTime = GetLastRun(a)
           /\ emitter'.metrics = metrics /\ emitter'.unread = unread
           /\ emitter'.stop = emitter.stop
<1>1. GetLastRun(a) \in Nat
  BY GetLastRunType
<1>2. emitter \in EmitterType
  BY DEF Types
<1> DEFINE g == GetLastRun(a)
<1>3. emitter' = [emitter EXCEPT !.at = at, !.todo = @ \ {a}, !.api = a,
                    !.start = g, !.endTime = g, !.metrics = metrics, !.unread = unread]
  BY DEF Got
<1> HIDE DEF g
<1>4. /\ emitter' \in EmitterType
      /\ emitter'.at = at /\ emitter'.api = a
      /\ emitter'.start = g /\ emitter'.endTime = g
      /\ emitter'.metrics = metrics /\ emitter'.unread = unread
      /\ emitter'.stop = emitter.stop
  BY <1>1, <1>2, <1>3 DEF EmitterType, g
<1> QED BY <1>4 DEF g

(* A visit asks for the metrics since the last report, or gives up.        *)
LEMMA VisitEffect ==
    ASSUME Types, Clock, NEW a \in Tracked, Visit(a)
    PROVE  /\ ~Visiting
           /\ emitter' \in EmitterType
           /\ emitter'.at \in {"emit", "emitLast"} /\ emitter'.api = a
           /\ emitter'.start = GetLastRun(a) /\ emitter'.endTime = GetLastRun(a)
           /\ emitter'.stop = emitter.stop
           /\ \/ emitter'.metrics = {}
              \/ /\ useMonitoringAPI
                 /\ emitter'.unread \subseteq GetMonitoringArchive(a, GetLastRun(a))
                 /\ emitter'.metrics = ArchiveMetrics(
                        GetMonitoringArchive(a, GetLastRun(a)) \ emitter'.unread)
              \/ /\ ~useMonitoringAPI
                 /\ emitter'.metrics = GetMonitoringMetrics(a, GetLastRun(a), emitter.stop)
           /\ UNCHANGED <<useMonitoringAPI, now, traffic, lastRun, report, reported>>
<1> DEFINE archive == GetMonitoringArchive(a, GetLastRun(a))
           base == GetMonitoringMetrics(a, GetLastRun(a), emitter.stop)
<1>1. archive \subseteq Requests /\ base \in SUBSET MetricType
      /\ \A F \in SUBSET archive : ArchiveMetrics(F) \in SUBSET MetricType
  BY AnswerType DEF Types
<1>2. Turn(a) /\ UNCHANGED <<useMonitoringAPI, now, traffic, lastRun, report, reported>>
  BY DEF Visit, Query, NotFound, QueryFails, world
<1> HIDE DEF archive, base
<1>3. CASE useMonitoringAPI /\ Query(a)
  <2>1. PICK unread \in SUBSET archive :
          Got(a, "emit", ArchiveMetrics(archive \ unread), unread)
    BY <1>3 DEF Query, archive
  <2> DEFINE metrics == ArchiveMetrics(archive \ unread)
  <2>2. metrics \in SUBSET MetricType /\ unread \in SUBSET Requests
    BY <1>1
  <2>3. Got(a, "emit", metrics, unread)
    BY <2>1
  <2> HIDE DEF metrics
  <2>4. /\ emitter' \in EmitterType
        /\ emitter'.at = "emit" /\ emitter'.api = a
        /\ emitter'.start = GetLastRun(a) /\ emitter'.endTime = GetLastRun(a)
        /\ emitter'.metrics = metrics
        /\ emitter'.unread = unread /\ emitter'.stop = emitter.stop
    BY <2>2, <2>3, GotEffect
  <2> QED BY <1>2, <1>3, <2>4 DEF Turn, Visiting, archive, metrics
<1>4. CASE ~useMonitoringAPI /\ Query(a)
  <2>1. Got(a, "emit", base, {})
    BY <1>4 DEF Query, base
  <2>2. /\ emitter' \in EmitterType
        /\ emitter'.at = "emit" /\ emitter'.api = a
        /\ emitter'.start = GetLastRun(a) /\ emitter'.endTime = GetLastRun(a)
        /\ emitter'.metrics = base /\ emitter'.stop = emitter.stop
    BY <1>1, <2>1, GotEffect
  <2> QED BY <1>2, <1>4, <2>2 DEF Turn, Visiting, base
<1>5. CASE NotFound(a) \/ QueryFails(a)
  <2>1. Got(a, "emitLast", {}, {})
    BY <1>5 DEF NotFound, QueryFails
  <2>2. /\ emitter' \in EmitterType
        /\ emitter'.at = "emitLast" /\ emitter'.api = a
        /\ emitter'.start = GetLastRun(a) /\ emitter'.endTime = GetLastRun(a)
        /\ emitter'.metrics = {} /\ emitter'.stop = emitter.stop
    BY <2>1, GotEffect
  <2> QED BY <1>2, <2>2 DEF Turn, Visiting
<1> QED BY <1>3, <1>4, <1>5 DEF Visit

LEMMA EmitEffect ==
    ASSUME Types, Clock, Emit
    PROVE  \E m \in emitter.metrics :
             /\ Visiting /\ Visiting'
             /\ emitter' \in EmitterType
             /\ emitter'.metrics = emitter.metrics \ {m}
             /\ emitter'.endTime = IF m.time > emitter.endTime THEN m.time ELSE emitter.endTime
             /\ emitter'.api = emitter.api /\ emitter'.start = emitter.start
             /\ emitter'.stop = emitter.stop /\ emitter'.unread = emitter.unread
             /\ report' = IF m.time > emitter.start
                          THEN report \cup {[start |-> emitter.start, end |-> m.time,
                                             covers |-> m.covers]}
                          ELSE report
             /\ UNCHANGED <<useMonitoringAPI, now, traffic, lastRun, reported>>
<1>1. PICK m \in emitter.metrics :
        /\ emitter' = [emitter EXCEPT !.metrics = @ \ {m},
                                      !.endTime = IF m.time > @ THEN m.time ELSE @]
        /\ report' = IF m.time > emitter.start
                     THEN report \cup {[start |-> emitter.start, end |-> m.time,
                                        covers |-> m.covers]}
                     ELSE report
  BY DEF Emit
<1>2. emitter \in EmitterType /\ m \in MetricType
  BY DEF Types, EmitterType
<1> DEFINE e == IF m.time > emitter.endTime THEN m.time ELSE emitter.endTime
<1>3. e \in Nat
  BY <1>2 DEF EmitterType, MetricType
<1>4. emitter' = [emitter EXCEPT !.metrics = emitter.metrics \ {m}, !.endTime = e]
  BY <1>1
<1> HIDE DEF e
<1>5. /\ emitter' \in EmitterType
      /\ emitter'.at = emitter.at
      /\ emitter'.metrics = emitter.metrics \ {m} /\ emitter'.endTime = e
      /\ emitter'.api = emitter.api /\ emitter'.start = emitter.start
      /\ emitter'.stop = emitter.stop /\ emitter'.unread = emitter.unread
  BY <1>2, <1>3, <1>4 DEF EmitterType
<1>6. Visiting /\ Visiting'
  BY <1>5 DEF Emit, Visiting
<1> QED BY <1>1, <1>5, <1>6 DEF e, Emit, world

(* The other steps leave no API at hand.                                   *)
Quiet == /\ emitter' \in EmitterType
         /\ ~Visiting' /\ emitter'.metrics = {}
         /\ emitter'.start = 0 /\ emitter'.endTime = 0

LEMMA IdleType ==
    /\ Idle \in EmitterType
    /\ Idle.at = "idle" /\ Idle.metrics = {} /\ Idle.start = 0 /\ Idle.endTime = 0
    /\ Idle.stop = 0
BY DEF Idle, EmitterType

LEMMA BeginEffect ==
    ASSUME Types, Begin
    PROVE  /\ Quiet /\ ~Visiting
           /\ emitter'.stop \in {0, now}
           /\ UNCHANGED <<useMonitoringAPI, now, traffic, lastRun, report, reported>>
<1> DEFINE s == IF useMonitoringAPI THEN 0 ELSE now
<1>1. emitter' = [Idle EXCEPT !.at = "loop", !.todo = Tracked, !.stop = s]
  BY DEF Begin
<1>2. s \in Nat /\ s \in {0, now}
  BY DEF Types
<1> HIDE DEF s
<1>3. /\ emitter' \in EmitterType /\ emitter'.at = "loop" /\ emitter'.metrics = {}
      /\ emitter'.start = 0 /\ emitter'.endTime = 0 /\ emitter'.stop = s
  BY <1>1, <1>2, IdleType DEF EmitterType
<1> QED BY <1>2, <1>3 DEF Quiet, Visiting, Begin, world

LEMMA SaveEffect ==
    ASSUME Types, SaveLastRun
    PROVE  /\ Quiet /\ Visiting /\ emitter.metrics = {}
           /\ emitter'.stop = emitter.stop
           /\ lastRun' = [lastRun EXCEPT ![Asset[emitter.api]] = emitter.endTime]
           /\ UNCHANGED <<useMonitoringAPI, now, traffic, report, reported>>
<1> DEFINE at == IF emitter.at = "emit" THEN "loop" ELSE "failed"
           todo == emitter.todo
           stop == emitter.stop
<1>1. emitter' = [Idle EXCEPT !.at = at, !.todo = todo, !.stop = stop]
  BY DEF SaveLastRun
<1>2. at \in {"loop", "failed"} /\ todo \in SUBSET Tracked /\ stop \in Nat
  BY DEF Types, EmitterType
<1> HIDE DEF at, todo, stop
<1>3. /\ emitter' \in EmitterType /\ emitter'.at = at /\ emitter'.metrics = {}
      /\ emitter'.start = 0 /\ emitter'.endTime = 0 /\ emitter'.stop = stop
  BY <1>1, <1>2, IdleType DEF EmitterType
<1> QED BY <1>2, <1>3 DEF Quiet, Visiting, SaveLastRun, world, stop

LEMMA EndEffect ==
    ASSUME Types, Complete \/ Restart
    PROVE  /\ Quiet /\ emitter'.stop = 0
           /\ report' = {}
           /\ UNCHANGED <<useMonitoringAPI, now, traffic, lastRun>>
           /\ \/ ~Visiting /\ reported' = [r \in Requests |-> Counted(r)]
              \/ UNCHANGED reported
BY IdleType DEF Complete, Restart, Quiet, Visiting, world, Counted, Count

(* Every step is one of these.                                             *)
LEMMA Steps ==
    ASSUME NEW Goal,
           Traffic => Goal, Elapse => Goal, Begin => Goal,
           \A a \in Tracked : Visit(a) => Goal,
           Emit => Goal, SaveLastRun => Goal, Complete \/ Restart => Goal,
           UNCHANGED <<world, lastRun, emitter, report, reported>> => Goal,
           [Next]_vars
    PROVE  Goal
BY DEF Next, vars, world, BootstrapFails
-----------------------------------------------------------------------------
LEMMA CountType ==
    ASSUME IsFiniteSet(report), NEW r
    PROVE  Count(r) \in Nat /\ (report = {} => Count(r) = 0)
<1>1. {d \in report : r \in d.covers} \in SUBSET report
  OBVIOUS
<1>2. IsFiniteSet({d \in report : r \in d.covers})
  BY <1>1, FS_Subset
<1>3. Count(r) \in Nat
  BY <1>2, FS_CardinalityType DEF Count
<1>4. report = {} => {d \in report : r \in d.covers} = {}
  OBVIOUS
<1> QED BY <1>3, <1>4, FS_EmptySet DEF Count

(* A detail more in the report counts what it covers once more at most.    *)
LEMMA CountAdded ==
    ASSUME IsFiniteSet(report), NEW d, report' = report \cup {d}, NEW r
    PROVE  /\ Count(r)' <= Count(r) + 1
           /\ r \notin d.covers => Count(r)' = Count(r)
<1> DEFINE S == {x \in report : r \in x.covers}
<1>1. S \in SUBSET report
  OBVIOUS
<1>2. IsFiniteSet(S) /\ Cardinality(S) \in Nat
  BY <1>1, FS_Subset, FS_CardinalityType
<1>3. Count(r) = Cardinality(S)
  BY DEF Count
<1>4. Count(r)' = Cardinality({x \in report' : r \in x.covers})
  BY DEF Count
<1>5. CASE r \in d.covers
  <2>1. {x \in report' : r \in x.covers} = S \cup {d}
    BY <1>5
  <2> HIDE DEF S
  <2>2. Cardinality(S \cup {d}) \in {Cardinality(S), Cardinality(S) + 1}
    BY <1>2, FS_AddElement
  <2>3. Count(r)' = Cardinality(S \cup {d})
    BY <1>4, <2>1
  <2>4. Count(r)' \in {Count(r), Count(r) + 1} /\ Count(r) \in Nat
    BY <1>2, <1>3, <2>2, <2>3
  <2> HIDE DEF Count
  <2> QED BY <1>5, <2>4
<1>6. CASE r \notin d.covers
  <2>1. {x \in report' : r \in x.covers} = S
    BY <1>6
  <2>2. Count(r)' = Count(r) /\ Count(r) \in Nat
    BY <1>2, <1>3, <1>4, <2>1
  <2> QED BY <1>6, <2>2
<1> QED BY <1>5, <1>6
-----------------------------------------------------------------------------
LEMMA InvInit == Init => Inv
<1> SUFFICES ASSUME Init PROVE Inv
  OBVIOUS
<1> USE IdleType DEF Init
<1>1. IsFiniteSet({})
  BY FS_EmptySet
<1>2. Types
  BY <1>1, MetricAssumption DEF Types
<1>3. Clock
  BY DEF Clock, Visiting
<1>4. Metrics /\ Details /\ Fresh
  BY DEF Metrics, Details, Fresh
<1>5. Counts
  <2> SUFFICES ASSUME NEW r \in Requests
               PROVE  /\ Bounded(reported[r], r.time, lastRun[Asset[r.api]])
                      /\ Bounded(Counted(r), r.time, Last(r))
    BY DEF Counts
  <2>1. Count(r) = 0 /\ reported[r] = 0
    BY <1>1, CountType
  <2> QED BY <2>1 DEF Bounded, Counted
<1>6. Window
  BY DEF Window, Visiting
<1> QED BY <1>2, <1>3, <1>4, <1>5, <1>6 DEF Inv

LEMMA TypesStep == Types /\ Clock /\ [Next]_vars => Types'
<1> SUFFICES ASSUME Types, Clock, [Next]_vars PROVE Types'
  OBVIOUS
<1>1. CASE Traffic
  BY <1>1 DEF Traffic, Types
<1>2. CASE Elapse
  BY <1>2 DEF Elapse, Types
<1>3. CASE Begin
  BY <1>3, BeginEffect DEF Types, Quiet
<1>4. ASSUME NEW a \in Tracked, Visit(a) PROVE Types'
  <2>1. emitter' \in EmitterType
        /\ UNCHANGED <<useMonitoringAPI, now, traffic, lastRun, report, reported>>
    BY <1>4, VisitEffect
  <2> QED BY <2>1 DEF Types
<1>5. CASE Emit
  <2>1. PICK m \in emitter.metrics :
          /\ emitter' \in EmitterType
          /\ report' = IF m.time > emitter.start
                       THEN report \cup {[start |-> emitter.start, end |-> m.time,
                                          covers |-> m.covers]}
                       ELSE report
          /\ UNCHANGED <<useMonitoringAPI, now, traffic, lastRun, reported>>
    BY <1>5, EmitEffect
  <2> DEFINE d == [start |-> emitter.start, end |-> m.time, covers |-> m.covers]
  <2>2. d \in DetailType
    BY DEF Types, EmitterType, MetricType, DetailType
  <2> HIDE DEF d
  <2>3. report' \in {report, report \cup {d}}
    BY <2>1 DEF d
  <2>4. report' \subseteq DetailType /\ IsFiniteSet(report')
    BY <2>2, <2>3, FS_AddElement DEF Types
  <2> QED BY <2>1, <2>4 DEF Types
<1>6. CASE SaveLastRun
  <2>1. emitter.endTime \in Nat
    BY DEF Types, EmitterType
  <2>2. lastRun' \in [Assets -> Nat]
    BY <1>6, <2>1, SaveEffect DEF Types
  <2> QED BY <1>6, <2>2, SaveEffect DEF Types, Quiet
<1>7. CASE Complete \/ Restart
  <2>1. \A r \in Requests : Counted(r) \in Nat
    BY CountType DEF Counted, Types
  <2>2. reported' \in [Requests -> Nat]
    BY <1>7, <2>1, EndEffect DEF Types
  <2> QED BY <1>7, <2>2, EndEffect, FS_EmptySet DEF Types, Quiet
<1>8. CASE UNCHANGED <<world, lastRun, emitter, report, reported>>
  BY <1>8 DEF Types, world
<1> QED BY <1>1, <1>2, <1>3, <1>4, <1>5, <1>6, <1>7, <1>8, Steps

LEMMA ClockStep == Types /\ Clock /\ Metrics /\ [Next]_vars => Clock'
<1> SUFFICES ASSUME Types, Clock, Metrics, [Next]_vars PROVE Clock'
  OBVIOUS
<1>0. /\ now \in Nat /\ \A x \in Assets : lastRun[x] \in Nat
      /\ emitter.stop \in Nat /\ emitter.start \in Nat /\ emitter.endTime \in Nat
  BY DEF Types, EmitterType
<1>1. CASE Traffic
  BY <1>1 DEF Traffic, Clock, Visiting
<1>2. CASE Elapse
  <2>1. now' = now + 1 /\ UNCHANGED <<useMonitoringAPI, lastRun, emitter>>
    BY <1>2 DEF Elapse
  <2> QED BY <1>0, <2>1 DEF Clock, Visiting
<1>3. CASE Begin
  BY <1>0, <1>3, BeginEffect DEF Clock, Quiet
<1>4. ASSUME NEW a \in Tracked, Visit(a) PROVE Clock'
  <2>1. /\ Visiting' /\ emitter'.api = a
        /\ emitter'.start = GetLastRun(a) /\ emitter'.endTime = GetLastRun(a)
        /\ emitter'.stop = emitter.stop
        /\ UNCHANGED <<useMonitoringAPI, now, lastRun>>
    BY <1>4, VisitEffect DEF Visiting
  <2>2. /\ GetLastRun(a) \in Nat /\ GetLastRun(a) <= now
        /\ lastRun[Asset[a]] \in {0, GetLastRun(a)}
    BY GetLastRunType
  <2> QED BY <2>1, <2>2 DEF Clock
<1>5. CASE Emit
  <2>1. PICK m \in emitter.metrics :
          /\ Visiting /\ Visiting'
          /\ emitter'.endTime = IF m.time > emitter.endTime THEN m.time ELSE emitter.endTime
          /\ emitter'.api = emitter.api /\ emitter'.start = emitter.start
          /\ emitter'.stop = emitter.stop
          /\ UNCHANGED <<useMonitoringAPI, now, lastRun>>
    BY <1>5, EmitEffect
  <2>2. m.time \in Nat /\ m.time <= now /\ (useMonitoringAPI => m.time < now)
    BY <1>0 DEF Metrics, Asked, Types, EmitterType, MetricType, Clock
  <2> QED BY <1>0, <2>1, <2>2 DEF Clock
<1>6. CASE SaveLastRun
  <2>1. /\ Quiet /\ Visiting
        /\ emitter'.stop = emitter.stop
        /\ lastRun' = [lastRun EXCEPT ![Asset[emitter.api]] = emitter.endTime]
        /\ UNCHANGED now
    BY <1>6, SaveEffect
  <2>2. \A x \in Assets : lastRun'[x] \in {lastRun[x], emitter.endTime}
    BY <2>1 DEF Types
  <2> QED BY <1>0, <2>1, <2>2 DEF Clock, Quiet
<1>7. CASE Complete \/ Restart
  BY <1>0, <1>7, EndEffect DEF Clock, Quiet
<1>8. CASE UNCHANGED <<world, lastRun, emitter, report, reported>>
  BY <1>8 DEF Clock, Visiting, world
<1> QED BY <1>1, <1>2, <1>3, <1>4, <1>5, <1>6, <1>7, <1>8, Steps

(* What the answer of a visit covers was asked for.                        *)
LEMMA AnswerOK ==
    ASSUME Types, Clock, NEW a \in Tracked, Visit(a), NEW m \in emitter'.metrics
    PROVE  /\ m \in MetricType /\ m.covers \subseteq traffic
           /\ \A r \in m.covers : r \in Requests /\ r.api = a
           /\ Asked(m)'
           /\ \A n \in emitter'.metrics, r \in m.covers : r \in n.covers => n = m
<1>1. /\ emitter' \in EmitterType
      /\ emitter'.start = GetLastRun(a) /\ emitter'.stop = emitter.stop
      /\ \/ emitter'.metrics = {}
         \/ /\ useMonitoringAPI
            /\ emitter'.unread \subseteq GetMonitoringArchive(a, GetLastRun(a))
            /\ emitter'.metrics = ArchiveMetrics(
                   GetMonitoringArchive(a, GetLastRun(a)) \ emitter'.unread)
         \/ /\ ~useMonitoringAPI
            /\ emitter'.metrics = GetMonitoringMetrics(a, GetLastRun(a), emitter.stop)
      /\ UNCHANGED <<useMonitoringAPI, now, traffic>>
  BY VisitEffect
<1>2. m \in MetricType /\ traffic \subseteq Requests
  BY <1>1 DEF EmitterType, Types
<1>3. CASE useMonitoringAPI
  <2>1. PICK q \in GetMonitoringArchive(a, GetLastRun(a)) : m = [time |-> q.time, covers |-> {q}]
    BY <1>1, <1>3 DEF ArchiveMetrics
  <2>2. q \in traffic /\ q.api = a /\ q.time < now
    BY DEF GetMonitoringArchive
  <2>3. ASSUME NEW n \in emitter'.metrics, q \in n.covers PROVE n = m
    <3>1. PICK p \in traffic : n = [time |-> p.time, covers |-> {p}]
      BY <1>1, <1>3 DEF ArchiveMetrics, GetMonitoringArchive
    <3> QED BY <2>1, <2>3, <3>1
  <2> QED BY <1>1, <1>2, <1>3, <2>1, <2>2, <2>3 DEF Asked
<1>4. CASE ~useMonitoringAPI
  <2>1. ASSUME NEW n \in emitter'.metrics
        PROVE  \E c \in Codes :
                 n = [time |-> emitter.stop,
                      covers |-> {r \in traffic : /\ r.api = a /\ r.code = c
                                                  /\ GetLastRun(a) <= r.time
                                                  /\ r.time <= emitter.stop}]
    BY <1>1, <1>4, <2>1 DEF GetMonitoringMetrics
  <2>2. PICK c \in Codes :
          m = [time |-> emitter.stop,
               covers |-> {r \in traffic : /\ r.api = a /\ r.code = c
                                           /\ GetLastRun(a) <= r.time
                                           /\ r.time <= emitter.stop}]
    BY <2>1
  <2>3. ASSUME NEW n \in emitter'.metrics, NEW r \in m.covers, r \in n.covers PROVE n = m
    <3>1. PICK b \in Codes :
            n = [time |-> emitter.stop,
                 covers |-> {q \in traffic : /\ q.api = a /\ q.code = b
                                             /\ GetLastRun(a) <= q.time
                                             /\ q.time <= emitter.stop}]
      BY <2>1
    <3>2. r.code = b /\ r.code = c
      BY <2>2, <2>3, <3>1
    <3> QED BY <2>2, <3>1, <3>2
  <2> QED BY <1>1, <1>2, <1>4, <2>2, <2>3 DEF Asked
<1> QED BY <1>3, <1>4

LEMMA MetricsStep == Types /\ Clock /\ Metrics /\ [Next]_vars => Metrics'
<1> SUFFICES ASSUME Types, Clock, Metrics, [Next]_vars PROVE Metrics'
  OBVIOUS
<1>0. /\ now \in Nat /\ \A m \in emitter.metrics : m.time \in Nat
  BY DEF Types, EmitterType, MetricType
<1>1. CASE Traffic
  BY <1>1 DEF Traffic, Metrics, Asked
<1>2. CASE Elapse
  <2>1. now' = now + 1 /\ UNCHANGED <<useMonitoringAPI, traffic, emitter>>
    BY <1>2 DEF Elapse
  <2> QED BY <1>0, <2>1 DEF Metrics, Asked
<1>3. CASE Begin
  BY <1>3, BeginEffect DEF Metrics, Quiet
<1>4. ASSUME NEW a \in Tracked, Visit(a) PROVE Metrics'
  <2>1. UNCHANGED traffic /\ emitter'.api = a
    BY <1>4, VisitEffect
  <2> QED BY <1>4, <2>1, AnswerOK DEF Metrics
<1>5. CASE Emit
  <2>1. /\ emitter'.metrics \subseteq emitter.metrics
        /\ emitter'.api = emitter.api /\ emitter'.start = emitter.start
        /\ emitter'.stop = emitter.stop
        /\ UNCHANGED <<useMonitoringAPI, now, traffic>>
    BY <1>5, EmitEffect
  <2>2. \A m : Asked(m)' <=> Asked(m)
    BY <2>1 DEF Asked
  <2> QED BY <2>1, <2>2 DEF Metrics
<1>6. CASE SaveLastRun
  BY <1>6, SaveEffect DEF Metrics, Quiet
<1>7. CASE Complete \/ Restart
  BY <1>7, EndEffect DEF Metrics, Quiet
<1>8. CASE UNCHANGED <<world, lastRun, emitter, report, reported>>
  BY <1>8 DEF Metrics, Asked, world
<1> QED BY <1>1, <1>2, <1>3, <1>4, <1>5, <1>6, <1>7, <1>8, Steps

LEMMA DetailsStep == Types /\ Clock /\ Metrics /\ Details /\ [Next]_vars => Details'
<1> SUFFICES ASSUME Types, Clock, Metrics, Details, [Next]_vars PROVE Details'
  OBVIOUS
<1>1. CASE Emit
  <2>1. PICK m \in emitter.metrics :
          report' = IF m.time > emitter.start
                    THEN report \cup {[start |-> emitter.start, end |-> m.time,
                                       covers |-> m.covers]}
                    ELSE report
    BY <1>1, EmitEffect
  <2>2. /\ emitter.start \in Nat /\ m.time \in Nat /\ m.covers \subseteq Requests
        /\ Asked(m)
    BY DEF Types, EmitterType, MetricType, Metrics
  <2>3. ASSUME m.time > emitter.start, NEW r \in m.covers
        PROVE  emitter.start <= r.time /\ r.time <= m.time
    BY <2>2, <2>3, RequestType DEF Asked
  <2> QED BY <2>1, <2>2, <2>3 DEF Details
<1>2. ASSUME UNCHANGED report PROVE Details'
  BY <1>2 DEF Details
<1>3. CASE Complete \/ Restart
  BY <1>3, EndEffect DEF Details
<1>4. ASSUME NEW a \in Tracked, Visit(a) PROVE Details'
  BY <1>2, <1>4, VisitEffect
<1> QED BY <1>1, <1>2, <1>3, <1>4, Steps, BeginEffect, SaveEffect DEF Traffic, Elapse
-----------------------------------------------------------------------------
LEMMA CountUnchanged ==
    ASSUME UNCHANGED report, NEW r
    PROVE  Count(r)' = Count(r)
BY DEF Count

LEMMA CountingType ==
    ASSUME Types, Clock, NEW r \in Requests
    PROVE  /\ reported[r] \in Nat /\ Count(r) \in Nat /\ Counted(r) \in Nat
           /\ Counted(r) = reported[r] + Count(r)
           /\ lastRun[Asset[r.api]] \in Nat /\ Last(r) \in Nat /\ r.time \in Nat
           /\ lastRun[Asset[r.api]] <= Last(r)
<1>1. reported[r] \in Nat /\ Count(r) \in Nat
  BY CountType DEF Types
<1>2. lastRun[Asset[r.api]] \in Nat /\ r.time \in Nat
  BY RequestType DEF Types
<1>3. Last(r) \in Nat /\ lastRun[Asset[r.api]] <= Last(r)
  <2>1. emitter.endTime \in Nat /\ emitter.start \in Nat /\ emitter.start <= emitter.endTime
    BY DEF Types, EmitterType, Clock
  <2>2. CASE Visiting /\ Asset[emitter.api] = Asset[r.api]
    BY <1>2, <2>1, <2>2 DEF Last, Clock
  <2>3. CASE ~(Visiting /\ Asset[emitter.api] = Asset[r.api])
    BY <1>2, <2>3 DEF Last
  <2> QED BY <2>2, <2>3
<1> QED BY <1>1, <1>2, <1>3 DEF Counted

(* The bound stays when the time of the last report moves on.              *)
LEMMA BoundedLater ==
    ASSUME NEW n, NEW t \in Nat, NEW last \in Nat, NEW next \in Nat,
           last <= next, Bounded(n, t, last)
    PROVE  Bounded(n, t, next)
BY DEF Bounded

(* The bound of one request is kept while neither its counts nor the times *)
(* of the last report go back.                                             *)
LEMMA BoundKept ==
    ASSUME Types, Clock, NEW r \in Requests, UNCHANGED useMonitoringAPI,
           Bounded(reported[r], r.time, lastRun[Asset[r.api]]),
           Bounded(Counted(r), r.time, Last(r)),
           UNCHANGED reported, Counted(r)' = Counted(r),
           lastRun'[Asset[r.api]] \in Nat, Last(r)' \in Nat,
           lastRun[Asset[r.api]] <= lastRun'[Asset[r.api]], Last(r) <= Last(r)'
    PROVE  /\ Bounded(reported[r], r.time, lastRun[Asset[r.api]])'
           /\ Bounded(Counted(r), r.time, Last(r))'
<1>1. /\ lastRun[Asset[r.api]] \in Nat /\ Last(r) \in Nat /\ r.time \in Nat
  BY CountingType
<1>2. Bounded(reported[r], r.time, lastRun'[Asset[r.api]])
  BY <1>1, BoundedLater
<1> DEFINE next == Last(r)'
<1>3. Bounded(Counted(r), r.time, next)
  <2> HIDE DEF next
  <2> QED BY <1>1, BoundedLater DEF next
<1> QED BY <1>2, <1>3 DEF Bounded

LEMMA CountsStep == Types /\ Clock /\ Metrics /\ Fresh /\ Counts /\ [Next]_vars => Counts'
<1> SUFFICES ASSUME Types, Clock, Metrics, Fresh, Counts, [Next]_vars,
                    NEW r \in Requests
             PROVE  /\ Bounded(reported[r], r.time, lastRun[Asset[r.api]])'
                    /\ Bounded(Counted(r), r.time, Last(r))'
  BY DEF Counts
<1> DEFINE Goal == /\ Bounded(reported[r], r.time, lastRun[Asset[r.api]])'
                   /\ Bounded(Counted(r), r.time, Last(r))'
<1>0. /\ Bounded(reported[r], r.time, lastRun[Asset[r.api]])
      /\ Bounded(Counted(r), r.time, Last(r))
  BY DEF Counts
<1>a. /\ reported[r] \in Nat /\ Count(r) \in Nat /\ Counted(r) \in Nat
      /\ Counted(r) = reported[r] + Count(r)
      /\ lastRun[Asset[r.api]] \in Nat /\ Last(r) \in Nat /\ r.time \in Nat
      /\ lastRun[Asset[r.api]] <= Last(r)
  BY CountingType
<1>b. r.api \in Tracked /\ Asset[r.api] \in Assets
  BY RequestType
<1>c. ASSUME UNCHANGED <<useMonitoringAPI, lastRun, report, reported>>,
             Last(r)' = Last(r)
      PROVE  Goal
  <2>1. Counted(r)' = Counted(r)
    BY <1>c, CountUnchanged DEF Counted
  <2> QED BY <1>0, <1>a, <1>c, <2>1, BoundKept
<1>1. CASE Traffic
  BY <1>1, <1>c DEF Traffic, Last, Visiting
<1>2. CASE Elapse
  BY <1>2, <1>c DEF Elapse, Last, Visiting
<1>3. CASE Begin
  BY <1>3, <1>c, BeginEffect DEF Last, Quiet
<1>4. ASSUME NEW a \in Tracked, Visit(a) PROVE Goal
  <2>1. /\ ~Visiting /\ Visiting' /\ emitter'.api = a
        /\ emitter'.endTime = GetLastRun(a)
        /\ UNCHANGED <<useMonitoringAPI, lastRun, report, reported>>
    BY <1>4, VisitEffect DEF Visiting
  <2>2. GetLastRun(a) \in Nat /\ lastRun[Asset[a]] <= GetLastRun(a)
    BY GetLastRunType
  <2>3. Last(r) = lastRun[Asset[r.api]]
    BY <2>1 DEF Last
  <2>4. Last(r)' = IF Asset[a] = Asset[r.api] THEN GetLastRun(a) ELSE lastRun[Asset[r.api]]
    BY <2>1 DEF Last
  <2>5. Last(r)' \in Nat /\ Last(r) <= Last(r)'
    BY <1>a, <2>2, <2>3, <2>4
  <2>6. Counted(r)' = Counted(r)
    BY <2>1, CountUnchanged DEF Counted
  <2> QED BY <1>0, <1>a, <2>1, <2>5, <2>6, BoundKept
<1>5. CASE Emit
  <2>1. PICK m \in emitter.metrics :
          /\ Visiting /\ Visiting'
          /\ emitter'.endTime = IF m.time > emitter.endTime THEN m.time ELSE emitter.endTime
          /\ emitter'.api = emitter.api /\ emitter'.start = emitter.start
          /\ report' = IF m.time > emitter.start
                       THEN report \cup {[start |-> emitter.start, end |-> m.time,
                                          covers |-> m.covers]}
                       ELSE report
          /\ UNCHANGED <<useMonitoringAPI, lastRun, reported>>
    BY <1>5, EmitEffect
  <2>2. /\ m.time \in Nat /\ emitter.endTime \in Nat /\ emitter.start \in Nat
        /\ IsFiniteSet(report)
    BY DEF Types, EmitterType, MetricType
  <2>3. Last(r)' \in Nat /\ Last(r) <= Last(r)'
    BY <1>a, <2>1, <2>2 DEF Last
  <2> DEFINE d == [start |-> emitter.start, end |-> m.time, covers |-> m.covers]
  <2>4. CASE m.time > emitter.start /\ r \in m.covers
    <3>1. report' = report \cup {d} /\ r \in d.covers
      BY <2>1, <2>4
    <3> HIDE DEF d
    <3>2. Count(r)' <= Count(r) + 1 /\ Count(r)' \in Nat
      <4>1. IsFiniteSet(report')
        BY <2>2, <3>1, FS_AddElement
      <4>2. {x \in report' : r \in x.covers} \in SUBSET report'
        OBVIOUS
      <4>3. Count(r)' \in Nat
        BY <4>1, <4>2, FS_Subset, FS_CardinalityType DEF Count
      <4> QED BY <2>2, <3>1, <4>3, CountAdded
    <3>3. Counted(r)' = reported[r] + Count(r)'
      BY <2>1 DEF Counted
    <3>4. r.api = emitter.api /\ Asked(m)
      BY <2>4 DEF Metrics
    <3>5. Last(r)' = emitter'.endTime /\ m.time <= Last(r)'
      BY <2>1, <2>2, <3>4 DEF Last
    <3>6. Bounded(Counted(r), r.time, Last(r))'
      <4>1. CASE useMonitoringAPI
        <5>1. Counted(r) = 0 /\ r.time = m.time
          BY <2>4, <3>4, <4>1 DEF Fresh, Asked
        <5>2. Counted(r)' <= 1 /\ Counted(r)' \in Nat
          BY <1>a, <3>2, <3>3, <5>1
        <5>3. r.time <= Last(r)'
          BY <3>5, <5>1
        <5> QED BY <5>2, <5>3 DEF Bounded
      <4>2. CASE ~useMonitoringAPI
        <5>1. /\ Counted(r) <= 1 /\ (Counted(r) = 1 => r.time <= emitter.start)
              /\ r.time <= m.time
          BY <2>4, <3>4, <4>2 DEF Fresh, Asked
        <5>2. Counted(r)' <= Counted(r) + 1 /\ Counted(r)' \in Nat
          BY <1>a, <3>2, <3>3
        <5>3. r.time <= Last(r)' /\ (Counted(r) = 1 => r.time < Last(r)')
          BY <1>a, <2>2, <2>3, <2>4, <3>5, <5>1
        <5>4. /\ Counted(r)' >= 2 => r.time < Last(r)'
              /\ Counted(r)' <= 2
          BY <1>a, <5>1, <5>2, <5>3
        <5> QED BY <2>1, <4>2, <5>3, <5>4 DEF Bounded
      <4> QED BY <4>1, <4>2
    <3> QED BY <1>0, <2>1, <3>6 DEF Bounded
  <2>5. CASE ~(m.time > emitter.start /\ r \in m.covers)
    <3>1. Count(r)' = Count(r)
      <4>1. CASE m.time > emitter.start
        <5>1. report' = report \cup {d} /\ r \notin d.covers
          BY <2>1, <2>5, <4>1
        <5> HIDE DEF d
        <5> QED BY <2>2, <5>1, CountAdded
      <4>2. CASE ~(m.time > emitter.start)
        BY <2>1, <4>2, CountUnchanged
      <4> QED BY <4>1, <4>2
    <3>2. Counted(r)' = Counted(r)
      BY <2>1, <3>1 DEF Counted
    <3> QED BY <1>0, <1>a, <2>1, <2>3, <3>2, BoundKept
  <2> QED BY <2>4, <2>5
<1>6. CASE SaveLastRun
  <2>1. /\ Visiting /\ ~Visiting'
        /\ lastRun' = [lastRun EXCEPT ![Asset[emitter.api]] = emitter.endTime]
        /\ UNCHANGED <<useMonitoringAPI, report, reported>>
    BY <1>6, SaveEffect DEF Quiet
  <2>2. lastRun'[Asset[r.api]] = Last(r)
    BY <1>b, <2>1 DEF Last, Types
  <2>3. Last(r)' = Last(r)
    BY <2>1, <2>2 DEF Last
  <2>4. Counted(r)' = Counted(r)
    BY <2>1, CountUnchanged DEF Counted
  <2> QED BY <1>0, <1>a, <2>1, <2>2, <2>3, <2>4, BoundKept
<1>7. CASE Complete \/ Restart
  <2>1. /\ ~Visiting' /\ report' = {}
        /\ UNCHANGED <<useMonitoringAPI, lastRun>>
        /\ \/ ~Visiting /\ reported' = [q \in Requests |-> Counted(q)]
           \/ UNCHANGED reported
    BY <1>7, EndEffect DEF Quiet
  <2>2. Count(r)' = 0
    <3>1. {d \in report' : r \in d.covers} = {}
      BY <2>1
    <3> QED BY <3>1, FS_EmptySet DEF Count
  <2>3. Last(r)' = lastRun[Asset[r.api]] /\ lastRun'[Asset[r.api]] = lastRun[Asset[r.api]]
    BY <2>1 DEF Last
  <2>4. CASE ~Visiting /\ reported' = [q \in Requests |-> Counted(q)]
    <3>1. reported'[r] = Counted(r) /\ Last(r) = lastRun[Asset[r.api]]
      BY <2>4 DEF Last
    <3>2. Counted(r)' = Counted(r)
      BY <1>a, <2>2, <3>1 DEF Counted
    <3> QED BY <1>0, <2>1, <2>3, <3>1, <3>2 DEF Bounded
  <2>5. CASE UNCHANGED reported
    <3>1. Counted(r)' = reported[r]
      BY <1>a, <2>2, <2>5 DEF Counted
    <3> QED BY <1>0, <2>1, <2>3, <2>5, <3>1 DEF Bounded
  <2> QED BY <2>1, <2>4, <2>5
<1>8. CASE UNCHANGED <<world, lastRun, emitter, report, reported>>
  BY <1>8, <1>c DEF world, Last, Visiting
<1> QED BY <1>1, <1>2, <1>3, <1>4, <1>5, <1>6, <1>7, <1>8, Steps

LEMMA FreshStep == Types /\ Clock /\ Metrics /\ Fresh /\ Counts /\ [Next]_vars => Fresh'
<1> SUFFICES ASSUME Types, Clock, Metrics, Fresh, Counts, [Next]_vars PROVE Fresh'
  OBVIOUS
<1>1. ASSUME UNCHANGED <<useMonitoringAPI, emitter, report, reported>> PROVE Fresh'
  <2>1. \A r : Count(r)' = Count(r)
    BY <1>1, CountUnchanged
  <2> QED BY <1>1, <2>1 DEF Fresh, Counted
<1>2. ASSUME emitter'.metrics = {} PROVE Fresh'
  BY <1>2 DEF Fresh
<1>3. ASSUME NEW a \in Tracked, Visit(a) PROVE Fresh'
  <2>1. /\ ~Visiting /\ emitter'.start = GetLastRun(a)
        /\ UNCHANGED <<useMonitoringAPI, lastRun, report, reported>>
    BY <1>3, VisitEffect
  <2>2. GetLastRun(a) \in Nat /\ lastRun[Asset[a]] <= GetLastRun(a)
        /\ lastRun[Asset[a]] \in Nat
    BY GetLastRunType
  <2> SUFFICES ASSUME NEW m \in emitter'.metrics, NEW r \in m.covers, m.time > GetLastRun(a)
               PROVE  IF useMonitoringAPI THEN Counted(r)' = 0
                      ELSE Counted(r)' <= 1 /\ (Counted(r)' = 1 => r.time <= GetLastRun(a))
    BY <2>1 DEF Fresh
  <2>3. m \in MetricType /\ r \in Requests /\ r.api = a /\ Asked(m)'
    BY <1>3, AnswerOK
  <2>4. Counted(r)' = Counted(r) /\ Counted(r) \in Nat /\ r.time \in Nat
    BY <2>1, <2>3, CountUnchanged, CountingType DEF Counted
  <2>5. Bounded(Counted(r), r.time, lastRun[Asset[a]])
    BY <2>1, <2>3 DEF Counts, Last
  <2>6. CASE useMonitoringAPI
    <3>1. r.time = m.time /\ m.time \in Nat
      BY <2>1, <2>3, <2>6 DEF Asked, MetricType
    <3>2. ~(Counted(r) >= 1)
      BY <2>2, <2>5, <3>1 DEF Bounded
    <3> QED BY <2>4, <2>6, <3>2
  <2>7. CASE ~useMonitoringAPI
    <3>1. GetLastRun(a) <= r.time
      BY <2>1, <2>3, <2>7 DEF Asked
    <3>2. ~(Counted(r) >= 2) /\ (Counted(r) = 1 => r.time <= lastRun[Asset[a]])
      BY <2>2, <2>4, <2>5, <3>1 DEF Bounded
    <3> QED BY <2>2, <2>4, <2>7, <3>2
  <2> QED BY <2>6, <2>7
<1>4. CASE Emit
  <2>1. PICK m \in emitter.metrics :
          /\ emitter'.metrics = emitter.metrics \ {m}
          /\ emitter'.start = emitter.start
          /\ report' = IF m.time > emitter.start
                       THEN report \cup {[start |-> emitter.start, end |-> m.time,
                                          covers |-> m.covers]}
                       ELSE report
          /\ UNCHANGED <<useMonitoringAPI, reported>>
    BY <1>4, EmitEffect
  <2>2. ASSUME NEW n \in emitter'.metrics, NEW r \in n.covers
        PROVE  Counted(r)' = Counted(r)
    <3>1. n \in emitter.metrics /\ n # m /\ r \notin m.covers
      BY <2>1 DEF Metrics
    <3> DEFINE d == [start |-> emitter.start, end |-> m.time, covers |-> m.covers]
    <3>2. report' \in {report, report \cup {d}} /\ r \notin d.covers
      BY <2>1, <3>1
    <3> HIDE DEF d
    <3>3. Count(r)' = Count(r)
      BY <3>2, CountUnchanged, CountAdded DEF Types
    <3> QED BY <2>1, <3>3 DEF Counted
  <2> QED BY <2>1, <2>2 DEF Fresh
<1> QED BY <1>1, <1>2, <1>3, <1>4, Steps, BeginEffect, SaveEffect, EndEffect
       DEF Traffic, Elapse, Quiet, world

(* What the time of the last report has passed when a visit begins, or     *)
(* will, is among the metrics that arrive or was not read.                 *)
LEMMA WindowBegins ==
    ASSUME Types, Clock, NEW a \in Tracked, Visit(a) PROVE Window'
<1>1. /\ emitter'.api = a
      /\ emitter'.start = GetLastRun(a) /\ emitter'.endTime = GetLastRun(a)
      /\ \/ emitter'.metrics = {}
         \/ /\ useMonitoringAPI
            /\ emitter'.metrics = ArchiveMetrics(
                   GetMonitoringArchive(a, GetLastRun(a)) \ emitter'.unread)
         \/ /\ ~useMonitoringAPI
            /\ emitter'.metrics = GetMonitoringMetrics(a, GetLastRun(a), emitter.stop)
      /\ UNCHANGED <<useMonitoringAPI, now, traffic>>
  BY VisitEffect
<1>2. GetLastRun(a) \in Nat
  BY GetLastRunType
<1>3. traffic \subseteq Requests /\ emitter.stop \in Nat /\ now \in Nat
  BY DEF Types, EmitterType
<1> DEFINE s == GetLastRun(a)
<1> SUFFICES ASSUME NEW r \in traffic, r.api = a, Passed(r)'
             PROVE  \/ r \in emitter'.unread
                    \/ \E m \in emitter'.metrics : r \in m.covers /\ m.time > s
  BY <1>1 DEF Window
<1>4. r \in Requests /\ r.time \in Nat /\ r.code \in Codes
  BY <1>3, RequestType
<1>5. PICK m \in emitter'.metrics :
        IF useMonitoringAPI THEN s < r.time /\ r.time <= m.time
                            ELSE s <= r.time /\ r.time < m.time
  <2> HIDE DEF s
  <2>1. emitter'.start = s /\ emitter'.endTime = s /\ s \in Nat
        /\ useMonitoringAPI' = useMonitoringAPI
    BY <1>1, <1>2 DEF s
  <2>2. \/ IF useMonitoringAPI THEN s < r.time /\ r.time <= s ELSE s <= r.time /\ r.time < s
        \/ \E m \in emitter'.metrics :
              IF useMonitoringAPI THEN s < r.time /\ r.time <= m.time
                                  ELSE s <= r.time /\ r.time < m.time
    BY <2>1 DEF Passed, Passes
  <2> QED BY <1>4, <2>1, <2>2
<1>6. CASE useMonitoringAPI
  <2>1. PICK q \in traffic : /\ q.time < now /\ Day(q.time) = Day(s)
                             /\ m.time = q.time
    BY <1>1, <1>6 DEF ArchiveMetrics, GetMonitoringArchive
  <2>2. q.time \in Nat
    BY <1>3, RequestType
  <2>3. s < r.time /\ r.time <= q.time
    BY <1>5, <1>6, <2>1
  <2>4. Day(r.time) = Day(s)
    <3>1. s <= r.time
      BY <1>2, <1>4, <2>3
    <3>2. Day(s) <= Day(r.time) /\ Day(r.time) <= Day(q.time) /\ Day(s) \in Nat
          /\ Day(r.time) \in Nat
      BY <1>2, <1>4, <2>2, <2>3, <3>1, DayMonotone
    <3> HIDE DEF s
    <3> QED BY <2>1, <3>2
  <2>5. r.time < now
    BY <1>3, <1>4, <2>1, <2>2, <2>3
  <2>6. r \in GetMonitoringArchive(a, s)
    BY <2>4, <2>5 DEF GetMonitoringArchive
  <2>7. CASE r \notin emitter'.unread
    <3>1. [time |-> r.time, covers |-> {r}] \in emitter'.metrics
      BY <1>1, <1>5, <1>6, <2>6, <2>7 DEF ArchiveMetrics
    <3> HIDE DEF s
    <3> QED BY <1>4, <2>3, <3>1
  <2> QED BY <2>7
<1>7. CASE ~useMonitoringAPI
  <2> DEFINE covers == {q \in traffic : /\ q.api = a /\ q.code = r.code
                                        /\ s <= q.time /\ q.time <= emitter.stop}
             n == [time |-> emitter.stop, covers |-> covers]
  <2>1. emitter'.metrics = GetMonitoringMetrics(a, s, emitter.stop) /\ m.time = emitter.stop
    BY <1>1, <1>5, <1>7 DEF GetMonitoringMetrics
  <2>2. s <= r.time /\ r.time < emitter.stop
    BY <1>5, <1>7, <2>1
  <2>3. r \in covers
    BY <1>3, <1>4, <2>2
  <2>4. n \in emitter'.metrics
    <3>1. n \in {[time |-> emitter.stop,
                  covers |-> {q \in traffic : /\ q.api = a /\ q.code = c
                                              /\ s <= q.time /\ q.time <= emitter.stop}] :
                    c \in Codes}
      BY <1>4
    <3>2. n # [time |-> emitter.stop, covers |-> {}]
      BY <2>3
    <3> HIDE DEF n
    <3> QED BY <2>1, <3>1, <3>2 DEF GetMonitoringMetrics
  <2>5. n.time > s
    BY <1>2, <1>3, <1>4, <2>2
  <2> QED BY <2>3, <2>4, <2>5
<1> QED BY <1>6, <1>7

LEMMA WindowStep == Types /\ Clock /\ Metrics /\ Window /\ [Next]_vars => Window'
<1> SUFFICES ASSUME Types, Clock, Metrics, Window, [Next]_vars PROVE Window'
  OBVIOUS
<1>0. /\ now \in Nat /\ emitter.start \in Nat /\ emitter.endTime \in Nat
      /\ \A m \in emitter.metrics : m.time \in Nat
  BY DEF Types, EmitterType, MetricType
<1>1. ASSUME UNCHANGED <<useMonitoringAPI, traffic, emitter, report>> PROVE Window'
  BY <1>1 DEF Window, Visiting, Passed, Passes, InReport
<1>2. ASSUME ~Visiting' PROVE Window'
  BY <1>2 DEF Window
<1>3. CASE Traffic
  <2>1. PICK q \in Requests : q.time = now /\ traffic' = traffic \cup {q}
    BY <1>3 DEF Traffic
  <2>2. UNCHANGED <<useMonitoringAPI, emitter, report>>
    BY <1>3 DEF Traffic
  <2>3. ASSUME Visiting PROVE ~Passed(q)
    <3>1. ~Passes(now, emitter.start, emitter.endTime)
      BY <1>0 DEF Passes, Clock
    <3>2. \A m \in emitter.metrics : ~Passes(now, emitter.start, m.time)
      <4> SUFFICES ASSUME NEW m \in emitter.metrics
                   PROVE  ~Passes(now, emitter.start, m.time)
        OBVIOUS
      <4>1. Asked(m) /\ emitter.stop <= now /\ emitter.stop \in Nat
        BY DEF Metrics, Clock, Types, EmitterType
      <4> QED BY <1>0, <4>1 DEF Passes, Asked
    <3> QED BY <2>1, <3>1, <3>2 DEF Passed
  <2>4. \A r : (Passed(r)' <=> Passed(r)) /\ (InReport(r)' <=> InReport(r))
    BY <2>2 DEF Passed, Passes, InReport
  <2>5. Visiting' <=> Visiting
    BY <2>2 DEF Visiting
  <2> QED BY <2>1, <2>2, <2>3, <2>4, <2>5 DEF Window
<1>4. CASE Emit
  <2>1. PICK m \in emitter.metrics :
          /\ Visiting /\ Visiting'
          /\ emitter'.metrics = emitter.metrics \ {m}
          /\ emitter'.endTime = IF m.time > emitter.endTime THEN m.time ELSE emitter.endTime
          /\ emitter'.api = emitter.api /\ emitter'.start = emitter.start
          /\ emitter'.unread = emitter.unread
          /\ report' = IF m.time > emitter.start
                       THEN report \cup {[start |-> emitter.start, end |-> m.time,
                                          covers |-> m.covers]}
                       ELSE report
          /\ UNCHANGED <<useMonitoringAPI, traffic>>
    BY <1>4, EmitEffect
  <2> SUFFICES ASSUME NEW r \in traffic, r.api = emitter.api, Passed(r)'
               PROVE  \/ InReport(r)' \/ r \in emitter.unread
                      \/ \E n \in emitter'.metrics : r \in n.covers /\ n.time > emitter.start
    BY <2>1 DEF Window
  <2>2. Passed(r)
    <3>1. CASE Passes(r.time, emitter.start, emitter'.endTime)
      BY <2>1, <3>1 DEF Passed
    <3>2. CASE \E n \in emitter'.metrics : Passes(r.time, emitter.start, n.time)
      BY <2>1, <3>2 DEF Passed
    <3> QED BY <2>1, <3>1, <3>2 DEF Passed, Passes
  <2>3. InReport(r) => InReport(r)'
    BY <2>1 DEF InReport
  <2>4. r \in m.covers /\ m.time > emitter.start => InReport(r)'
    <3> SUFFICES ASSUME r \in m.covers, m.time > emitter.start PROVE InReport(r)'
      OBVIOUS
    <3> DEFINE d == [start |-> emitter.start, end |-> m.time, covers |-> m.covers]
    <3>1. d \in report' /\ r \in d.covers
      BY <2>1
    <3> QED BY <3>1 DEF InReport
  <2> QED BY <2>1, <2>2, <2>3, <2>4 DEF Window
<1> QED BY <1>1, <1>2, <1>3, <1>4, Steps, WindowBegins, BeginEffect, SaveEffect, EndEffect
       DEF Elapse, Quiet, world
-----------------------------------------------------------------------------
(* The parts hold together whatever is made, fails and restarts.           *)
THEOREM ReportingInvariant == Spec => []Inv
<1>1. Init => Inv
  BY InvInit
<1>2. Inv /\ [Next]_vars => Inv'
  BY TypesStep, ClockStep, MetricsStep, DetailsStep, CountsStep, FreshStep, WindowStep
     DEF Inv
<1> QED BY <1>1, <1>2, PTL DEF Spec

(* Type correctness of reporting: windows do not end before they begin nor *)
(* in the future, and metrics cover requests of their window only.         *)
THEOREM ReportingTypeCorrect == Spec => []TypeOK
<1>1. Inv => TypeOK
  <2> SUFFICES ASSUME Inv PROVE TypeOK
    OBVIOUS
  <2>1. /\ useMonitoringAPI \in BOOLEAN
        /\ now \in Nat \ {0} /\ traffic \subseteq Requests
        /\ lastRun \in [Assets -> Nat] /\ reported \in [Requests -> Nat]
    BY DEF Inv, Types
  <2>2. /\ emitter.at \in {"idle", "loop", "emit", "emitLast", "failed"}
        /\ emitter.todo \subseteq Apis
        /\ \A m \in emitter.metrics : m.time \in Nat
    BY DEF Inv, Types, EmitterType, MetricType, Tracked
  <2>3. /\ emitter.at \in {"emit", "emitLast"} => emitter.api \in Tracked
        /\ emitter.start <= emitter.endTime /\ emitter.endTime <= now
    BY DEF Inv, Clock, Visiting
  <2>4. /\ \A m \in emitter.metrics : /\ m.covers \subseteq traffic
                                      /\ \A r \in m.covers : r.api = emitter.api
        /\ \A d \in report : /\ d.start < d.end
                             /\ \A r \in d.covers : d.start <= r.time /\ r.time <= d.end
    BY DEF Inv, Metrics, Details
  <2> QED BY <2>1, <2>2, <2>3, <2>4 DEF TypeOK
<1> QED BY <1>1, ReportingInvariant, PTL

(* However often runs fail, end early or are restarted, and in whatever    *)
(* order metrics come, no request is counted twice; by the data base at    *)
(* most twice, at the end of a window and the start of the next.           *)
THEOREM RequestsCountOnce == Spec => []NotCountedTwice
<1>1. Inv => NotCountedTwice
  <2> SUFFICES ASSUME Inv, NEW r \in traffic
               PROVE  Counted(r) <= IF useMonitoringAPI THEN 1 ELSE 2
    BY DEF NotCountedTwice, Counted, Count
  <2>1. r \in Requests /\ Types /\ Clock /\ Counts
    BY DEF Inv, Types
  <2>2. Counted(r) \in Nat /\ Bounded(Counted(r), r.time, Last(r))
    BY <2>1, CountingType DEF Counts
  <2> QED BY <2>2 DEF Bounded
<1> QED BY <1>1, ReportingInvariant, PTL

(* No two APIs share an asset, and so the time of the last report.         *)
OwnAssets == \A a, b \in Tracked : Asset[a] = Asset[b] => a = b

(* A step of WindowLosesNothing.                                           *)
WindowStepKept ==
    \A r \in traffic :
       LET last == lastRun[Asset[r.api]]
           next == lastRun'[Asset[r.api]]
       IN  last # 0 /\ Passes(r.time, last, next)
             => \/ InReport(r)'
                \/ emitter.api = r.api /\ r \in emitter.unread

LEMMA WindowKept == ASSUME OwnAssets, Inv, [Next]_vars PROVE WindowStepKept
<1> SUFFICES ASSUME Inv, [Next]_vars, NEW r \in traffic,
                    lastRun[Asset[r.api]] # 0,
                    Passes(r.time, lastRun[Asset[r.api]], lastRun'[Asset[r.api]])
             PROVE  InReport(r)' \/ (emitter.api = r.api /\ r \in emitter.unread)
  BY DEF WindowStepKept
<1> DEFINE Goal == InReport(r)' \/ (emitter.api = r.api /\ r \in emitter.unread)
<1>1. Types /\ Clock /\ Window
  BY DEF Inv
<1>2. /\ r \in Requests /\ r.time \in Nat /\ r.api \in Tracked
      /\ Asset[r.api] \in Assets /\ lastRun[Asset[r.api]] \in Nat
  BY <1>1, RequestType DEF Types
<1>3. ASSUME lastRun'[Asset[r.api]] = lastRun[Asset[r.api]] PROVE Goal
  BY <1>2, <1>3 DEF Passes
<1>4. CASE SaveLastRun
  <2>1. /\ Visiting /\ emitter.metrics = {}
        /\ lastRun' = [lastRun EXCEPT ![Asset[emitter.api]] = emitter.endTime]
        /\ UNCHANGED report
    BY <1>1, <1>4, SaveEffect
  <2>2. CASE Asset[r.api] # Asset[emitter.api]
    BY <1>1, <1>2, <1>3, <2>1, <2>2 DEF Types
  <2>3. CASE Asset[r.api] = Asset[emitter.api]
    <3>1. emitter.api = r.api /\ lastRun[Asset[r.api]] = emitter.start
      BY <1>1, <1>2, <2>1, <2>3 DEF Clock, OwnAssets
    <3>2. lastRun'[Asset[r.api]] = emitter.endTime
      BY <1>1, <1>2, <2>1, <2>3 DEF Types
    <3>3. Passed(r)
      BY <3>1, <3>2 DEF Passed
    <3>4. InReport(r) \/ r \in emitter.unread
      BY <1>1, <2>1, <3>1, <3>3 DEF Window
    <3> QED BY <2>1, <3>1, <3>4 DEF InReport
  <2> QED BY <2>2, <2>3
<1>5. ASSUME UNCHANGED lastRun PROVE Goal
  BY <1>3, <1>5
<1> HIDE DEF Goal
<1>6. ASSUME NEW a \in Tracked, Visit(a) PROVE Goal
  BY <1>1, <1>5, <1>6, VisitEffect
<1>7. Begin => Goal
  BY <1>1, <1>5, BeginEffect
<1>8. Complete \/ Restart => Goal
  BY <1>1, <1>5, EndEffect
<1>9. Traffic \/ Elapse \/ Emit => Goal
  BY <1>5 DEF Traffic, Elapse, Emit
<1> QED BY <1>4, <1>5, <1>6, <1>7, <1>8, <1>9, Steps DEF Goal

(* Where no two APIs share an asset, nothing falls between two windows but *)
(* what could not be read.                                                 *)
THEOREM NothingBetweenWindows == ASSUME OwnAssets PROVE Spec => WindowLosesNothing
<1>1. Inv /\ [Next]_vars => [WindowStepKept]_vars
  BY WindowKept
<1>2. Spec => [][WindowStepKept]_vars
  BY <1>1, ReportingInvariant, PTL DEF Spec
<1> QED BY <1>2 DEF WindowStepKept, WindowLosesNothing
-----------------------------------------------------------------------------
(* From the traffic to the report handed over, for one request and as long *)
(* as nothing fails.  A run that begins once the request is owed asks for  *)
(* its time; then the request is among the metrics, then in the report.    *)
NoFault == faults' = faults
Rested == /\ IsFiniteSet(traffic) /\ faults \in Nat
          /\ emitter.at = "idle" => report = {}
InTime(r) == useMonitoringAPI \/ emitter.at = "idle" \/ r.time < emitter.stop
Waiting(r) == Owed(r) /\ InTime(r)
Underway(r) == /\ emitter.at = "emit"
               /\ \E m \in emitter.metrics : r \in m.covers /\ m.time > emitter.start
Done(r) == reported[r] > 0

(* What the steps between two visits make of the emitter.                  *)
LEMMA BetweenVisits ==
    ASSUME Types
    PROVE  /\ Begin => /\ emitter.at = "idle" /\ emitter'.at = "loop" /\ emitter'.unread = {}
                       /\ ~useMonitoringAPI => emitter'.stop = now
           /\ SaveLastRun => emitter'.at \in {"loop", "failed"} /\ emitter'.unread = {}
           /\ Complete \/ Restart => emitter' = Idle
           /\ Idle.at = "idle" /\ Idle.unread = {}
<1>1. /\ Idle.at = "idle" /\ Idle.unread = {}
      /\ \A at, todo, stop :
            LET e == [Idle EXCEPT !.at = at, !.todo = todo, !.stop = stop]
            IN  e.at = at /\ e.unread = {} /\ e.stop = stop
  BY DEF Idle
<1>2. ASSUME Begin
      PROVE  /\ emitter.at = "idle" /\ emitter'.at = "loop" /\ emitter'.unread = {}
             /\ ~useMonitoringAPI => emitter'.stop = now
  <2> DEFINE s == IF useMonitoringAPI THEN 0 ELSE now
  <2>1. emitter' = [Idle EXCEPT !.at = "loop", !.todo = Tracked, !.stop = s]
    BY <1>2 DEF Begin
  <2>2. emitter'.at = "loop" /\ emitter'.unread = {} /\ emitter'.stop = s
    <3> HIDE DEF s
    <3> QED BY <1>1, <2>1
  <2> QED BY <1>2, <2>2 DEF Begin
<1>3. ASSUME SaveLastRun PROVE emitter'.at \in {"loop", "failed"} /\ emitter'.unread = {}
  <2> DEFINE at == IF emitter.at = "emit" THEN "loop" ELSE "failed"
             todo == emitter.todo
             stop == emitter.stop
  <2>1. emitter' = [Idle EXCEPT !.at = at, !.todo = todo, !.stop = stop]
    BY <1>3 DEF SaveLastRun
  <2>2. emitter'.at = at /\ emitter'.unread = {}
    <3> HIDE DEF at, todo, stop
    <3> QED BY <1>1, <2>1
  <2> QED BY <2>2
<1>4. Complete \/ Restart => emitter' = Idle
  BY DEF Complete, Restart
<1> QED BY <1>1, <1>2, <1>3, <1>4

(* The files that are not read are counted as faults.                      *)
LEMMA FilesUnread ==
    ASSUME Inv, Rested, NEW a \in Tracked,
           NEW unread \in SUBSET GetMonitoringArchive(a, GetLastRun(a))
    PROVE  /\ IsFiniteSet(unread) /\ Cardinality(unread) \in Nat
           /\ Cardinality(unread) = 0 => unread = {}
           /\ unread \subseteq Requests
<1>1. unread \subseteq traffic /\ IsFiniteSet(traffic) /\ traffic \subseteq Requests
  BY DEF GetMonitoringArchive, Rested, Inv, Types
<1>2. IsFiniteSet(unread)
  BY <1>1, FS_Subset
<1> QED BY <1>1, <1>2, FS_CardinalityType, FS_EmptySet

(* Faults are only ever added.                                             *)
LEMMA FaultsAdd == Inv /\ Rested /\ [Next]_vars => faults' \in Nat /\ faults <= faults'
<1> SUFFICES ASSUME Inv, Rested, [Next]_vars PROVE faults' \in Nat /\ faults <= faults'
  OBVIOUS
<1>0. faults \in Nat
  BY DEF Rested
<1>1. ASSUME NEW a \in Tracked, Visit(a) PROVE faults' \in Nat /\ faults <= faults'
  <2>1. CASE UNCHANGED faults \/ faults' = faults + 1
    BY <1>0, <2>1
  <2>2. CASE Query(a) /\ useMonitoringAPI
    <3>1. PICK unread \in SUBSET GetMonitoringArchive(a, GetLastRun(a)) :
              faults' = faults + Cardinality(unread)
      BY <2>2 DEF Query
    <3>2. Cardinality(unread) \in Nat
      BY FilesUnread
    <3> QED BY <1>0, <3>1, <3>2
  <2> QED BY <1>1, <2>1, <2>2 DEF Visit, Query, NotFound, QueryFails
<1>2. CASE BootstrapFails \/ Restart
  BY <1>0, <1>2 DEF BootstrapFails, Restart
<1>3. CASE UNCHANGED faults
  BY <1>0, <1>3
<1> QED BY <1>1, <1>2, <1>3
        DEF Next, Traffic, Elapse, Begin, Emit, SaveLastRun, Complete, vars

LEMMA RestedStep == Inv /\ Rested /\ [Next]_vars => Rested'
<1> SUFFICES ASSUME Inv, Rested, [Next]_vars PROVE Rested'
  OBVIOUS
<1>0. Types /\ Clock /\ faults' \in Nat
  BY FaultsAdd DEF Inv
<1>1. CASE Traffic
  <2>1. PICK r : traffic' = traffic \cup {r}
    BY <1>1 DEF Traffic
  <2>2. IsFiniteSet(traffic')
    BY <2>1, FS_AddElement DEF Rested
  <2> QED BY <1>0, <1>1, <2>2 DEF Traffic, Rested
<1>2. ASSUME UNCHANGED <<traffic, report, emitter>> PROVE Rested'
  BY <1>0, <1>2 DEF Rested
<1>3. ASSUME UNCHANGED traffic, emitter'.at # "idle" \/ report' = {} PROVE Rested'
  BY <1>0, <1>3 DEF Rested
<1>4. ASSUME NEW a \in Tracked, Visit(a) PROVE Rested'
  BY <1>0, <1>3, <1>4, VisitEffect
<1>5. Begin => Rested'
  BY <1>0, <1>3, BeginEffect, BetweenVisits
<1>6. Emit => Rested'
  BY <1>0, <1>3, EmitEffect DEF Visiting
<1>7. SaveLastRun => Rested'
  BY <1>0, <1>3, SaveEffect, BetweenVisits
<1>8. Complete \/ Restart => Rested'
  BY <1>0, <1>3, EndEffect
<1>9. Elapse => Rested'
  BY <1>2 DEF Elapse
<1>10. UNCHANGED <<world, lastRun, emitter, report, reported>> => Rested'
  BY <1>2 DEF world
<1> QED BY <1>1, <1>4, <1>5, <1>6, <1>7, <1>8, <1>9, <1>10, Steps

(* Without a fault a visit reads every file it finds.                      *)
LEMMA AllRead ==
    ASSUME Inv, Rested, NoFault, NEW a \in Tracked, Visit(a)
    PROVE  emitter'.unread = {} /\ (Query(a) \/ NotFound(a)) /\ Turn(a)
<1>0. Types /\ Clock
  BY DEF Inv
<1>1. ~QueryFails(a)
  BY DEF QueryFails, NoFault, Rested
<1>2. CASE NotFound(a)
  <2>1. {} \in SUBSET MetricType /\ {} \in SUBSET Requests
    OBVIOUS
  <2>2. emitter'.unread = {}
    BY <1>0, <1>2, <2>1, GotEffect DEF NotFound
  <2> QED BY <1>2, <2>2 DEF NotFound
<1>3. CASE Query(a) /\ useMonitoringAPI
  <2> DEFINE archive == GetMonitoringArchive(a, GetLastRun(a))
  <2>1. PICK unread \in SUBSET archive :
            /\ faults' = faults + Cardinality(unread)
            /\ Got(a, "emit", ArchiveMetrics(archive \ unread), unread)
    BY <1>3 DEF Query
  <2>2. unread = {} /\ unread \in SUBSET Requests
    BY <2>1, FilesUnread DEF NoFault, Rested
  <2>3. archive \ unread \in SUBSET archive
    OBVIOUS
  <2>4. ArchiveMetrics(archive \ unread) \in SUBSET MetricType
    BY <1>0, <2>3, AnswerType
  <2> HIDE DEF archive
  <2>5. emitter'.unread = unread
    BY <1>0, <2>1, <2>2, <2>4, GotEffect
  <2> QED BY <1>3, <2>2, <2>5 DEF Query
<1>4. CASE Query(a) /\ ~useMonitoringAPI
  <2> DEFINE metrics == GetMonitoringMetrics(a, GetLastRun(a), emitter.stop)
  <2>1. Got(a, "emit", metrics, {})
    BY <1>4 DEF Query
  <2>2. metrics \in SUBSET MetricType /\ {} \in SUBSET Requests
    BY <1>0, AnswerType
  <2> HIDE DEF metrics
  <2>3. emitter'.unread = {}
    BY <1>0, <2>1, <2>2, GotEffect
  <2> QED BY <1>4, <2>3 DEF Query
<1> QED BY <1>1, <1>2, <1>3, <1>4 DEF Visit

(* A request in the report stays there until the report is handed over.    *)
LEMMA ReportStep ==
    ASSUME Inv, [Next]_vars, NoFault, Rested, NEW r \in Requests, InReport(r)
    PROVE  InReport(r)' \/ Done(r)'
<1> DEFINE Goal == InReport(r)' \/ Done(r)'
<1>0. Types /\ Clock /\ ~Restart
  BY DEF Inv, NoFault, Rested, Restart
<1>1. ASSUME report \subseteq report' PROVE Goal
  BY <1>1 DEF InReport
<1>2. CASE Complete
  <2>1. reported' = [q \in Requests |-> reported[q] + Cardinality({d \in report : q \in d.covers})]
    BY <1>2 DEF Complete
  <2> DEFINE S == {d \in report : r \in d.covers}
  <2>2. S # {} /\ S \in SUBSET report
    BY DEF InReport
  <2>3. IsFiniteSet(S)
    BY <1>0, <2>2, FS_Subset DEF Types
  <2>4. reported'[r] = reported[r] + Cardinality(S) /\ reported[r] \in Nat
    BY <1>0, <2>1 DEF Types
  <2> HIDE DEF S
  <2>5. Cardinality(S) \in Nat /\ Cardinality(S) # 0
    BY <2>2, <2>3, FS_CardinalityType, FS_EmptySet
  <2>6. reported'[r] > 0
    BY <2>4, <2>5
  <2> QED BY <2>6 DEF Done
<1> HIDE DEF Goal
<1>3. \A a \in Tracked : Visit(a) => Goal
  BY <1>0, <1>1, VisitEffect
<1>4. Begin => Goal
  BY <1>0, <1>1, BeginEffect
<1>5. Emit => Goal
  BY <1>0, <1>1, EmitEffect
<1>6. SaveLastRun => Goal
  BY <1>0, <1>1, SaveEffect
<1>7. Complete \/ Restart => Goal
  BY <1>0, <1>2 DEF Goal
<1>8. Traffic \/ Elapse \/ UNCHANGED <<world, lastRun, emitter, report, reported>> => Goal
  BY <1>1 DEF Traffic, Elapse
<1>9. Goal
  BY <1>3, <1>4, <1>5, <1>6, <1>7, <1>8, Steps
<1> QED BY <1>9 DEF Goal

(* A request among the metrics comes into the report.                      *)
LEMMA UnderwayStep ==
    ASSUME Inv, [Next]_vars, NoFault, Rested, NEW r \in Requests, Underway(r)
    PROVE  Underway(r)' \/ InReport(r)'
<1> DEFINE Goal == Underway(r)' \/ InReport(r)'
<1>0. Types /\ Clock /\ Visiting /\ emitter.metrics # {} /\ ~Restart /\ ~Complete
      /\ emitter.at = "emit"
  BY DEF Inv, NoFault, Rested, Restart, Underway, Visiting, Complete
<1>1. CASE Emit
  <2>1. PICK m \in emitter.metrics :
          /\ emitter'.metrics = emitter.metrics \ {m} /\ emitter'.start = emitter.start
          /\ report' = IF m.time > emitter.start
                       THEN report \cup {[start |-> emitter.start, end |-> m.time,
                                          covers |-> m.covers]}
                       ELSE report
    BY <1>0, <1>1, EmitEffect
  <2>2. PICK n \in emitter.metrics : r \in n.covers /\ n.time > emitter.start
    BY DEF Underway
  <2>3. CASE n = m
    <3> DEFINE d == [start |-> emitter.start, end |-> m.time, covers |-> m.covers]
    <3>1. d \in report' /\ r \in d.covers
      BY <2>1, <2>2, <2>3
    <3> QED BY <3>1 DEF InReport
  <2>4. CASE n # m
    <3>1. emitter'.at = "emit"
      <4>1. emitter \in EmitterType
        BY <1>0 DEF Types
      <4>2. PICK x : \E e : emitter' = [emitter EXCEPT !.metrics = x, !.endTime = e]
        BY <1>1 DEF Emit
      <4> QED BY <1>0, <4>1, <4>2 DEF EmitterType
    <3> QED BY <2>1, <2>2, <2>4, <3>1 DEF Underway
  <2> QED BY <2>3, <2>4
<1>2. ASSUME UNCHANGED emitter PROVE Goal
  BY <1>2 DEF Underway
<1> HIDE DEF Goal
<1>3. \A a \in Tracked : Visit(a) => Goal
  BY <1>0, VisitEffect
<1>4. Begin => Goal
  BY <1>0, BeginEffect
<1>5. SaveLastRun => Goal
  BY <1>0, SaveEffect
<1>6. Complete \/ Restart => Goal
  BY <1>0
<1>7. Emit => Goal
  BY <1>1 DEF Goal
<1>8. Traffic \/ Elapse \/ UNCHANGED <<world, lastRun, emitter, report, reported>> => Goal
  BY <1>2 DEF Traffic, Elapse
<1>9. Goal
  BY <1>3, <1>4, <1>5, <1>6, <1>7, <1>8, Steps
<1> QED BY <1>9 DEF Goal

(* What is owed stays owed until the end of its window passes it, and then *)
(* it is in the report.                                                    *)
LEMMA OwedStep ==
    ASSUME OwnAssets, Inv, [Next]_vars, NoFault, Rested,
           NEW r \in Requests, Owed(r)
    PROVE  Owed(r)' \/ InReport(r)'
<1> DEFINE x == Asset[r.api]
<1>0. /\ Types /\ Clock /\ r.api \in Tracked /\ x \in Assets /\ r.time \in Nat
      /\ r \in traffic /\ r.time < now /\ now \in Nat /\ now' \in Nat /\ now <= now'
      /\ traffic \subseteq traffic' /\ useMonitoringAPI' = useMonitoringAPI
      /\ useMonitoringAPI \in BOOLEAN
      /\ lastRun[x] \in Nat /\ lastRun[x] # 0 /\ r \notin emitter.unread
  <2>1. Types /\ Clock
    BY DEF Inv
  <2>2. now' \in Nat /\ now <= now' /\ traffic \subseteq traffic'
        /\ useMonitoringAPI' = useMonitoringAPI
    <3> DEFINE Grows == now' \in Nat /\ now <= now' /\ traffic \subseteq traffic'
                        /\ useMonitoringAPI' = useMonitoringAPI
    <3>1. ASSUME UNCHANGED world PROVE Grows
      BY <2>1, <3>1 DEF world, Types
    <3>2. Traffic \/ Elapse => Grows
      BY <2>1 DEF Traffic, Elapse, Types
    <3> HIDE DEF Grows
    <3>3. \A a \in Tracked : Visit(a) => Grows
      BY <3>1 DEF Visit, Query, NotFound, QueryFails
    <3>4. (Begin => Grows) /\ (Emit => Grows) /\ (SaveLastRun => Grows)
          /\ (Complete \/ Restart => Grows)
          /\ (UNCHANGED <<world, lastRun, emitter, report, reported>> => Grows)
      BY <3>1 DEF Begin, Emit, SaveLastRun, Complete, Restart
    <3>5. Grows
      BY <3>2, <3>3, <3>4, Steps
    <3> QED BY <3>5 DEF Grows
  <2> QED BY <2>1, <2>2, RequestType DEF Owed, Later, Types
<1> HIDE DEF x
<1>1. ASSUME lastRun'[x] = lastRun[x], r \notin emitter'.unread PROVE Owed(r)'
  <2>1. r.time < now'
    BY <1>0
  <2> QED BY <1>0, <1>1, <2>1 DEF Owed, Later, x
<1>2. ASSUME SaveLastRun PROVE Owed(r)' \/ InReport(r)'
  <2>1. /\ Visiting /\ r \notin emitter'.unread
        /\ lastRun' = [lastRun EXCEPT ![Asset[emitter.api]] = emitter.endTime]
    BY <1>0, <1>2, SaveEffect, BetweenVisits
  <2>2. CASE Asset[emitter.api] # x
    <3>1. lastRun'[x] = lastRun[x]
      BY <1>0, <2>1, <2>2 DEF Types
    <3> QED BY <1>1, <2>1, <3>1
  <2>3. CASE Asset[emitter.api] = x
    <3>1. lastRun'[x] = emitter.endTime /\ lastRun[x] = emitter.start
      BY <1>0, <2>1, <2>3 DEF Types, Clock
    <3>2. emitter.endTime \in Nat /\ emitter.start <= emitter.endTime
      BY <1>0 DEF Types, EmitterType, Clock
    <3>3. CASE Passes(r.time, lastRun[x], lastRun'[x])
      <4>1. WindowStepKept
        BY WindowKept
      <4> QED BY <1>0, <3>3, <4>1 DEF WindowStepKept, x
    <3>4. CASE ~Passes(r.time, lastRun[x], lastRun'[x]) /\ useMonitoringAPI
      <4>1. lastRun[x] < r.time /\ Day(r.time) = Day(lastRun[x])
        BY <3>4 DEF Owed, Later, x
      <4>2. lastRun'[x] < r.time /\ lastRun[x] <= lastRun'[x] /\ lastRun'[x] \in Nat
        BY <1>0, <3>1, <3>2, <3>4, <4>1 DEF Passes
      <4>3. Day(lastRun[x]) <= Day(lastRun'[x]) /\ Day(lastRun'[x]) <= Day(r.time)
            /\ Day(lastRun[x]) \in Nat /\ Day(lastRun'[x]) \in Nat
        BY <1>0, <4>2, DayMonotone
      <4>4. Day(r.time) = Day(lastRun'[x])
        BY <4>1, <4>3
      <4>5. lastRun'[x] # 0 /\ r.time < now'
        BY <1>0, <4>2
      <4> QED BY <1>0, <2>1, <3>4, <4>2, <4>4, <4>5 DEF Owed, Later, Day, x
    <3>5. CASE ~Passes(r.time, lastRun[x], lastRun'[x]) /\ ~useMonitoringAPI
      <4>1. lastRun[x] <= r.time
        BY <3>5 DEF Owed, Later, x
      <4>2. lastRun'[x] <= r.time /\ lastRun'[x] # 0 /\ r.time < now'
        BY <1>0, <3>1, <3>2, <3>5, <4>1 DEF Passes
      <4> QED BY <1>0, <2>1, <3>5, <4>2 DEF Owed, Later, x
    <3> QED BY <1>0, <3>3, <3>4, <3>5
  <2> QED BY <2>2, <2>3
<1> DEFINE Goal == Owed(r)' \/ InReport(r)'
<1>3. \A a \in Tracked : Visit(a) => Goal
  BY <1>0, <1>1, AllRead, VisitEffect
<1>4. Begin => Goal
  BY <1>0, <1>1, BeginEffect, BetweenVisits
<1>5. Emit => Goal
  BY <1>0, <1>1, EmitEffect
<1>6. Complete \/ Restart => Goal
  BY <1>0, <1>1, EndEffect, BetweenVisits
<1>7. Traffic \/ Elapse => Goal
  BY <1>0, <1>1 DEF Traffic, Elapse
<1>8. UNCHANGED <<world, lastRun, emitter, report, reported>> => Goal
  BY <1>0, <1>1
<1>9. SaveLastRun => Goal
  BY <1>2
<1> HIDE DEF Goal
<1>10. Goal
  BY <1>3, <1>4, <1>5, <1>6, <1>7, <1>8, <1>9, Steps
<1> QED BY <1>10 DEF Goal

(* A run that begins once the request is owed asks for its time.           *)
LEMMA InTimeStep ==
    ASSUME Inv, [Next]_vars, NEW r \in Requests, Owed(r), InTime(r)
    PROVE  InTime(r)'
<1>0. Types /\ Clock /\ r.time < now
  BY DEF Inv, Owed, Later
<1>1. ASSUME emitter'.stop = emitter.stop, emitter.at # "idle", UNCHANGED useMonitoringAPI
      PROVE  InTime(r)'
  BY <1>1 DEF InTime
<1>2. ASSUME UNCHANGED <<emitter, useMonitoringAPI>> PROVE InTime(r)'
  BY <1>2 DEF InTime
<1>3. \A a \in Tracked : Visit(a) => InTime(r)'
  <2> SUFFICES ASSUME NEW a \in Tracked, Visit(a) PROVE InTime(r)'
    OBVIOUS
  <2>1. emitter.at # "idle"
    BY DEF Visit, Query, NotFound, QueryFails, Turn
  <2> QED BY <1>0, <1>1, <2>1, VisitEffect
<1>4. Begin => InTime(r)'
  BY <1>0, BeginEffect, BetweenVisits DEF InTime, Types
<1>5. Emit => InTime(r)'
  BY <1>0, <1>1, EmitEffect DEF Visiting
<1>6. SaveLastRun => InTime(r)'
  BY <1>0, <1>1, SaveEffect DEF Visiting
<1>7. Complete \/ Restart => InTime(r)'
  BY <1>0, BetweenVisits DEF InTime
<1>8. Traffic \/ Elapse \/ UNCHANGED <<world, lastRun, emitter, report, reported>> => InTime(r)'
  BY <1>2 DEF Traffic, Elapse, world
<1> QED BY <1>3, <1>4, <1>5, <1>6, <1>7, <1>8, Steps

(* A visit in such a run finds the request among the metrics, newer than   *)
(* the last report.                                                        *)
LEMMA VisitFinds ==
    ASSUME Inv, Rested, NoFault, NEW r \in Requests, Waiting(r), Visit(r.api)
    PROVE  Underway(r)'
<1> DEFINE a == r.api
           s == GetLastRun(a)
<1>0. /\ Types /\ Clock /\ a \in Tracked /\ r.time \in Nat /\ r.code \in Codes
      /\ r \in traffic /\ r.time < now /\ s = lastRun[Asset[a]] /\ s \in Nat
      /\ traffic \subseteq Requests /\ emitter.stop \in Nat
  BY RequestType, GetLastRunType DEF Inv, Waiting, Owed, Later, Types, EmitterType
<1>1. emitter'.unread = {} /\ (Query(a) \/ NotFound(a)) /\ emitter.at = "loop"
  BY <1>0, AllRead DEF Turn
<1> HIDE DEF s
<1>2. CASE useMonitoringAPI
  <2>1. s < r.time /\ Day(r.time) = Day(s)
    BY <1>0, <1>2 DEF Waiting, Owed, Later
  <2>2. r \in GetMonitoringArchive(a, s)
    BY <1>0, <2>1 DEF GetMonitoringArchive
  <2>3. ~NotFound(a)
    BY <2>2 DEF NotFound, s
  <2> DEFINE archive == GetMonitoringArchive(a, s)
  <2>4. PICK unread \in SUBSET archive : Got(a, "emit", ArchiveMetrics(archive \ unread), unread)
    BY <1>1, <1>2, <2>3 DEF Query, s
  <2>5. unread \in SUBSET Requests /\ ArchiveMetrics(archive \ unread) \in SUBSET MetricType
    BY <1>0, AnswerType, FilesUnread DEF s
  <2> DEFINE metrics == ArchiveMetrics(archive \ unread)
  <2>6. metrics \in SUBSET MetricType /\ Got(a, "emit", metrics, unread)
    BY <2>4, <2>5
  <2> HIDE DEF archive, metrics
  <2>7. /\ emitter'.at = "emit" /\ emitter'.start = s /\ emitter'.unread = unread
        /\ emitter'.metrics = metrics
    BY <1>0, <2>5, <2>6, GotEffect DEF s
  <2>8. [time |-> r.time, covers |-> {r}] \in emitter'.metrics
    BY <1>1, <2>2, <2>7 DEF ArchiveMetrics, archive, metrics
  <2> QED BY <2>1, <2>7, <2>8 DEF Underway
<1>3. CASE ~useMonitoringAPI
  <2>1. s <= r.time /\ r.time < emitter.stop
    BY <1>0, <1>1, <1>3 DEF Waiting, Owed, Later, InTime
  <2> DEFINE metrics == GetMonitoringMetrics(a, s, emitter.stop)
             covers == {q \in traffic : /\ q.api = a /\ q.code = r.code
                                        /\ s <= q.time /\ q.time <= emitter.stop}
             n == [time |-> emitter.stop, covers |-> covers]
  <2>2. Got(a, "emit", metrics, {})
    BY <1>1, <1>3 DEF Query, NotFound, s
  <2>3. metrics \in SUBSET MetricType /\ {} \in SUBSET Requests
    BY <1>0, AnswerType DEF s
  <2>4. r \in covers
    BY <1>0, <2>1
  <2>5. n \in metrics
    <3>1. n \in {[time |-> emitter.stop,
                  covers |-> {q \in traffic : /\ q.api = a /\ q.code = c
                                              /\ s <= q.time /\ q.time <= emitter.stop}] :
                    c \in Codes}
      BY <1>0
    <3>2. n # [time |-> emitter.stop, covers |-> {}]
      BY <2>4
    <3> HIDE DEF n
    <3> QED BY <3>1, <3>2 DEF GetMonitoringMetrics
  <2>6. n.time > s
    BY <1>0, <2>1
  <2> HIDE DEF metrics, n, covers
  <2>7. emitter'.at = "emit" /\ emitter'.start = s /\ emitter'.metrics = metrics
    BY <1>0, <2>2, <2>3, GotEffect DEF s
  <2> QED BY <2>4, <2>5, <2>6, <2>7 DEF Underway, n
<1> QED BY <1>2, <1>3

(* An API comes to hand by a visit only.                                   *)
LEMMA ComesToHand ==
    ASSUME Inv, [Next]_vars, NEW a \in Tracked, ~AtHand(a), AtHand(a)'
    PROVE  Visit(a)
<1>0. Types /\ Clock
  BY DEF Inv
<1>1. AtHand(a)' => Visiting'
  BY DEF AtHand, Visiting
<1>2. \A b \in Tracked : Visit(b) => Visit(a)
  BY <1>0, VisitEffect DEF AtHand
<1>3. ~Begin /\ ~SaveLastRun /\ ~Complete /\ ~Restart
  BY <1>0, <1>1, BeginEffect, SaveEffect, EndEffect DEF Quiet
<1>4. ~Emit
  BY <1>0, EmitEffect DEF AtHand, Visiting
<1>5. Traffic \/ Elapse \/ UNCHANGED <<world, lastRun, emitter, report, reported>> => Visit(a)
  BY DEF AtHand, Traffic, Elapse
<1> QED BY <1>2, <1>3, <1>4, <1>5 DEF Next, vars, world, BootstrapFails

(* Every request after the last report of its API is reported in the end,  *)
(* unless another fault occurs, for as long as runs go on.                 *)
AtRest == emitter.at = "idle"
AsManyFaults(k) == faults = k
MoreFaults(k) == faults > k

LEMMA RequestReported ==
    ASSUME OwnAssets, NEW r \in Requests, NEW k \in 0 .. MaxFaults
    PROVE  Spec /\ RunsEnd /\ HasTurns(r.api) => ReportedInTheEnd(r, k)
<1> DEFINE Good == Inv /\ Rested
<1>0. r.api \in Tracked
  BY RequestType
<1>1. Spec => []Good
  <2>1. Init => Rested
    BY IdleType, FS_EmptySet DEF Init, Rested
  <2> QED BY <2>1, RestedStep, ReportingInvariant, PTL DEF Spec
<1>2. Good /\ [Next]_vars /\ AsManyFaults(k) => AsManyFaults(k)' \/ MoreFaults(k)'
  BY FaultsAdd DEF Rested, AsManyFaults, MoreFaults
<1>3. AsManyFaults(k) /\ AsManyFaults(k)' => NoFault
  BY DEF AsManyFaults, NoFault
<1>4. Good /\ [Next]_vars /\ AsManyFaults(k) /\ AsManyFaults(k)' /\ Owed(r)
        => Owed(r)' \/ InReport(r)'
  BY <1>3, OwedStep
<1>5. Good /\ [Next]_vars /\ AsManyFaults(k) /\ AsManyFaults(k)' /\ Waiting(r)
        => Waiting(r)' \/ InReport(r)'
  BY <1>4, InTimeStep DEF Waiting
<1>6. Good /\ [Next]_vars /\ AsManyFaults(k) /\ AsManyFaults(k)'
        /\ Waiting(r) /\ ~AtHand(r.api) /\ AtHand(r.api)'
        => Underway(r)'
  BY <1>0, <1>3, ComesToHand, VisitFinds
<1>7. Good /\ [Next]_vars /\ AsManyFaults(k) /\ AsManyFaults(k)' /\ Underway(r)
        => Underway(r)' \/ InReport(r)'
  BY <1>3, UnderwayStep
<1>8. Good /\ [Next]_vars /\ AsManyFaults(k) /\ AsManyFaults(k)' /\ InReport(r)
        => InReport(r)' \/ Done(r)'
  BY <1>3, ReportStep
<1>9. Good /\ AtRest => ~AtHand(r.api) /\ ~Underway(r) /\ ~InReport(r)
                        /\ (Owed(r) => Waiting(r))
  BY DEF AtRest, AtHand, Underway, InReport, Rested, Waiting, InTime
<1> HIDE DEF Good
<1>10. Spec /\ RunsEnd /\ HasTurns(r.api)
         => (Owed(r) /\ AsManyFaults(k) ~> Done(r) \/ MoreFaults(k))
  BY <1>1, <1>2, <1>4, <1>5, <1>6, <1>7, <1>8, <1>9, PTL DEF Spec, RunsEnd, HasTurns, AtRest
<1> QED BY <1>10 DEF ReportedInTheEnd, AsManyFaults, MoreFaults, Done

THEOREM RequestsAreReported ==
    ASSUME OwnAssets
    PROVE  Spec /\ RunsGoOn => EventuallyReported
<1>1. ASSUME NEW r \in Requests, NEW k \in 0 .. MaxFaults
      PROVE  Spec /\ RunsGoOn => ReportedInTheEnd(r, k)
  <2>1. RunsGoOn => RunsEnd /\ HasTurns(r.api)
    BY RequestType DEF RunsGoOn
  <2> QED BY <2>1, RequestReported
<1> QED BY <1>1 DEF EventuallyReported
-----------------------------------------------------------------------------
(* Runs end and come back to each API.  The APIs left are only ever taken  *)
(* away while a run is under way, and so are the metrics once no API is    *)
(* visited any more: each in its turn settles, the run can then only end,  *)
(* and its fair steps see to that.                                         *)
Busy == ~AtRest
Left == emitter.todo
Unsent == emitter.metrics

(* A finite set from which elements are only ever taken stays what it is   *)
(* from some point on.  True of any set: the induction over its size is    *)
(* what no prover here can do, and each instance used is a hypothesis.     *)
Settles(S) == [](IsFiniteSet(S)) /\ <>[][S' \subseteq S]_S => \E T : <>[](S = T)

LeftIs(T) == Left = T
UnsentIs(T) == Unsent = T
NoVisit == \A a \in Tracked : ~Visit(a)
LeftShrinks == Left' \subseteq Left
UnsentShrinks == Unsent' \subseteq Unsent
FiniteLeft == IsFiniteSet(Left)
FiniteUnsent == IsFiniteSet(Unsent)

(* Without an answer there are no metrics.                                 *)
Finite == /\ FiniteLeft /\ FiniteUnsent
          /\ emitter.at = "emitLast" => Unsent = {}

FewApis == IsFiniteSet(Apis) /\ IsFiniteSet(Codes)

LEMMA FewTracked ==
    ASSUME FewApis
    PROVE  \A S \in SUBSET Tracked : IsFiniteSet(S)
<1>1. Tracked \subseteq Apis
  BY DEF Tracked
<1>2. IsFiniteSet(Tracked)
  BY <1>1, FS_Subset DEF FewApis
<1> QED BY <1>2, FS_Subset

LEMMA FiniteImage ==
    ASSUME NEW S, IsFiniteSet(S), NEW f
    PROVE  IsFiniteSet({f[x] : x \in S})
<1> DEFINE T == {f[x] : x \in S}
           g == [x \in S |-> f[x]]
<1>1. g \in Surjection(S, T)
  BY DEF Surjection
<1> HIDE DEF g, T
<1>2. IsFiniteSet(T)
  BY <1>1, FS_Surjection
<1> QED BY <1>2 DEF T

(* The metrics of an answer are finitely many, and an error has none.      *)
LEMMA FiniteAnswer ==
    ASSUME FewApis, Inv, Rested, NEW a \in Tracked, Visit(a)
    PROVE  FiniteUnsent' /\ (emitter'.at = "emitLast" => Unsent' = {})
<1>0. Types /\ Clock /\ IsFiniteSet(traffic)
  BY DEF Inv, Rested
<1> DEFINE archive == GetMonitoringArchive(a, GetLastRun(a))
           base == GetMonitoringMetrics(a, GetLastRun(a), emitter.stop)
<1>1. ASSUME NEW F \in SUBSET traffic PROVE IsFiniteSet(ArchiveMetrics(F))
  <2>1. IsFiniteSet(F)
    BY <1>0, FS_Subset
  <2>2. IsFiniteSet({[time |-> r.time, covers |-> {r}] : r \in F})
    <3> DEFINE f == [r \in F |-> [time |-> r.time, covers |-> {r}]]
    <3>1. {f[r] : r \in F} = {[time |-> r.time, covers |-> {r}] : r \in F}
      OBVIOUS
    <3> HIDE DEF f
    <3>2. IsFiniteSet({f[r] : r \in F})
      BY <2>1, FiniteImage
    <3> QED BY <3>1, <3>2
  <2> QED BY <2>2 DEF ArchiveMetrics
<1>2. IsFiniteSet(base)
  <2> DEFINE all == {[time |-> emitter.stop,
                      covers |-> {r \in traffic : /\ r.api = a /\ r.code = c
                                                  /\ GetLastRun(a) <= r.time
                                                  /\ r.time <= emitter.stop}] : c \in Codes}
  <2>1. IsFiniteSet(all)
    <3> DEFINE f == [c \in Codes |->
                       [time |-> emitter.stop,
                        covers |-> {r \in traffic : /\ r.api = a /\ r.code = c
                                                    /\ GetLastRun(a) <= r.time
                                                    /\ r.time <= emitter.stop}]]
    <3>1. {f[c] : c \in Codes} = all
      OBVIOUS
    <3> HIDE DEF f, all
    <3>2. IsFiniteSet({f[c] : c \in Codes})
      BY FiniteImage DEF FewApis
    <3> QED BY <3>1, <3>2
  <2>2. base \in SUBSET all
    BY DEF GetMonitoringMetrics
  <2> QED BY <2>1, <2>2, FS_Subset
<1>3. archive \subseteq traffic
  BY DEF GetMonitoringArchive
<1>4. IsFiniteSet(emitter'.metrics)
  <2> HIDE DEF archive, base
  <2> QED BY <1>0, <1>1, <1>2, <1>3, VisitEffect, FS_EmptySet DEF archive, base
<1>5. emitter'.at = "emitLast" => emitter'.metrics = {}
  <2>1. CASE NotFound(a) \/ QueryFails(a)
    <3>1. Got(a, "emitLast", {}, {}) /\ {} \in SUBSET MetricType /\ {} \in SUBSET Requests
      BY <2>1 DEF NotFound, QueryFails
    <3> QED BY <1>0, <3>1, GotEffect
  <2>2. CASE Query(a)
    <3>1. PICK metrics, unread : Got(a, "emit", metrics, unread)
      BY <2>2 DEF Query
    <3>2. emitter' = [emitter EXCEPT !.at = "emit", !.todo = emitter.todo \ {a}, !.api = a,
                    !.start = GetLastRun(a), !.endTime = GetLastRun(a),
                    !.metrics = metrics, !.unread = unread]
      BY <3>1 DEF Got
    <3>3. emitter'.at = "emit"
      BY <1>0, <3>2 DEF Types, EmitterType
    <3> QED BY <3>3
  <2> QED BY <2>1, <2>2 DEF Visit
<1> QED BY <1>4, <1>5 DEF FiniteUnsent, Unsent


(* What each step makes of the APIs left and the metrics unsent.           *)
LEMMA LeftEffect ==
    ASSUME Types
    PROVE  /\ \A a \in Tracked : Visit(a) => a \in Left /\ Left' = Left \ {a}
           /\ Emit => Left' = Left /\ emitter'.at = emitter.at
           /\ SaveLastRun => /\ Left' = Left
                             /\ emitter'.at = IF emitter.at = "emit" THEN "loop" ELSE "failed"
           /\ Begin => Left' = Tracked
           /\ Complete \/ Restart => AtRest' /\ Left' = {}
<1>0. emitter \in EmitterType
  BY DEF Types
<1>1. ASSUME NEW a \in Tracked, Visit(a) PROVE a \in Left /\ Left' = Left \ {a}
  <2>1. PICK at, metrics, unread : Got(a, at, metrics, unread)
    BY <1>1 DEF Visit, Query, NotFound, QueryFails
  <2>2. \A start : emitter' = [emitter EXCEPT !.at = at, !.todo = emitter.todo \ {a},
                     !.api = a, !.start = start, !.endTime = start,
                     !.metrics = metrics, !.unread = unread]
                   => emitter'.todo = emitter.todo \ {a}
    BY <1>0 DEF EmitterType
  <2>3. emitter'.todo = emitter.todo \ {a}
    BY <2>1, <2>2 DEF Got
  <2> QED BY <1>1, <2>3 DEF Visit, Query, NotFound, QueryFails, Turn, Left
<1>2. ASSUME Emit PROVE Left' = Left /\ emitter'.at = emitter.at
  <2>1. PICK x : \E e : emitter' = [emitter EXCEPT !.metrics = x, !.endTime = e]
    BY <1>2 DEF Emit
  <2> QED BY <1>0, <2>1 DEF EmitterType, Left
<1>3. \A at, todo, stop :
         LET e == [Idle EXCEPT !.at = at, !.todo = todo, !.stop = stop]
         IN  e.at = at /\ e.todo = todo
  BY DEF Idle
<1>4. ASSUME SaveLastRun
      PROVE  /\ Left' = Left
             /\ emitter'.at = IF emitter.at = "emit" THEN "loop" ELSE "failed"
  <2> DEFINE at == IF emitter.at = "emit" THEN "loop" ELSE "failed"
             todo == emitter.todo
             stop == emitter.stop
  <2>1. emitter' = [Idle EXCEPT !.at = at, !.todo = todo, !.stop = stop]
    BY <1>4 DEF SaveLastRun
  <2>2. emitter'.at = at /\ emitter'.todo = todo
    <3> HIDE DEF at, todo, stop
    <3> QED BY <1>3, <2>1
  <2> QED BY <2>2 DEF Left
<1>5. ASSUME Begin PROVE Left' = Tracked
  <2> DEFINE stop == IF useMonitoringAPI THEN 0 ELSE now
  <2>1. emitter' = [Idle EXCEPT !.at = "loop", !.todo = Tracked, !.stop = stop]
    BY <1>5 DEF Begin
  <2> HIDE DEF stop
  <2> QED BY <1>3, <2>1 DEF Left
<1>6. Complete \/ Restart => AtRest' /\ Left' = {}
  BY DEF Complete, Restart, Idle, AtRest, Left
<1> QED BY <1>1, <1>2, <1>4, <1>5, <1>6

LEMMA FiniteStep ==
    ASSUME FewApis, Inv, Rested, Finite, [Next]_vars
    PROVE  Finite'
<1>0. Types /\ Clock
  BY DEF Inv
<1>1. ASSUME Left' \subseteq Tracked, Unsent' \subseteq Unsent, emitter'.at # "emitLast" \/ Unsent' = {}
      PROVE  Finite'
  BY <1>1, FewTracked, FS_Subset DEF Finite, FiniteLeft, FiniteUnsent
<1>2. Left \subseteq Tracked
  BY <1>0 DEF Types, EmitterType, Left
<1>3. \A a \in Tracked : Visit(a) => Finite'
  <2> SUFFICES ASSUME NEW a \in Tracked, Visit(a) PROVE Finite'
    OBVIOUS
  <2>1. Left' \subseteq Tracked
    BY <1>0, <1>2, LeftEffect
  <2> QED BY <2>1, FewTracked, FiniteAnswer DEF Finite, FiniteLeft
<1>4. Begin => Finite'
  BY <1>0, <1>1, LeftEffect, BeginEffect DEF Quiet, Visiting, Unsent
<1>5. Emit => Finite'
  BY <1>0, <1>1, <1>2, LeftEffect, EmitEffect DEF Emit, Unsent
<1>6. SaveLastRun => Finite'
  BY <1>0, <1>1, <1>2, LeftEffect, SaveEffect DEF Quiet, Visiting, Unsent
<1>7. Complete \/ Restart => Finite'
  BY <1>0, <1>1, LeftEffect, EndEffect DEF Quiet, Visiting, Unsent
<1>8. Traffic \/ Elapse \/ UNCHANGED <<world, lastRun, emitter, report, reported>> => Finite'
  BY DEF Traffic, Elapse, Finite, FiniteLeft, FiniteUnsent, Left, Unsent
<1> QED BY <1>3, <1>4, <1>5, <1>6, <1>7, <1>8, Steps

(* While a run is under way no API comes back, and, without a visit, no    *)
(* metric comes.                                                           *)
LEMMA RunStep ==
    ASSUME Inv, [Next]_vars, Busy, Busy'
    PROVE  /\ LeftShrinks
           /\ NoVisit => UnsentShrinks
<1>0. Types /\ Clock
  BY DEF Inv
<1> DEFINE Goal == LeftShrinks /\ (NoVisit => UnsentShrinks)
<1>1. ASSUME Left' = Left, Unsent' \subseteq Unsent PROVE Goal
  BY <1>1 DEF LeftShrinks, UnsentShrinks
<1>2. \A a \in Tracked : Visit(a) => Goal
  BY <1>0, LeftEffect DEF LeftShrinks, NoVisit
<1>3. ~Begin /\ ~Complete /\ ~Restart
  BY <1>0, LeftEffect DEF Busy, AtRest, Begin
<1>4. Emit => Goal
  BY <1>0, <1>1, LeftEffect, EmitEffect DEF Unsent
<1>5. SaveLastRun => Goal
  BY <1>0, <1>1, LeftEffect, SaveEffect DEF Quiet, Unsent
<1>6. Traffic \/ Elapse \/ UNCHANGED <<world, lastRun, emitter, report, reported>> => Goal
  BY <1>1 DEF Traffic, Elapse, Left, Unsent
<1> HIDE DEF Goal
<1>7. Goal
  BY <1>2, <1>3, <1>4, <1>5, <1>6, Steps
<1> QED BY <1>7 DEF Goal

(* Once the APIs left and the metrics unsent have settled, what is being   *)
(* sent stays to be sent, and otherwise the run is about to save, is       *)
(* between two APIs or has failed, in this order.                          *)
Looping == emitter.at = "loop"
Failed == emitter.at = "failed"

LEMMA SettledStep ==
    ASSUME Inv, Finite, [Next]_vars, Busy, Busy', Left' = Left, Unsent' = Unsent
    PROVE  /\ ~Emit /\ NoVisit
           /\ Sending => Sending'
           /\ Saving => Saving' \/ Looping' \/ Failed'
           /\ SaveLastRun => Looping' \/ Failed'
           /\ Looping => Looping'
           /\ Failed => Failed'
<1>0. Types /\ Clock
  BY DEF Inv
<1>1. ~Emit
  <2> SUFFICES ASSUME Emit PROVE FALSE
    OBVIOUS
  <2>1. PICK m \in emitter.metrics : emitter'.metrics = emitter.metrics \ {m}
    BY <1>0, EmitEffect
  <2> QED BY <2>1 DEF Unsent
<1>2. NoVisit
  BY <1>0, LeftEffect DEF NoVisit
<1>3. ~Begin /\ ~Complete /\ ~Restart
  BY <1>0, LeftEffect DEF Busy, AtRest, Begin
<1>4. SaveLastRun => Saving /\ (Looping' \/ Failed')
  BY <1>0, LeftEffect DEF SaveLastRun, Saving, Looping, Failed
<1>5. SaveLastRun \/ emitter'.at = emitter.at
  <2> DEFINE Goal == SaveLastRun \/ emitter'.at = emitter.at
  <2>1. Traffic \/ Elapse \/ UNCHANGED <<world, lastRun, emitter, report, reported>> => Goal
    BY DEF Traffic, Elapse
  <2> HIDE DEF Goal
  <2>2. SaveLastRun => Goal
    BY DEF Goal
  <2>3. Goal
    BY <1>1, <1>2, <1>3, <2>1, <2>2, Steps DEF NoVisit
  <2> QED BY <2>3 DEF Goal
<1>6. emitter.metrics' = emitter.metrics
  BY DEF Unsent
<1> QED BY <1>1, <1>2, <1>4, <1>5, <1>6 DEF Sending, Saving, Looping, Failed

LEMMA Stages ==
    ASSUME Inv, Finite, Busy
    PROVE  Sending \/ Saving \/ Looping \/ Failed
BY DEF Inv, Types, EmitterType, Finite, Busy, AtRest, Sending, Saving, Looping, Failed, Unsent

(* A run of which nothing changes any more is not fair.                    *)
Good == Inv /\ Rested /\ Finite

LEMMA GoodAlways == ASSUME FewApis PROVE Spec => []Good
<1>1. Init => Rested /\ Finite
  BY IdleType, FS_EmptySet DEF Init, Rested, Finite, FiniteLeft, FiniteUnsent, Left, Unsent, Idle
<1>2. Inv /\ Rested /\ Finite /\ [Next]_vars => Rested' /\ Finite'
  BY RestedStep, FiniteStep
<1> QED BY <1>1, <1>2, ReportingInvariant, PTL DEF Spec, Good

LEMMA SettledRunEnds ==
    ASSUME NEW T, NEW M
    PROVE  /\ []Good /\ [][Next]_vars /\ []NeverStuck /\ Fairness
           /\ <>[]LeftIs(T) /\ <>[]UnsentIs(M)
           => []<>AtRest
<1> DEFINE Ends == /\ []Good /\ [][Next]_vars /\ []NeverStuck /\ Fairness
                   /\ <>[]LeftIs(T) /\ <>[]UnsentIs(M)
                   => []<>AtRest
<1>1. Good /\ [Next]_vars /\ Busy /\ Busy'
         /\ LeftIs(T) /\ LeftIs(T)' /\ UnsentIs(M) /\ UnsentIs(M)'
         => /\ ~Emit /\ NoVisit
            /\ Sending => Sending'
            /\ Saving => Saving' \/ Looping' \/ Failed'
            /\ SaveLastRun => Looping' \/ Failed'
            /\ Looping => Looping'
            /\ Failed => Failed'
  BY SettledStep DEF Good, LeftIs, UnsentIs
<1>2. Good /\ Busy => Sending \/ Saving \/ Looping \/ Failed
  BY Stages DEF Good
<1>3. NeverStuck => /\ Sending => ENABLED <<Emit>>_vars
                    /\ Saving => ENABLED <<SaveLastRun>>_vars
                    /\ Over => ENABLED <<Complete>>_vars
  BY DEF NeverStuck
<1>4. Failed => Over
  BY DEF Failed, Over
<1>5. <<Complete>>_vars => AtRest'
  BY DEF Complete, Idle, AtRest
<1>6. Busy <=> ~AtRest
  BY DEF Busy
<1>7. CASE T = {}
  <2>1. LeftIs(T) /\ Looping => Over
    BY <1>7 DEF LeftIs, Left, Looping, Over
  <2> QED BY <1>1, <1>2, <1>3, <1>4, <1>5, <1>6, <2>1, PTL DEF Fairness
<1>8. ASSUME NEW a \in T PROVE Ends
  <2>1. CASE a \notin Tracked
    <3>1. Good => ~LeftIs(T)
      BY <1>8, <2>1 DEF Good, Inv, Types, EmitterType, LeftIs, Left
    <3> QED BY <3>1, PTL
  <2>2. CASE a \in Tracked
    <3>1. LeftIs(T) /\ Looping => Turn(a)
      BY <1>8 DEF LeftIs, Left, Looping, Turn
    <3>2. NeverStuck => (Turn(a) => ENABLED <<Visit(a)>>_vars)
      BY <2>2 DEF NeverStuck
    <3>3. NoVisit => ~Visit(a)
      BY <2>2 DEF NoVisit
    <3>4. AllVisited => Visited(a)
      BY <2>2 DEF AllVisited
    <3> QED BY <1>1, <1>2, <1>3, <1>4, <1>5, <1>6, <3>1, <3>2, <3>3, <3>4, PTL
            DEF Fairness, Visited
  <2> QED BY <2>1, <2>2
<1> HIDE DEF Ends
<1>9. Ends
  BY <1>7, <1>8 DEF Ends
<1> QED BY <1>9 DEF Ends

(* While a run never ends, the APIs left settle, then the metrics unsent.  *)
NeverRests == ~[]<>AtRest
Going == /\ []Good /\ [][Next]_vars /\ []NeverStuck /\ Fairness
LeftSettles(T) == <>[]LeftIs(T)
UnsentSettles(M) == <>[]UnsentIs(M)

LEMMA LeftComesToRest ==
    Going /\ NeverRests /\ Settles(Left) => \E T : LeftSettles(T)
<1>1. Good /\ [Next]_vars /\ Busy /\ Busy' => LeftShrinks
  BY RunStep DEF Good
<1>2. Good => FiniteLeft
  BY DEF Good, Finite
<1>3. Going /\ NeverRests => []FiniteLeft /\ <>[][LeftShrinks]_Left
  BY <1>1, <1>2, PTL DEF Going, NeverRests, Busy
<1>4. []FiniteLeft /\ <>[][LeftShrinks]_Left /\ Settles(Left) => \E T : LeftSettles(T)
  BY DEF FiniteLeft, LeftShrinks, Settles, LeftSettles, LeftIs
<1> QED BY <1>3, <1>4

LEMMA UnsentComesToRest ==
    ASSUME NEW T
    PROVE  Going /\ NeverRests /\ LeftSettles(T) /\ Settles(Unsent) => \E M : UnsentSettles(M)
<1>1. Good /\ [Next]_vars /\ Busy /\ Busy' /\ LeftIs(T) /\ LeftIs(T)' => UnsentShrinks
  <2> SUFFICES ASSUME Good, [Next]_vars, Busy, Busy', Left' = Left PROVE UnsentShrinks
    BY DEF LeftIs
  <2>1. NoVisit
    BY LeftEffect DEF Good, Inv, NoVisit
  <2> QED BY <2>1, RunStep DEF Good
<1>2. Good => FiniteUnsent
  BY DEF Good, Finite
<1>3. Going /\ NeverRests /\ LeftSettles(T) => []FiniteUnsent /\ <>[][UnsentShrinks]_Unsent
  BY <1>1, <1>2, PTL DEF Going, NeverRests, Busy, LeftSettles
<1>4. []FiniteUnsent /\ <>[][UnsentShrinks]_Unsent /\ Settles(Unsent) => \E M : UnsentSettles(M)
  BY DEF FiniteUnsent, UnsentShrinks, Settles, UnsentSettles, UnsentIs
<1> QED BY <1>3, <1>4

LEMMA EveryRunEnds ==
    Going /\ Settles(Left) /\ Settles(Unsent) => RunsEnd
<1>1. ASSUME NEW T, NEW M PROVE Going /\ LeftSettles(T) /\ UnsentSettles(M) => ~NeverRests
  BY SettledRunEnds, PTL DEF Going, LeftSettles, UnsentSettles, NeverRests
<1>2. ASSUME NEW T
      PROVE  Going /\ Settles(Unsent) /\ LeftSettles(T) => ~NeverRests
  BY <1>1, UnsentComesToRest
<1>3. Going /\ Settles(Left) /\ Settles(Unsent) => ~NeverRests
  BY <1>2, LeftComesToRest
<1> QED BY <1>3, PTL DEF NeverRests, RunsEnd, AtRest

(* A run that begins has all APIs before it: each is often enough to be    *)
(* visited, whatever ends the runs before its turn.                        *)
LEMMA TurnsCome == ASSUME NEW a \in Tracked PROVE Going /\ RunsEnd => HasTurns(a)
<1>1. NeverStuck => /\ AtRest => ENABLED <<Begin>>_vars
                    /\ Turn(a) => ENABLED <<Visit(a)>>_vars
  BY DEF NeverStuck, AtRest
<1>2. Good /\ [Next]_vars /\ AtRest => AtRest' \/ Begin
  <2> SUFFICES ASSUME Inv, [Next]_vars, AtRest, ~Begin PROVE AtRest'
    BY DEF Good
  <2>0. Types /\ Clock
    BY DEF Inv
  <2>1. \A b \in Tracked : ~Visit(b)
    BY DEF AtRest, Visit, Query, NotFound, QueryFails, Turn
  <2>2. ~Emit /\ ~SaveLastRun
    BY DEF AtRest, Emit, SaveLastRun
  <2>3. Complete \/ Restart => AtRest'
    BY <2>0, LeftEffect
  <2>4. Traffic \/ Elapse \/ UNCHANGED <<world, lastRun, emitter, report, reported>> => AtRest'
    BY DEF Traffic, Elapse, AtRest
  <2> QED BY <2>1, <2>2, <2>3, <2>4, Steps
<1>3. Good /\ Begin => Turn(a)'
  BY LeftEffect, BetweenVisits DEF Good, Inv, Turn, Left
<1>4. Good /\ Visit(a) => AtHand(a)'
  BY VisitEffect DEF Good, Inv, AtHand
<1>5. AllVisited => Visited(a)
  BY DEF AllVisited
<1> QED BY <1>1, <1>2, <1>3, <1>4, <1>5, PTL
        DEF Going, Fairness, Visited, RunsEnd, AtRest, HasTurns

(* With finitely many APIs and status codes every run ends and each API is *)
(* visited again and again, although a run may fail or end early each time.*)
THEOREM RunsContinue ==
    ASSUME FewApis
    PROVE  FairSpec /\ []NeverStuck /\ Settles(Left) /\ Settles(Unsent) => RunsGoOn
<1>1. FairSpec /\ []NeverStuck => Going
  BY GoodAlways, PTL DEF FairSpec, Spec, Going
<1>2. ASSUME NEW a \in Tracked
      PROVE  Going /\ Settles(Left) /\ Settles(Unsent) => HasTurns(a)
  BY EveryRunEnds, TurnsCome
<1>3. Going /\ Settles(Left) /\ Settles(Unsent) => RunsGoOn
  BY <1>2, EveryRunEnds DEF RunsGoOn
<1> QED BY <1>1, <1>3

(* Both together: what is owed is reported, without a word about runs.     *)
COROLLARY OwedIsReported ==
    ASSUME OwnAssets, FewApis
    PROVE  FairSpec /\ []NeverStuck /\ Settles(Left) /\ Settles(Unsent) => EventuallyReported
<1>1. FairSpec => Spec
  BY DEF FairSpec
<1> QED BY <1>1, RunsContinue, RequestsAreReported
=============================================================================
