--------------------------- MODULE AgentLifecycle ---------------------------
(***************************************************************************)
(* Starting, reconfiguring and stopping the discovery agent                *)
(* (pkg/discovery/agent.go with the loops of discover.go and publish.go).  *)
(*                                                                         *)
(* Loops run in goroutines; they are stopped by a value sent on an         *)
(* unbuffered channel, shared by all loops of a kind, which the sender     *)
(* cannot leave before some loop has taken it.  The polling loop stops its *)
(* ticker when it takes the value and goes on selecting; the publishing    *)
(* loop returns.  A configuration change stops both, lets the client log   *)
(* in again (TokenRefresh, which this module extends) and starts both      *)
(* again; a signal may ask the agent to stop at any time.                  *)
(*                                                                         *)
(* A loop is named by what started it: Boot or a configuration change.     *)
(* The SDK calls the handler for one configuration change at a time.       *)
(***************************************************************************)
EXTENDS TokenRefresh

CONSTANTS Changes,      \* the configuration changes that may arrive
          Boot          \* the start of the agent

ASSUME LifecycleAssumption == Boot \notin Changes

Loops == {Boot} \cup Changes

VARIABLES
    poller,     \* [Loops -> the state of a polling loop]
    publisher,  \* [Loops -> the state of a publishing loop]
    handler,    \* [Changes -> how far onConfigChange has got]
    stopper     \* how far Stop has got

loopVars == <<poller, publisher>>
agentVars == <<poller, publisher, handler, stopper>>
lifecycleVars == <<poller, publisher, handler, stopper, auths, token, change, errors>>

(* Run: both loops are started, the polling loop with a pass at once.      *)
Init == /\ TokenInit
        /\ poller = [l \in Loops |-> IF l = Boot THEN "pass" ELSE "none"]
        /\ publisher = [l \in Loops |-> IF l = Boot THEN "select" ELSE "none"]
        /\ handler = [h \in Changes |-> "new"]
        /\ stopper = "wait"

(* The process runs until a failed login or the end of Run.                *)
Running == Alive /\ stopper # "closed"
-----------------------------------------------------------------------------
(* The polling loops (discovery.Loop): pass, select with a ticker, deaf.   *)

PassEnds(l) ==
    /\ Running
    /\ poller[l] = "pass"
    /\ poller' = [poller EXCEPT ![l] = "select"]
    /\ UNCHANGED <<publisher, handler, stopper, tokenVars>>

Tick(l) ==
    /\ Running
    /\ poller[l] = "select"
    /\ poller' = [poller EXCEPT ![l] = "pass"]
    /\ UNCHANGED <<publisher, handler, stopper, tokenVars>>

(* Mutant of PollerTakesStop: the loop returns, as the publishing one does. *)
PollerReturns ==
    \E l \in Loops : /\ poller[l] \in {"select", "deaf"}
                     /\ poller' = [poller EXCEPT ![l] = "returned"]

(* Some loop in its select takes the stop value, one that was stopped      *)
(* before as well as one that is not.                                      *)
PollerTakesStop ==
    \E l \in Loops : /\ poller[l] \in {"select", "deaf"}
                     /\ poller' = [poller EXCEPT ![l] = "deaf"]

(* The publishing loops (publisher.Loop).                                  *)
Receive(l) ==
    /\ Running
    /\ publisher[l] = "select"
    /\ publisher' = [publisher EXCEPT ![l] = "publish"]
    /\ UNCHANGED <<poller, handler, stopper, tokenVars>>

Published(l) ==
    /\ Running
    /\ publisher[l] = "publish"
    /\ publisher' = [publisher EXCEPT ![l] = "select"]
    /\ UNCHANGED <<poller, handler, stopper, tokenVars>>

(* Mutant of PublisherTakesStop: the loop goes on like the polling loop.   *)
PublisherStays ==
    /\ \E l \in Loops : publisher[l] = "select"
    /\ UNCHANGED publisher

(* Mutant of PublisherTakesStop: a loop that a change starts is not given  *)
(* the channel that the agent sends on.                                    *)
OnlyBootTakesStop ==
    /\ publisher[Boot] = "select"
    /\ publisher' = [publisher EXCEPT ![Boot] = "returned"]

PublisherTakesStop ==
    \E l \in Loops : /\ publisher[l] = "select"
                     /\ publisher' = [publisher EXCEPT ![l] = "returned"]
-----------------------------------------------------------------------------
(* onConfigChange                                                          *)

Goto(h, from, to) == /\ Running
                     /\ handler[h] = from
                     /\ handler' = [handler EXCEPT ![h] = to]
                     /\ UNCHANGED stopper

Arrive(h) ==
    /\ \A g \in Changes : handler[g] \in {"new", "done"}
    /\ Goto(h, "new", "stopPoll")
    /\ UNCHANGED <<loopVars, tokenVars>>

StopPoller(h) ==
    /\ Goto(h, "stopPoll", "stopPub")
    /\ PollerTakesStop
    /\ UNCHANGED <<publisher, tokenVars>>

StopPublisher(h) ==
    /\ Goto(h, "stopPub", "client")
    /\ PublisherTakesStop
    /\ UNCHANGED <<poller, tokenVars>>

(* client.OnConfigChange, up to the new login (StopAuth, Login).           *)
ChangeClient(h) ==
    /\ Goto(h, "client", "connecting")
    /\ BeginChange
    /\ UNCHANGED loopVars

ClientChanged(h) ==
    /\ change = "idle"
    /\ Goto(h, "connecting", "startPoll")
    /\ UNCHANGED <<loopVars, tokenVars>>

(* Mutant of StartPoller: no new polling loop.                             *)
PollerNotStarted(h) ==
    /\ Goto(h, "startPoll", "startPub")
    /\ UNCHANGED <<loopVars, tokenVars>>

StartPoller(h) ==
    /\ Goto(h, "startPoll", "startPub")
    /\ poller' = [poller EXCEPT ![h] = "pass"]
    /\ UNCHANGED <<publisher, tokenVars>>

(* Mutant of StartPublisher: no new publishing loop.                       *)
PublisherNotStarted(h) ==
    /\ Goto(h, "startPub", "done")
    /\ UNCHANGED <<loopVars, tokenVars>>

StartPublisher(h) ==
    /\ Goto(h, "startPub", "done")
    /\ publisher' = [publisher EXCEPT ![h] = "select"]
    /\ UNCHANGED <<poller, tokenVars>>

Handle(h) == \/ Arrive(h) \/ StopPoller(h) \/ StopPublisher(h) \/ ChangeClient(h)
             \/ ClientChanged(h) \/ StartPoller(h) \/ StartPublisher(h)
-----------------------------------------------------------------------------
(* Run receives a signal and calls Stop; then the process ends.            *)

Signal ==
    /\ Running /\ stopper = "wait"
    /\ stopper' = "stopPoll"
    /\ UNCHANGED <<loopVars, handler, tokenVars>>

ShutPoller ==
    /\ Running /\ stopper = "stopPoll"
    /\ PollerTakesStop
    /\ stopper' = "stopPub"
    /\ UNCHANGED <<publisher, handler, tokenVars>>

ShutPublisher ==
    /\ Running /\ stopper = "stopPub"
    /\ PublisherTakesStop
    /\ stopper' = "closed"
    /\ UNCHANGED <<poller, handler, tokenVars>>

(* The steps of the client that are not begun by the agent.                *)
ClientStep ==
    /\ Running
    /\ Refresher \/ StopAuth \/ Login \/ LoginFails \/ Elapse
    /\ UNCHANGED agentVars

LoopStep(l) == PassEnds(l) \/ Tick(l) \/ Receive(l) \/ Published(l)

Next == \/ \E l \in Loops : LoopStep(l)
        \/ \E h \in Changes : Handle(h)
        \/ Signal \/ ShutPoller \/ ShutPublisher
        \/ ClientStep

Spec == Init /\ [][Next]_lifecycleVars

(* The steps that are sure to be taken, each by whichever goroutine can.   *)
EndPass == \E l \in Loops : PassEnds(l)
TickAgain == \E l \in Loops : Tick(l)
EndPublish == \E l \in Loops : Published(l)
MeetPoller == \E h \in Changes : StopPoller(h)
MeetPublisher == \E h \in Changes : StopPublisher(h)
GoOn == \E h \in Changes : \/ ChangeClient(h) \/ ClientChanged(h)
                           \/ StartPoller(h) \/ StartPublisher(h)
MeetRefresher == ClientStep /\ StopAuth
Request == ClientStep /\ (Refresher \/ Login \/ LoginFails)

(* Passes and publications end, tickers tick, handlers run on; a blocked   *)
(* send on a stop channel succeeds once loops are in their select often    *)
(* enough.  Neither changes nor signals have to arrive.                    *)
Fairness ==
    /\ WF_lifecycleVars(EndPass) /\ WF_lifecycleVars(TickAgain)
    /\ WF_lifecycleVars(EndPublish)
    /\ SF_lifecycleVars(MeetPoller) /\ SF_lifecycleVars(MeetPublisher)
    /\ WF_lifecycleVars(GoOn)
    /\ SF_lifecycleVars(ShutPoller) /\ SF_lifecycleVars(ShutPublisher)
    /\ WF_lifecycleVars(Request) /\ SF_lifecycleVars(MeetRefresher)
    /\ WF_lifecycleVars(ClientStep /\ Elapse)

FairSpec == Spec /\ Fairness
-----------------------------------------------------------------------------
(* Type invariant of the lifecycle.                                        *)
TypeOK ==
    /\ poller \in [Loops -> {"none", "pass", "select", "deaf"}]
    /\ publisher \in [Loops -> {"none", "select", "publish", "returned"}]
    /\ handler \in [Changes -> {"new", "stopPoll", "stopPub", "client", "connecting",
                                "startPoll", "startPub", "done"}]
    /\ stopper \in {"wait", "stopPoll", "stopPub", "closed"}

Polling(l) == poller[l] \in {"pass", "select"}
Publishing(l) == publisher[l] \in {"select", "publish"}

(* Details are published one at a time, whatever changes and signals do:   *)
(* there are never two publishing loops.                                   *)
AtMostOnePublisher ==
    \A k, l \in Loops : Publishing(k) /\ Publishing(l) => k = l

(* A reconfiguration never leaves the agent without work being done: when  *)
(* none is under way and no stop was asked for, a loop polls and a loop    *)
(* publishes.                                                              *)
NeverIdle ==
    stopper = "wait" /\ (\A h \in Changes : handler[h] \in {"new", "done"}) =>
        /\ \E l \in Loops : Polling(l)
        /\ \E l \in Loops : Publishing(l)

(* onConfigChange comes to its end, or the process to its.                 *)
ChangeCompletes ==
    \A h \in Changes : handler[h] = "stopPoll" ~> handler[h] = "done" \/ ~Running

(* A signal stops the agent, even in the middle of a change.               *)
ShutdownCompletes == stopper = "stopPoll" ~> ~Running

(* Polling goes on for as long as the process does.                        *)
PollingContinues == <>[]~Running \/ []<>(\E l \in Loops : poller[l] = "pass")

(* Whoever waits can go on as soon as what it waits for is there: a stop   *)
(* value is taken by any loop in its select, whoever started that loop and *)
(* whoever stopped it before; the handler waits for nothing else but the   *)
(* client, and the client for its refresher and for an answer.  This is    *)
(* all that the proofs of liveness take from the meaning of ENABLED.       *)
Anyone(f, states) == \E x \in DOMAIN f : f[x] \in states
WaitsAreMet ==
    Running =>
        /\ Anyone(poller, {"pass"}) => ENABLED <<EndPass>>_lifecycleVars
        /\ Anyone(poller, {"select"}) => ENABLED <<TickAgain>>_lifecycleVars
        /\ Anyone(publisher, {"publish"}) => ENABLED <<EndPublish>>_lifecycleVars
        /\ Anyone(poller, {"select", "deaf"}) =>
             /\ Anyone(handler, {"stopPoll"}) => ENABLED <<MeetPoller>>_lifecycleVars
             /\ stopper = "stopPoll" => ENABLED <<ShutPoller>>_lifecycleVars
        /\ Anyone(publisher, {"select"}) =>
             /\ Anyone(handler, {"stopPub"}) => ENABLED <<MeetPublisher>>_lifecycleVars
             /\ stopper = "stopPub" => ENABLED <<ShutPublisher>>_lifecycleVars
        /\ Anyone(handler, {"startPoll", "startPub"}) => ENABLED <<GoOn>>_lifecycleVars
        /\ change = "idle" =>
             /\ Anyone(handler, {"connecting"}) => ENABLED <<GoOn>>_lifecycleVars
             /\ Anyone(handler, {"client"}) /\ Len(auths) <= MaxChanges =>
                  ENABLED <<GoOn>>_lifecycleVars
        /\ change = "stop" /\ auths[Newest].loop = "select" =>
             ENABLED <<MeetRefresher>>_lifecycleVars
        /\ change = "login" \/ auths[Newest].loop = "fetch" =>
             ENABLED <<Request>>_lifecycleVars

(* Between the stops of onConfigChange and its restarts no loop polls.     *)
StoppedWhileChanging ==
    \A h \in Changes : handler[h] \in {"stopPub", "client", "connecting", "startPoll"} =>
        \A l \in Loops : ~Polling(l)
=============================================================================
