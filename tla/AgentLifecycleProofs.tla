------------------------ MODULE AgentLifecycleProofs ------------------------
(***************************************************************************)
(* Theorems about AgentLifecycle, for any number of configuration changes. *)
(***************************************************************************)
EXTENDS AgentLifecycle, TokenRefreshProofs, FiniteSetTheorems

LEMMA LifecycleTypeInit == Init => TypeOK
BY DEF Init, TypeOK, Loops

LEMMA LifecycleTypeStep == TypeOK /\ [Next]_lifecycleVars => TypeOK'
<1> SUFFICES ASSUME TypeOK, [Next]_lifecycleVars PROVE TypeOK'
  OBVIOUS
<1>1. ASSUME NEW l \in Loops, LoopStep(l) PROVE TypeOK'
  BY <1>1 DEF LoopStep, PassEnds, Tick, Receive, Published, TypeOK
<1>2. ASSUME NEW h \in Changes, Handle(h) PROVE TypeOK'
  <2>1. h \in Loops
    BY DEF Loops
  <2> QED BY <1>2, <2>1 DEF Handle, Arrive, StopPoller, StopPublisher, ChangeClient,
             ClientChanged, StartPoller, StartPublisher, Goto, PollerTakesStop,
             PublisherTakesStop, loopVars, TypeOK
<1>3. CASE Signal \/ ShutPoller \/ ShutPublisher
  BY <1>3 DEF Signal, ShutPoller, ShutPublisher, PollerTakesStop, PublisherTakesStop,
              loopVars, TypeOK
<1>4. CASE ClientStep
  BY <1>4 DEF ClientStep, agentVars, TypeOK
<1>5. CASE UNCHANGED lifecycleVars
  BY <1>5 DEF lifecycleVars, TypeOK
<1> QED BY <1>1, <1>2, <1>3, <1>4, <1>5 DEF Next

(* Type correctness of every reachable state.                              *)
THEOREM LifecycleTypeCorrect == Spec => []TypeOK
BY LifecycleTypeInit, LifecycleTypeStep, PTL DEF Spec
-----------------------------------------------------------------------------
(* What a loop or a handler holds: a running publishing loop, or the right *)
(* to start one after a stop value was taken.  It passes from one to the   *)
(* other and is never doubled.                                             *)
Holder(x) ==
    \/ Publishing(x)
    \/ /\ x \in Changes
       /\ handler[x] \in {"client", "connecting", "startPoll", "startPub"}

OneHolder ==
    /\ \A x, y \in Loops : Holder(x) /\ Holder(y) => x = y
    /\ \A h \in Changes : Publishing(h) => handler[h] = "done"

LEMMA OneHolderStep == TypeOK /\ OneHolder /\ [Next]_lifecycleVars => OneHolder'
<1> SUFFICES ASSUME TypeOK, OneHolder, [Next]_lifecycleVars PROVE OneHolder'
  OBVIOUS
<1>0. Changes \subseteq Loops
  BY DEF Loops
(* Steps that neither stop nor start a publishing loop.                    *)
<1>1. ASSUME \A l \in Loops : Publishing(l)' <=> Publishing(l),
             \A h \in Changes : handler'[h] = handler[h]
      PROVE  OneHolder'
  <2>1. \A l \in Loops : Holder(l)' <=> Holder(l)
    BY <1>1 DEF Holder
  <2>2. \A h \in Changes : Publishing(h)' => handler'[h] = "done"
    BY <1>0, <1>1 DEF OneHolder
  <2> QED BY <2>1, <2>2 DEF OneHolder
<1>2. ASSUME NEW l \in Loops, LoopStep(l) PROVE OneHolder'
  <2>1. \A k \in Loops : Publishing(k)' <=> Publishing(k)
    BY <1>2 DEF LoopStep, PassEnds, Tick, Receive, Published, Publishing, TypeOK
  <2> QED BY <1>1, <1>2, <2>1 DEF LoopStep, PassEnds, Tick, Receive, Published
<1>3. ASSUME NEW h \in Changes, Handle(h) PROVE OneHolder'
  (* Steps of a handler that neither gain nor lose the right.               *)
  <2>1. ASSUME UNCHANGED publisher, NEW from, NEW to, Goto(h, from, to), from # "done",
               to # "done", to \in {"client", "connecting", "startPoll", "startPub"} =>
                   from \in {"client", "connecting", "startPoll", "startPub"}
        PROVE  OneHolder'
    <3>1. /\ handler[h] = from /\ handler'[h] = to
          /\ \A g \in Changes : g # h => handler'[g] = handler[g]
      BY <2>1 DEF Goto, TypeOK
    <3>2. \A l \in Loops : Publishing(l)' <=> Publishing(l)
      BY <2>1 DEF Publishing
    <3>3. ~Publishing(h)
      BY <2>1, <3>1 DEF OneHolder
    <3>4. \A x \in Loops : Holder(x)' => Holder(x)
      BY <2>1, <3>1, <3>2 DEF Holder
    <3> QED BY <1>0, <3>1, <3>2, <3>3, <3>4 DEF OneHolder
  <2>2. CASE Arrive(h) \/ StopPoller(h) \/ ChangeClient(h) \/ ClientChanged(h) \/ StartPoller(h)
    BY <2>1, <2>2 DEF Arrive, StopPoller, ChangeClient, ClientChanged, StartPoller, loopVars
  <2>3. CASE StopPublisher(h)
    <3>1. PICK l \in Loops : /\ publisher[l] = "select"
                             /\ publisher' = [publisher EXCEPT ![l] = "returned"]
      BY <2>3 DEF StopPublisher, PublisherTakesStop
    <3>2. /\ handler[h] = "stopPub" /\ handler'[h] = "client"
          /\ \A g \in Changes : g # h => handler'[g] = handler[g]
      BY <2>3 DEF StopPublisher, Goto, TypeOK
    <3>3. Publishing(l) /\ ~Publishing(l)' /\ \A k \in Loops : k # l => (Publishing(k)' <=> Publishing(k))
      BY <3>1 DEF Publishing, TypeOK
    <3>4. \A k \in Loops : Holder(k) => k = l
      BY <3>3 DEF OneHolder, Holder
    <3>5. l \in Changes => handler[l] = "done"
      BY <3>3 DEF OneHolder
    <3>6. \A k \in Loops : Holder(k)' => k = h
      <4> SUFFICES ASSUME NEW k \in Loops, Holder(k)', k # h PROVE FALSE
        OBVIOUS
      <4>1. Holder(k)
        BY <3>2, <3>3 DEF Holder
      <4>2. k = l
        BY <3>4, <4>1
      <4> QED BY <3>2, <3>3, <3>5, <4>2 DEF Holder
    <3>7. \A g \in Changes : Publishing(g)' => handler'[g] = "done"
      BY <1>0, <3>2, <3>3 DEF OneHolder
    <3> QED BY <3>6, <3>7 DEF OneHolder
  <2>4. CASE StartPublisher(h)
    <3>1. /\ handler[h] = "startPub" /\ handler'[h] = "done"
          /\ \A g \in Changes : g # h => handler'[g] = handler[g]
      BY <2>4 DEF StartPublisher, Goto, TypeOK
    <3>2. \A k \in Loops : k # h => (Publishing(k)' <=> Publishing(k))
      BY <1>0, <2>4 DEF StartPublisher, Publishing, TypeOK
    <3>3. Holder(h)
      BY <3>1 DEF Holder
    <3>4. \A k \in Loops : Holder(k)' => Holder(k)
      BY <3>1, <3>2, <3>3 DEF Holder
    <3> QED BY <1>0, <3>1, <3>2, <3>4 DEF OneHolder
  <2> QED BY <1>3, <2>2, <2>3, <2>4 DEF Handle
<1>4. CASE Signal \/ ShutPoller
  BY <1>1, <1>4 DEF Signal, ShutPoller, loopVars, Publishing
<1>5. CASE ShutPublisher
  <2>1. PICK l \in Loops : publisher' = [publisher EXCEPT ![l] = "returned"]
    BY <1>5 DEF ShutPublisher, PublisherTakesStop
  <2>2. \A k \in Loops : Publishing(k)' => Publishing(k)
    BY <2>1 DEF Publishing, TypeOK
  <2>3. UNCHANGED handler
    BY <1>5 DEF ShutPublisher
  <2> QED BY <1>0, <2>2, <2>3 DEF OneHolder, Holder
<1>6. CASE ClientStep
  BY <1>1, <1>6 DEF ClientStep, agentVars, Publishing
<1>7. CASE UNCHANGED lifecycleVars
  BY <1>1, <1>7 DEF lifecycleVars, Publishing
<1> QED BY <1>2, <1>3, <1>4, <1>5, <1>6, <1>7 DEF Next

(* There are never two publishing loops, however many configuration        *)
(* changes arrive and whenever the agent is stopped.                       *)
THEOREM PublishersExclude == Spec => []AtMostOnePublisher
<1>1. Init => OneHolder
  BY LifecycleAssumption DEF Init, OneHolder, Holder, Publishing, Loops
<1>2. OneHolder => AtMostOnePublisher
  BY DEF OneHolder, Holder, AtMostOnePublisher
<1> QED BY <1>1, <1>2, OneHolderStep, LifecycleTypeCorrect, PTL DEF Spec
-----------------------------------------------------------------------------
(* While nobody asked for a stop, a handler is the only one to leave the   *)
(* agent without a polling loop, and only between its stop and its start   *)
(* of one; until the agent has stopped the same holds of publishing loops. *)
PollsUnlessStopped ==
    stopper = "wait"
      /\ (\A h \in Changes :
            handler[h] \notin {"stopPub", "client", "connecting", "startPoll"}) =>
      \E l \in Loops : Polling(l)

PublishesUnlessStopped ==
    stopper # "closed"
      /\ (\A h \in Changes :
            handler[h] \notin {"client", "connecting", "startPoll", "startPub"}) =>
      \E l \in Loops : Publishing(l)

LEMMA PollsStep == TypeOK /\ PollsUnlessStopped /\ [Next]_lifecycleVars => PollsUnlessStopped'
<1> SUFFICES ASSUME TypeOK, PollsUnlessStopped, [Next]_lifecycleVars
             PROVE  PollsUnlessStopped'
  OBVIOUS
<1> DEFINE Between == {"stopPub", "client", "connecting", "startPoll"}
<1>1. ASSUME stopper' = stopper, \A l \in Loops : Polling(l)' <=> Polling(l),
             \A h \in Changes : handler[h] \in Between => handler'[h] \in Between
      PROVE  PollsUnlessStopped'
  BY <1>1 DEF PollsUnlessStopped
<1>2. ASSUME NEW l \in Loops, LoopStep(l) PROVE PollsUnlessStopped'
  <2>1. \A k \in Loops : Polling(k)' <=> Polling(k)
    BY <1>2 DEF LoopStep, PassEnds, Tick, Receive, Published, Polling, TypeOK
  <2> QED BY <1>1, <1>2, <2>1 DEF LoopStep, PassEnds, Tick, Receive, Published
<1>3. ASSUME NEW h \in Changes, Handle(h) PROVE PollsUnlessStopped'
  <2>1. CASE Arrive(h) \/ StopPublisher(h) \/ ChangeClient(h) \/ ClientChanged(h)
             \/ StartPublisher(h)
    <3>1. \A l \in Loops : Polling(l)' <=> Polling(l)
      BY <2>1 DEF Arrive, StopPublisher, ChangeClient, ClientChanged, StartPublisher,
                  loopVars, Polling
    <3>2. \A g \in Changes : handler[g] \in Between => handler'[g] \in Between
      BY <2>1 DEF Arrive, StopPublisher, ChangeClient, ClientChanged, StartPublisher,
                  Goto, TypeOK
    <3> QED BY <1>1, <2>1, <3>1, <3>2 DEF Arrive, StopPublisher, ChangeClient,
               ClientChanged, StartPublisher, Goto
  <2>2. CASE StopPoller(h)
    <3>1. handler'[h] = "stopPub"
      BY <2>2 DEF StopPoller, Goto, TypeOK
    <3> QED BY <3>1 DEF PollsUnlessStopped
  <2>3. CASE StartPoller(h)
    <3>1. h \in Loops /\ Polling(h)'
      BY <2>3 DEF StartPoller, Loops, Polling, TypeOK
    <3> QED BY <3>1 DEF PollsUnlessStopped
  <2> QED BY <1>3, <2>1, <2>2, <2>3 DEF Handle
<1>4. CASE Signal \/ ShutPoller \/ ShutPublisher
  BY <1>4 DEF Signal, ShutPoller, ShutPublisher, PollsUnlessStopped
<1>5. CASE ClientStep \/ UNCHANGED lifecycleVars
  BY <1>1, <1>5 DEF ClientStep, agentVars, lifecycleVars, Polling
<1> QED BY <1>2, <1>3, <1>4, <1>5 DEF Next

LEMMA PublishesStep ==
    TypeOK /\ PublishesUnlessStopped /\ [Next]_lifecycleVars => PublishesUnlessStopped'
<1> SUFFICES ASSUME TypeOK, PublishesUnlessStopped, [Next]_lifecycleVars
             PROVE  PublishesUnlessStopped'
  OBVIOUS
<1> DEFINE Between == {"client", "connecting", "startPoll", "startPub"}
<1>1. ASSUME stopper' # "closed" => stopper # "closed",
             \A l \in Loops : Publishing(l)' <=> Publishing(l),
             \A h \in Changes : handler[h] \in Between => handler'[h] \in Between
      PROVE  PublishesUnlessStopped'
  BY <1>1 DEF PublishesUnlessStopped
<1>2. ASSUME NEW l \in Loops, LoopStep(l) PROVE PublishesUnlessStopped'
  <2>1. \A k \in Loops : Publishing(k)' <=> Publishing(k)
    BY <1>2 DEF LoopStep, PassEnds, Tick, Receive, Published, Publishing, TypeOK
  <2> QED BY <1>1, <1>2, <2>1 DEF LoopStep, PassEnds, Tick, Receive, Published
<1>3. ASSUME NEW h \in Changes, Handle(h) PROVE PublishesUnlessStopped'
  <2>1. CASE Arrive(h) \/ StopPoller(h) \/ ChangeClient(h) \/ ClientChanged(h)
             \/ StartPoller(h)
    <3>1. \A l \in Loops : Publishing(l)' <=> Publishing(l)
      BY <2>1 DEF Arrive, StopPoller, ChangeClient, ClientChanged, StartPoller,
                  loopVars, Publishing
    <3>2. \A g \in Changes : handler[g] \in Between => handler'[g] \in Between
      BY <2>1 DEF Arrive, StopPoller, ChangeClient, ClientChanged, StartPoller, Goto, TypeOK
    <3> QED BY <1>1, <2>1, <3>1, <3>2 DEF Arrive, StopPoller, ChangeClient,
               ClientChanged, StartPoller, Goto
  <2>2. CASE StopPublisher(h)
    <3>1. handler'[h] = "client"
      BY <2>2 DEF StopPublisher, Goto, TypeOK
    <3> QED BY <3>1 DEF PublishesUnlessStopped
  <2>3. CASE StartPublisher(h)
    <3>1. h \in Loops /\ Publishing(h)'
      BY <2>3 DEF StartPublisher, Loops, Publishing, TypeOK
    <3> QED BY <3>1 DEF PublishesUnlessStopped
  <2> QED BY <1>3, <2>1, <2>2, <2>3 DEF Handle
<1>4. CASE Signal \/ ShutPoller \/ ShutPublisher
  BY <1>1, <1>4 DEF Signal, ShutPoller, ShutPublisher, loopVars, Publishing,
                    PublishesUnlessStopped
<1>5. CASE ClientStep \/ UNCHANGED lifecycleVars
  BY <1>1, <1>5 DEF ClientStep, agentVars, lifecycleVars, Publishing
<1> QED BY <1>2, <1>3, <1>4, <1>5 DEF Next

(* A configuration change never leaves the agent without a polling and a   *)
(* publishing loop, however many changes arrive.                           *)
THEOREM AgentKeepsWorking == Spec => []NeverIdle
<1>1. Init => PollsUnlessStopped /\ PublishesUnlessStopped
  BY DEF Init, PollsUnlessStopped, PublishesUnlessStopped, Polling, Publishing, Loops
<1>2. PollsUnlessStopped /\ PublishesUnlessStopped => NeverIdle
  BY DEF PollsUnlessStopped, PublishesUnlessStopped, NeverIdle
<1> QED BY <1>1, <1>2, PollsStep, PublishesStep, LifecycleTypeCorrect, PTL DEF Spec
-----------------------------------------------------------------------------
(* Seen from its token, the agent is the client of TokenRefresh: it only   *)
(* restricts when changes begin and when the process ends.                 *)
THEOREM LifecycleImplementsToken == Spec => TokenSpec
<1>1. Init => TokenInit
  BY DEF Init
<1>2. [Next]_lifecycleVars => [TokenNext]_tokenVars
  <2> SUFFICES ASSUME [Next]_lifecycleVars PROVE [TokenNext]_tokenVars
    OBVIOUS
  <2>1. ASSUME NEW l \in Loops, LoopStep(l) PROVE UNCHANGED tokenVars
    BY <2>1 DEF LoopStep, PassEnds, Tick, Receive, Published
  <2>2. ASSUME NEW h \in Changes, Handle(h) PROVE [TokenNext]_tokenVars
    BY <2>2 DEF Handle, Arrive, StopPoller, StopPublisher, ChangeClient, ClientChanged,
                StartPoller, StartPublisher, TokenNext
  <2>3. CASE Signal \/ ShutPoller \/ ShutPublisher
    BY <2>3 DEF Signal, ShutPoller, ShutPublisher
  <2>4. CASE ClientStep
    BY <2>4 DEF ClientStep, TokenNext
  <2>5. CASE UNCHANGED lifecycleVars
    BY <2>5 DEF lifecycleVars, tokenVars
  <2> QED BY <2>1, <2>2, <2>3, <2>4, <2>5 DEF Next
<1> QED BY <1>1, <1>2, PTL DEF Spec, TokenSpec

(* So what is proved of the token holds in the running agent.              *)
THEOREM AgentHasOneRefresher == Spec => []OneRefresher
BY LifecycleImplementsToken, OnlyNewestRefreshes
-----------------------------------------------------------------------------
(* Liveness.  What a handler or the end of Run waits for must come, so the *)
(* invariants say that it is there or on its way.  The SDK calls one       *)
(* handler at a time.                                                      *)
AtWork(h) == handler[h] \notin {"new", "done"}
OneHandler == \A g, h \in Changes : AtWork(g) /\ AtWork(h) => g = h

(* The next state of a handler at work.                                    *)
Follows(s, t) ==
    \/ s = "stopPoll" /\ t = "stopPub"
    \/ s = "stopPub" /\ t = "client"
    \/ s = "client" /\ t = "connecting"
    \/ s = "connecting" /\ t = "startPoll"
    \/ s = "startPoll" /\ t = "startPub"
    \/ s = "startPub" /\ t = "done"

LEMMA HandlerMoves ==
    ASSUME TypeOK, [Next]_lifecycleVars
    PROVE  /\ \A h \in Changes :
                \/ handler'[h] = handler[h]
                \/ Follows(handler[h], handler'[h])
                \/ /\ handler[h] = "new" /\ handler'[h] = "stopPoll"
                   /\ \A g \in Changes : ~AtWork(g) /\ (g # h => handler'[g] = handler[g])
           /\ Running' => Running
<1>1. CASE \E l \in Loops : LoopStep(l)
  BY <1>1 DEF LoopStep, PassEnds, Tick, Receive, Published, Running, Alive, tokenVars
<1>2. ASSUME NEW k \in Changes, Handle(k)
      PROVE  /\ \A h \in Changes :
                  \/ handler'[h] = handler[h]
                  \/ Follows(handler[h], handler'[h])
                  \/ /\ handler[h] = "new" /\ handler'[h] = "stopPoll"
                     /\ \A g \in Changes : ~AtWork(g) /\ (g # h => handler'[g] = handler[g])
             /\ Running
  <2>1. PICK from, to : /\ Goto(k, from, to)
                        /\ \/ Follows(from, to)
                           \/ /\ from = "new" /\ to = "stopPoll"
                              /\ \A g \in Changes : ~AtWork(g)
    BY <1>2 DEF Handle, Arrive, StopPoller, StopPublisher, ChangeClient, ClientChanged,
                StartPoller, StartPublisher, Follows, AtWork
  <2>2. /\ handler[k] = from /\ handler'[k] = to /\ Running
        /\ \A g \in Changes : g # k => handler'[g] = handler[g]
    BY <2>1 DEF Goto, TypeOK
  <2> QED BY <2>1, <2>2
<1>3. CASE Signal \/ ShutPoller \/ ShutPublisher
  BY <1>3 DEF Signal, ShutPoller, ShutPublisher
<1>4. CASE ClientStep
  BY <1>4 DEF ClientStep, agentVars
<1>5. CASE UNCHANGED lifecycleVars
  BY <1>5 DEF lifecycleVars, Running, Alive
<1> QED BY <1>1, <1>2, <1>3, <1>4, <1>5 DEF Next

LEMMA OneHandlerStep ==
    ASSUME TypeOK, OneHandler, [Next]_lifecycleVars
    PROVE  OneHandler'
<1>1. ASSUME NEW h \in Changes, handler[h] = "new", handler'[h] = "stopPoll",
             \A g \in Changes : ~AtWork(g) /\ (g # h => handler'[g] = handler[g])
      PROVE  OneHandler'
  <2>1. \A g \in Changes : AtWork(g)' => g = h
    BY <1>1 DEF AtWork
  <2> QED BY <2>1 DEF OneHandler
<1>2. CASE \A h \in Changes : handler'[h] = handler[h] \/ Follows(handler[h], handler'[h])
  <2>1. \A h \in Changes : AtWork(h)' => AtWork(h)
    BY <1>2 DEF AtWork, Follows
  <2> QED BY <2>1 DEF OneHandler
<1> QED BY <1>1, <1>2, HandlerMoves
-----------------------------------------------------------------------------
(* The polling loop that Run started never returns.                        *)
BootPolls == poller[Boot] # "none"

LEMMA BootPollsStep ==
    ASSUME TypeOK, BootPolls, [Next]_lifecycleVars
    PROVE  BootPolls'
<1>1. Boot \in Loops
  BY DEF Loops
<1>2. CASE \E l \in Loops : LoopStep(l)
  BY <1>1, <1>2 DEF LoopStep, PassEnds, Tick, Receive, Published, BootPolls, TypeOK
<1>3. CASE \E h \in Changes : Handle(h)
  BY <1>1, <1>3, LifecycleAssumption DEF Handle, Arrive, StopPoller, StopPublisher,
     ChangeClient, ClientChanged, StartPoller, StartPublisher, PollerTakesStop, loopVars,
     BootPolls, TypeOK
<1>4. CASE Signal \/ ShutPoller \/ ShutPublisher
  BY <1>1, <1>4 DEF Signal, ShutPoller, ShutPublisher, PollerTakesStop, loopVars, BootPolls,
     TypeOK
<1>5. CASE ClientStep \/ UNCHANGED lifecycleVars
  BY <1>5 DEF ClientStep, agentVars, lifecycleVars, BootPolls
<1> QED BY <1>2, <1>3, <1>4, <1>5 DEF Next

(* The client changes for a handler that waits for it, and then the agent  *)
(* has no publishing loop to take the stop of Run.                         *)
ClientBusy ==
    change \in {"stop", "login"} =>
        stopper # "closed" /\ \E h \in Changes : handler[h] = "connecting"

LEMMA ClientBusyStep ==
    ASSUME TypeOK, OneHolder, ClientBusy, [Next]_lifecycleVars
    PROVE  ClientBusy'
<1>1. CASE \E l \in Loops : LoopStep(l)
  BY <1>1 DEF LoopStep, PassEnds, Tick, Receive, Published, tokenVars, ClientBusy
<1>2. ASSUME NEW h \in Changes, Handle(h) PROVE ClientBusy'
  <2>1. CASE ChangeClient(h)
    <3>1. handler'[h] = "connecting" /\ stopper' # "closed"
      BY <2>1 DEF ChangeClient, Goto, Running, TypeOK
    <3> QED BY <3>1 DEF ClientBusy
  <2>2. CASE ClientChanged(h)
    BY <2>2 DEF ClientChanged, tokenVars, ClientBusy
  <2>3. ASSUME NEW from, NEW to, Goto(h, from, to), from # "connecting", UNCHANGED change
        PROVE  ClientBusy'
    <3>1. \A g \in Changes : handler[g] = "connecting" => handler'[g] = "connecting"
      BY <2>3 DEF Goto, TypeOK
    <3> QED BY <2>3, <3>1 DEF ClientBusy, Goto
  <2> QED BY <1>2, <2>1, <2>2, <2>3 DEF Handle, Arrive, StopPoller, StopPublisher,
             StartPoller, StartPublisher, tokenVars
<1>3. CASE Signal \/ ShutPoller
  BY <1>3 DEF Signal, ShutPoller, tokenVars, ClientBusy
<1>4. CASE ShutPublisher
  <2>1. PICK l \in Loops : publisher[l] = "select"
    BY <1>4 DEF ShutPublisher, PublisherTakesStop
  <2>2. \A h \in Changes : handler[h] # "connecting"
    BY <2>1 DEF OneHolder, Holder, Publishing, Loops
  <2> QED BY <1>4, <2>2 DEF ShutPublisher, tokenVars, ClientBusy
<1>5. CASE ClientStep
  <2>1. change' \in {"stop", "login"} => change \in {"stop", "login"}
    BY <1>5 DEF ClientStep, Refresher, Fire, Refreshed, RefreshFails, StopAuth, Login,
                LoginFails, Elapse
  <2> QED BY <1>5, <2>1 DEF ClientStep, agentVars, ClientBusy
<1>6. CASE UNCHANGED lifecycleVars
  BY <1>6 DEF lifecycleVars, ClientBusy
<1> QED BY <1>1, <1>2, <1>3, <1>4, <1>5, <1>6 DEF Next
-----------------------------------------------------------------------------
(* With tokens that expire, every auth object has a goroutine to meet.     *)
HasRefresher == auths[Newest].loop \in {"select", "fetch"}

(* Only a login makes an auth object.                                      *)
LEMMA AuthsKept ==
    ASSUME TokenTypeOK, HasRefresher, OneRefresher, [TokenNext]_tokenVars, ~Login
    PROVE  Newest' = Newest /\ HasRefresher'
<1>0. /\ auths \in Seq([loop : {"none", "select", "fetch"}, timer : Nat \cup {Off}])
      /\ Newest \in DOMAIN auths /\ DOMAIN auths = 1..Newest /\ Newest \in Nat
  BY DEF TokenTypeOK, Newest
<1>1. ASSUME auths' = [auths EXCEPT ![Newest] = auths'[Newest]],
             auths'[Newest].loop \in {"select", "fetch"}
      PROVE  Newest' = Newest /\ HasRefresher'
  BY <1>0, <1>1 DEF Newest, HasRefresher
<1>2. ASSUME NEW i \in DOMAIN auths, Fire(i) \/ Refreshed(i) \/ RefreshFails(i)
      PROVE  Newest' = Newest /\ HasRefresher'
  <2>1. i = Newest
    BY <1>2 DEF Fire, Refreshed, RefreshFails, OneRefresher, Off
  <2>2. PICK a : a.loop \in {"select", "fetch"} /\ auths' = [auths EXCEPT ![i] = a]
    BY <1>2 DEF Fire, Refreshed, RefreshFails
  <2>3. auths'[i] = a
    BY <2>2
  <2> QED BY <1>1, <2>1, <2>2, <2>3
<1>3. CASE StopAuth
  <2> DEFINE a == [auths[Newest] EXCEPT !.timer = Off]
  <2>1. a.loop = "select" /\ auths' = [auths EXCEPT ![Newest] = a]
    BY <1>0, <1>3 DEF StopAuth
  <2> HIDE DEF a
  <2>2. auths'[Newest] = a
    BY <1>0, <2>1
  <2> QED BY <1>1, <2>1, <2>2
<1>4. CASE Elapse
  <2> DEFINE a(i) == [auths[i] EXCEPT !.timer = IF @ > 0 THEN @ - 1 ELSE @]
  <2>1. auths' = [i \in DOMAIN auths |-> a(i)]
    BY <1>4 DEF Elapse
  <2>2. a(Newest).loop = auths[Newest].loop
    BY <1>0
  <2> HIDE DEF a
  <2>3. DOMAIN auths' = 1..Newest /\ auths'[Newest] = a(Newest)
    BY <1>0, <2>1
  <2>4. auths' \in Seq([loop : {"none", "select", "fetch"}, timer : Nat \cup {Off}])
    BY TokenTypeStep DEF TokenTypeOK
  <2>5. Newest' = Newest
    BY <1>0, <2>3, <2>4 DEF Newest
  <2> QED BY <2>2, <2>3, <2>5 DEF HasRefresher
<1>5. CASE BeginChange \/ LoginFails \/ UNCHANGED tokenVars
  BY <1>5 DEF BeginChange, LoginFails, tokenVars, Newest, HasRefresher
<1> QED BY <1>2, <1>3, <1>4, <1>5 DEF TokenNext, Refresher

TokensExpire == 0 \notin Lifetimes

LEMMA LoginAdds ==
    ASSUME TokensExpire, TokenTypeOK, Login
    PROVE  Newest' = Newest + 1 /\ HasRefresher'
<1>1. PICK lifetime \in Lifetimes : auths' = Append(auths, Started(lifetime))
  BY DEF Login
<1>2. Started(lifetime).loop = "select"
  BY TokenAssumption DEF TokensExpire, Started
<1> QED BY <1>1, <1>2 DEF TokenTypeOK, Newest, HasRefresher

(* The logins that are left suffice for the changes that are still to come *)
(* to theirs.                                                              *)
Ahead == {h \in Changes : \/ handler[h] \in {"new", "stopPoll", "stopPub", "client"}
                          \/ handler[h] = "connecting" /\ change # "idle"}
LoginsLeft == Newest + Cardinality(Ahead) <= 1 + Cardinality(Changes)

RoomForChanges == IsFiniteSet(Changes) /\ Cardinality(Changes) <= MaxChanges

LEMMA LoginsLeftStep ==
    ASSUME RoomForChanges, TokensExpire, TypeOK, TokenTypeOK, HasRefresher, OneRefresher,
           OneHandler, ClientBusy, LoginsLeft, [Next]_lifecycleVars, [TokenNext]_tokenVars
    PROVE  LoginsLeft' /\ HasRefresher'
<1>0. /\ IsFiniteSet(Ahead) /\ Cardinality(Ahead) \in Nat /\ Cardinality(Changes) \in Nat
      /\ Newest \in Nat
  BY FS_Subset, FS_CardinalityType DEF RoomForChanges, Ahead, TokenTypeOK, Newest
<1>1. ASSUME Ahead' \subseteq Ahead, ~Login
      PROVE  LoginsLeft' /\ HasRefresher'
  <2>1. Cardinality(Ahead') \in Nat /\ Cardinality(Ahead') <= Cardinality(Ahead)
    BY <1>0, <1>1, FS_Subset, FS_CardinalityType
  <2> QED BY <1>0, <1>1, <2>1, AuthsKept DEF LoginsLeft
<1>2. CASE Login /\ ClientStep
  <2>1. PICK h \in Changes : handler[h] = "connecting" /\ change = "login" /\ change' = "idle"
    BY <1>2 DEF Login, ClientBusy
  <2>2. Ahead' \subseteq Ahead \ {h} /\ h \in Ahead
    BY <1>2, <2>1 DEF Ahead, ClientStep, agentVars
  <2>3. /\ IsFiniteSet(Ahead \ {h}) /\ Cardinality(Ahead \ {h}) = Cardinality(Ahead) - 1
    BY <1>0, <2>2, FS_RemoveElement
  <2>4. Cardinality(Ahead') \in Nat /\ Cardinality(Ahead') <= Cardinality(Ahead) - 1
    BY <1>0, <2>2, <2>3, FS_Subset, FS_CardinalityType
  <2> QED BY <1>0, <1>2, <2>4, LoginAdds DEF LoginsLeft
<1>3. CASE ClientStep /\ ~Login
  <2>1. change' \in {change, "login", "fatal"} /\ (change = "idle" => change' = "idle")
    BY <1>3 DEF ClientStep, Refresher, Fire, Refreshed, RefreshFails, StopAuth, LoginFails,
                Elapse
  <2>2. Ahead' \subseteq Ahead
    BY <1>3, <2>1 DEF Ahead, ClientStep, agentVars
  <2> QED BY <1>1, <1>3, <2>2
<1>4. ASSUME NEW h \in Changes, Handle(h) PROVE LoginsLeft' /\ HasRefresher'
  <2>1. ~Login
    BY <1>4 DEF Handle, Arrive, StopPoller, StopPublisher, ChangeClient, ClientChanged,
                StartPoller, StartPublisher, tokenVars, BeginChange, Login
  <2>2. CASE ChangeClient(h)
    <3>1. /\ handler[h] = "client" /\ handler'[h] = "connecting"
          /\ \A g \in Changes : g # h => handler'[g] = handler[g]
      BY <2>2 DEF ChangeClient, Goto, TypeOK
    <3>2. \A g \in Changes : g # h => handler[g] # "connecting"
      BY <3>1 DEF OneHandler, AtWork
    <3> QED BY <1>1, <2>1, <3>1, <3>2 DEF Ahead
  <2>3. CASE ~ChangeClient(h)
    <3>1. UNCHANGED change
      BY <1>4, <2>3 DEF Handle, Arrive, StopPoller, StopPublisher, ClientChanged,
                StartPoller, StartPublisher, tokenVars
    <3>2. \A g \in Changes :
            \/ handler'[g] = handler[g]
            \/ handler'[g] \in {"startPoll", "startPub", "done", "stopPoll"} /\ handler[g] = "new"
            \/ handler'[g] \in {"startPoll", "startPub", "done"}
            \/ handler[g] = "stopPoll" /\ handler'[g] = "stopPub"
            \/ handler[g] = "stopPub" /\ handler'[g] = "client"
      BY <1>4, <2>3 DEF Handle, Arrive, StopPoller, StopPublisher, ClientChanged,
                StartPoller, StartPublisher, Goto, TypeOK
    <3> QED BY <1>1, <2>1, <3>1, <3>2 DEF Ahead
  <2> QED BY <2>2, <2>3
<1>5. CASE \/ \E l \in Loops : LoopStep(l)
           \/ Signal \/ ShutPoller \/ ShutPublisher
           \/ UNCHANGED lifecycleVars
  <2>1. UNCHANGED <<handler, tokenVars>>
    BY <1>5 DEF LoopStep, PassEnds, Tick, Receive, Published, Signal, ShutPoller,
                ShutPublisher, lifecycleVars, tokenVars
  <2>2. Ahead' \subseteq Ahead /\ ~Login
    BY <2>1 DEF tokenVars, Ahead, Login
  <2> QED BY <1>1, <2>2
<1> QED BY <1>2, <1>3, <1>4, <1>5 DEF Next
-----------------------------------------------------------------------------
LiveInv == /\ TypeOK /\ TokenTypeOK /\ OneRefresher /\ HasRefresher
           /\ OneHolder /\ OneHandler /\ BootPolls /\ ClientBusy /\ LoginsLeft
           /\ PollsUnlessStopped /\ PublishesUnlessStopped

LEMMA LiveInvariant ==
    ASSUME RoomForChanges, TokensExpire
    PROVE  Spec => []LiveInv
<1>1. Init => LiveInv
  <2> SUFFICES ASSUME Init PROVE LiveInv
    OBVIOUS
  <2>1. TypeOK /\ TokenTypeOK /\ OneRefresher
    BY LifecycleTypeInit, TokenTypeInit DEF Init, TokenInit, OneRefresher, Newest
  <2>2. HasRefresher
    BY TokenAssumption DEF Init, TokenInit, TokensExpire, Started, HasRefresher, Newest
  <2>3. OneHolder /\ OneHandler /\ BootPolls /\ ClientBusy
    BY LifecycleAssumption DEF Init, TokenInit, OneHolder, Holder, Publishing, Loops,
       OneHandler, AtWork, BootPolls, ClientBusy
  <2>4. LoginsLeft
    <3>1. Newest = 1 /\ Ahead = Changes /\ Cardinality(Changes) \in Nat
      BY FS_CardinalityType DEF Init, TokenInit, Newest, Ahead, RoomForChanges
    <3> QED BY <3>1 DEF LoginsLeft
  <2>5. PollsUnlessStopped /\ PublishesUnlessStopped
    BY DEF Init, PollsUnlessStopped, PublishesUnlessStopped, Polling, Publishing, Loops
  <2> QED BY <2>1, <2>2, <2>3, <2>4, <2>5 DEF LiveInv
<1>2. ASSUME LiveInv, [Next]_lifecycleVars, TokenTypeOK', OneRefresher',
             [TokenNext]_tokenVars
      PROVE  LiveInv'
  BY <1>2, LifecycleTypeStep, OneHolderStep, OneHandlerStep, BootPollsStep, ClientBusyStep,
     LoginsLeftStep, PollsStep, PublishesStep DEF LiveInv
<1>3. Spec => [](TokenTypeOK /\ OneRefresher) /\ [][TokenNext]_tokenVars
  BY LifecycleImplementsToken, TokenTypeCorrect, OnlyNewestRefreshes, PTL DEF TokenSpec
<1> QED BY <1>1, <1>2, <1>3, PTL DEF Spec
-----------------------------------------------------------------------------
(* The stages of a change.  A change is at one of them at a time, and      *)
(* leaves it for the next, or the process ends.                            *)
Stage(s) == Running /\ \E h \in Changes : handler[h] = s
Connecting(c) == Stage("connecting") /\ change = c
Ended == ~Running

Ready == Anyone(poller, {"select", "deaf"})
Passing == Anyone(poller, {"pass"})
Selecting == Anyone(publisher, {"select"})

LEMMA StageMoves ==
    ASSUME LiveInv, [Next]_lifecycleVars, NEW s, Stage(s)
    PROVE  \/ Ended' \/ Stage(s)'
           \/ \E t : Follows(s, t) /\ (Stage(t)' \/ (t = "done" /\ \A h \in Changes : ~AtWork(h)'))
           \/ s \in {"new", "done"}
<1>1. PICK h \in Changes : handler[h] = s
  BY DEF Stage
<1>2. CASE handler'[h] = s
  BY <1>1, <1>2 DEF Stage, Ended
<1>3. CASE Follows(s, handler'[h]) /\ handler'[h] # "done"
  BY <1>1, <1>3 DEF Stage, Ended
<1>4. CASE Follows(s, handler'[h]) /\ handler'[h] = "done"
  <2>1. \A g \in Changes : AtWork(g) => g = h
    BY <1>1, <1>4 DEF LiveInv, OneHandler, AtWork, Follows
  <2>2. \A g \in Changes : ~AtWork(g)'
    <3> SUFFICES ASSUME NEW g \in Changes, AtWork(g)' PROVE FALSE
      OBVIOUS
    <3>1. g # h /\ ~AtWork(g)
      BY <1>4, <2>1 DEF AtWork
    <3>2. \A k \in Changes : ~AtWork(k)
      BY <3>1, HandlerMoves DEF LiveInv, AtWork, Follows
    <3> QED BY <1>1, <1>4, <3>2 DEF AtWork, Follows
  <2> QED BY <1>4, <2>2
<1> QED BY <1>1, <1>2, <1>3, <1>4, HandlerMoves DEF LiveInv, AtWork
-----------------------------------------------------------------------------
(* What the theorems of liveness assume of the behaviour from any moment   *)
(* on.                                                                     *)
Live == [][Next]_lifecycleVars /\ []LiveInv /\ []WaitsAreMet /\ Fairness

(* A loop comes to its select again and again.                             *)
LEMMA PollerComes == Live => (Running ~> Ready \/ Ended)
<1>1. ASSUME LiveInv, WaitsAreMet, Running, ~Ready PROVE ENABLED <<EndPass>>_lifecycleVars
  <2>1. poller[Boot] \in {"pass", "select", "deaf"} /\ Boot \in DOMAIN poller
    BY <1>1 DEF LiveInv, TypeOK, BootPolls, Loops
  <2> QED BY <1>1, <2>1 DEF WaitsAreMet, Ready, Anyone
<1>2. ASSUME LiveInv, <<EndPass>>_lifecycleVars PROVE Ready'
  BY <1>2 DEF EndPass, PassEnds, Ready, Anyone, LiveInv, TypeOK
<1> QED BY <1>1, <1>2, PTL DEF Live, Fairness, Ended

LEMMA PollerIsMet == Live => (Stage("stopPoll") ~> Stage("stopPub") \/ Ended)
<1>1. ASSUME LiveInv, [Next]_lifecycleVars, Stage("stopPoll")
      PROVE  Stage("stopPoll")' \/ Stage("stopPub")' \/ Ended'
  BY <1>1, StageMoves DEF Follows
<1>2. ASSUME LiveInv, WaitsAreMet, Stage("stopPoll"), Ready
      PROVE  ENABLED <<MeetPoller>>_lifecycleVars
  BY <1>2 DEF WaitsAreMet, Stage, Ready, Anyone, LiveInv, TypeOK
<1>3. ASSUME LiveInv, <<MeetPoller>>_lifecycleVars PROVE Stage("stopPub")' \/ Ended'
  BY <1>3 DEF MeetPoller, StopPoller, Goto, Stage, Ended, LiveInv, TypeOK
<1>4. Stage("stopPoll") => Running
  BY DEF Stage
<1> QED BY <1>1, <1>2, <1>3, <1>4, PollerComes, PTL DEF Live, Fairness

(* The client.                                                             *)
OneGoesOn(h) == ChangeClient(h) \/ ClientChanged(h) \/ StartPoller(h) \/ StartPublisher(h)

LEMMA OnlyOneGoesOn ==
    ASSUME LiveInv, NEW h \in Changes, AtWork(h), <<GoOn>>_lifecycleVars
    PROVE  OneGoesOn(h)
<1>1. PICK g \in Changes : OneGoesOn(g)
  BY DEF GoOn, OneGoesOn
<1>2. AtWork(g)
  BY <1>1 DEF OneGoesOn, ChangeClient, ClientChanged, StartPoller, StartPublisher, Goto, AtWork
<1> QED BY <1>1, <1>2 DEF LiveInv, OneHandler

LEMMA ClientChanges ==
    ASSUME RoomForChanges
    PROVE  Live => (Stage("client") ~> Stage("connecting") \/ Ended)
<1>1. ASSUME LiveInv, [Next]_lifecycleVars, Stage("client")
      PROVE  Stage("client")' \/ Stage("connecting")' \/ Ended'
  BY <1>1, StageMoves DEF Follows
<1>2. ASSUME LiveInv, WaitsAreMet, Stage("client")
      PROVE  ENABLED <<GoOn>>_lifecycleVars
  <2>1. PICK h \in Changes : handler[h] = "client"
    BY <1>2 DEF Stage
  <2>2. change = "idle"
    <3>1. \A g \in Changes : handler[g] # "connecting"
      BY <1>2, <2>1 DEF LiveInv, OneHandler, AtWork
    <3> QED BY <1>2, <3>1 DEF LiveInv, ClientBusy, TokenTypeOK, Stage, Running, Alive
  <2>3. Len(auths) <= MaxChanges
    <3>1. h \in Ahead /\ IsFiniteSet(Ahead)
      BY <1>2, <2>1, FS_Subset DEF Ahead, RoomForChanges
    <3>2. Cardinality(Ahead) \in Nat /\ Cardinality(Ahead) # 0
      BY <3>1, FS_CardinalityType, FS_EmptySet
    <3>3. Cardinality(Changes) \in Nat /\ Len(auths) \in Nat /\ MaxChanges \in Nat
      BY <1>2, FS_CardinalityType, TokenAssumption DEF RoomForChanges, LiveInv, TokenTypeOK
    <3> QED BY <1>2, <3>2, <3>3 DEF LiveInv, LoginsLeft, Newest, RoomForChanges
  <2>4. Running /\ Anyone(handler, {"client"})
    BY <1>2, <2>1 DEF Stage, Anyone, LiveInv, TypeOK
  <2> QED BY <1>2, <2>2, <2>3, <2>4 DEF WaitsAreMet
<1>3. ASSUME LiveInv, Stage("client"), <<GoOn>>_lifecycleVars
      PROVE  Stage("connecting")' \/ Ended'
  <2>1. PICK h \in Changes : handler[h] = "client" /\ OneGoesOn(h)
    BY <1>3, OnlyOneGoesOn DEF Stage, AtWork
  <2> QED BY <1>3, <2>1 DEF OneGoesOn, ChangeClient, ClientChanged, StartPoller,
             StartPublisher, Goto, Stage, Ended, LiveInv, TypeOK
<1> QED BY <1>1, <1>2, <1>3, PTL DEF Live, Fairness


(* The new login: the handler meets the refresher of the newest auth       *)
(* object, which is in its select or about to be, and the request for a    *)
(* token is answered.                                                      *)
LEMMA ConnectingMoves ==
    ASSUME LiveInv, [Next]_lifecycleVars
    PROVE  /\ Connecting("stop") => Connecting("stop")' \/ Connecting("login")' \/ Ended'
           /\ Connecting("login") => Connecting("login")' \/ Connecting("idle")' \/ Ended'
           /\ Connecting("idle") => Connecting("idle")' \/ Stage("startPoll")' \/ Ended'
<1> SUFFICES ASSUME Stage("connecting"), ~Ended'
             PROVE  /\ change = "stop" => Connecting("stop")' \/ Connecting("login")'
                    /\ change = "login" => Connecting("login")' \/ Connecting("idle")'
                    /\ change = "idle" => Connecting("idle")' \/ Stage("startPoll")'
  BY DEF Connecting
<1>1. PICK h \in Changes : handler[h] = "connecting"
  BY DEF Stage
<1>2. \A g \in Changes : AtWork(g) => g = h
  BY <1>1 DEF LiveInv, OneHandler, AtWork
<1>3. CASE UNCHANGED <<handler, change>>
  BY <1>1, <1>3 DEF Connecting, Stage, Ended
<1>4. ASSUME NEW g \in Changes, Handle(g)
      PROVE  change = "idle" /\ Stage("startPoll")'
  <2>1. g = h
    BY <1>1, <1>2, <1>4 DEF Handle, Arrive, StopPoller, StopPublisher, ChangeClient,
       ClientChanged, StartPoller, StartPublisher, Goto, AtWork
  <2>2. ClientChanged(h)
    BY <1>1, <1>4, <2>1 DEF Handle, Arrive, StopPoller, StopPublisher, ChangeClient,
       StartPoller, StartPublisher, Goto
  <2> QED BY <2>2 DEF ClientChanged, Goto, Stage, Ended, LiveInv, TypeOK
<1>5. CASE ClientStep
  <2>1. UNCHANGED handler /\ Running'
    BY <1>5 DEF ClientStep, agentVars, Ended
  <2>2. \/ UNCHANGED change
        \/ change = "stop" /\ change' = "login"
        \/ change = "login" /\ change' = "idle"
    BY <1>5, <2>1 DEF ClientStep, Refresher, Fire, Refreshed, RefreshFails, StopAuth, Login,
       LoginFails, Elapse, Running, Alive
  <2> QED BY <1>1, <2>1, <2>2 DEF Connecting, Stage
<1>6. CASE \/ \E l \in Loops : LoopStep(l)
           \/ Signal \/ ShutPoller \/ ShutPublisher
           \/ UNCHANGED lifecycleVars
  BY <1>3, <1>6 DEF LoopStep, PassEnds, Tick, Receive, Published, Signal, ShutPoller,
     ShutPublisher, lifecycleVars, tokenVars
<1> QED BY <1>3, <1>4, <1>5, <1>6 DEF Next, Connecting

Fetching == auths[Newest].loop = "fetch"

LEMMA RefresherComes == Live => (Connecting("stop") ~> ~Fetching \/ ~Connecting("stop"))
<1>1. ASSUME WaitsAreMet, Connecting("stop"), Fetching
      PROVE  ENABLED <<Request>>_lifecycleVars
  BY <1>1 DEF WaitsAreMet, Connecting, Stage, Fetching
<1>2. ASSUME LiveInv, Connecting("stop"), Fetching, <<Request>>_lifecycleVars
      PROVE  ~Fetching'
  <2>1. PICK i \in DOMAIN auths : Fire(i) \/ Refreshed(i) \/ RefreshFails(i)
    BY <1>2 DEF Request, Refresher, Connecting, Login, LoginFails
  <2>2. i = Newest
    BY <1>2, <2>1 DEF Fire, Refreshed, RefreshFails, LiveInv, OneRefresher, Off
  <2>3. PICK a : a.loop = "select" /\ auths' = [auths EXCEPT ![i] = a]
    BY <1>2, <2>1, <2>2 DEF Fetching, Fire, Refreshed, RefreshFails
  <2>4. Newest' = Newest /\ auths'[i] = a
    BY <1>2, <2>3 DEF LiveInv, TokenTypeOK, Newest
  <2> QED BY <2>2, <2>3, <2>4 DEF Fetching
<1> QED BY <1>1, <1>2, PTL DEF Live, Fairness

LEMMA RefresherIsMet == Live => (Connecting("stop") ~> Connecting("login") \/ Ended)
<1>1. ASSUME LiveInv, [Next]_lifecycleVars, Connecting("stop")
      PROVE  Connecting("stop")' \/ Connecting("login")' \/ Ended'
  BY <1>1, ConnectingMoves
<1>2. ASSUME LiveInv, WaitsAreMet, Connecting("stop"), ~Fetching
      PROVE  ENABLED <<MeetRefresher>>_lifecycleVars
  BY <1>2 DEF WaitsAreMet, Connecting, Stage, Fetching, LiveInv, HasRefresher
<1>3. ASSUME LiveInv, Connecting("stop"), <<MeetRefresher>>_lifecycleVars
      PROVE  Connecting("login")' \/ Ended'
  BY <1>3 DEF MeetRefresher, ClientStep, agentVars, StopAuth, Connecting, Stage, Ended
<1> QED BY <1>1, <1>2, <1>3, RefresherComes, PTL DEF Live, Fairness

LEMMA LoginIsAnswered == Live => (Connecting("login") ~> Connecting("idle") \/ Ended)
<1>1. ASSUME LiveInv, [Next]_lifecycleVars, Connecting("login")
      PROVE  Connecting("login")' \/ Connecting("idle")' \/ Ended'
  BY <1>1, ConnectingMoves
<1>2. ASSUME WaitsAreMet, Connecting("login") PROVE ENABLED <<Request>>_lifecycleVars
  BY <1>2 DEF WaitsAreMet, Connecting, Stage
<1>3. ASSUME LiveInv, Connecting("login"), <<Request>>_lifecycleVars
      PROVE  Connecting("idle")' \/ Ended'
  <2>1. ~Refresher
    BY <1>3 DEF Refresher, Fire, Refreshed, RefreshFails, LiveInv, OneRefresher, Off,
       Connecting
  <2> QED BY <1>3, <2>1 DEF Request, ClientStep, agentVars, Login, LoginFails, Connecting,
             Stage, Ended, Running, Alive
<1> QED BY <1>1, <1>2, <1>3, PTL DEF Live, Fairness

LEMMA ChangeIsSeen == Live => (Connecting("idle") ~> Stage("startPoll") \/ Ended)
<1>1. ASSUME LiveInv, [Next]_lifecycleVars, Connecting("idle")
      PROVE  Connecting("idle")' \/ Stage("startPoll")' \/ Ended'
  BY <1>1, ConnectingMoves
<1>2. ASSUME LiveInv, WaitsAreMet, Connecting("idle") PROVE ENABLED <<GoOn>>_lifecycleVars
  <2>1. Running /\ Anyone(handler, {"connecting"}) /\ change = "idle"
    BY <1>2 DEF Connecting, Stage, Anyone, LiveInv, TypeOK
  <2> QED BY <1>2, <2>1 DEF WaitsAreMet
<1>3. ASSUME LiveInv, Connecting("idle"), <<GoOn>>_lifecycleVars
      PROVE  Stage("startPoll")' \/ Ended'
  <2>1. PICK h \in Changes : handler[h] = "connecting" /\ OneGoesOn(h)
    BY <1>3, OnlyOneGoesOn DEF Connecting, Stage, AtWork
  <2> QED BY <1>3, <2>1 DEF OneGoesOn, ChangeClient, ClientChanged, StartPoller,
             StartPublisher, Goto, Stage, Ended, LiveInv, TypeOK
<1> QED BY <1>1, <1>2, <1>3, PTL DEF Live, Fairness

LEMMA ConnectingEnds == Live => (Stage("connecting") ~> Stage("startPoll") \/ Ended)
<1>1. LiveInv /\ Stage("connecting") =>
        Connecting("stop") \/ Connecting("login") \/ Connecting("idle")
  BY DEF LiveInv, TokenTypeOK, Connecting, Stage, Running, Alive
<1> QED BY <1>1, RefresherIsMet, LoginIsAnswered, ChangeIsSeen, PTL DEF Live

(* Both loops are started again.                                           *)
LEMMA WhoLeaves ==
    ASSUME LiveInv, [Next]_lifecycleVars, NEW h \in Changes, AtWork(h),
           handler'[h] # handler[h]
    PROVE  Handle(h)
<1>1. PICK g \in Changes : Handle(g)
  BY DEF Next, LoopStep, PassEnds, Tick, Receive, Published, Signal, ShutPoller,
     ShutPublisher, ClientStep, agentVars, lifecycleVars
<1>2. g = h \/ \A k \in Changes : k # g => handler'[k] = handler[k]
  BY <1>1 DEF Handle, Arrive, StopPoller, StopPublisher, ChangeClient, ClientChanged,
     StartPoller, StartPublisher, Goto, LiveInv, TypeOK
<1> QED BY <1>1, <1>2

LEMMA PollerStarted ==
    ASSUME LiveInv, NEW h \in Changes, StartPoller(h)
    PROVE  (Stage("startPub") /\ Passing)' \/ Ended'
<1>1. handler'[h] = "startPub" /\ poller'[h] = "pass" /\ h \in DOMAIN poller'
  BY DEF StartPoller, Goto, LiveInv, TypeOK, Loops
<1> QED BY <1>1 DEF Stage, Ended, Passing, Anyone

LEMMA PollerStarts == Live => (Stage("startPoll") ~> (Stage("startPub") /\ Passing) \/ Ended)
<1>1. ASSUME LiveInv, [Next]_lifecycleVars, Stage("startPoll")
      PROVE  Stage("startPoll")' \/ (Stage("startPub") /\ Passing)' \/ Ended'
  <2>1. PICK h \in Changes : handler[h] = "startPoll"
    BY <1>1 DEF Stage
  <2>2. CASE handler'[h] = handler[h]
    BY <2>1, <2>2 DEF Stage, Ended
  <2>3. CASE handler'[h] # handler[h]
    <3>1. StartPoller(h)
      BY <1>1, <2>1, <2>3, WhoLeaves DEF AtWork, Handle, Arrive, StopPoller, StopPublisher,
         ChangeClient, ClientChanged, StartPublisher, Goto
    <3> QED BY <1>1, <3>1, PollerStarted
  <2> QED BY <2>2, <2>3
<1>2. ASSUME LiveInv, WaitsAreMet, Stage("startPoll") PROVE ENABLED <<GoOn>>_lifecycleVars
  BY <1>2 DEF WaitsAreMet, Stage, Anyone, LiveInv, TypeOK
<1>3. ASSUME LiveInv, Stage("startPoll"), <<GoOn>>_lifecycleVars
      PROVE  (Stage("startPub") /\ Passing)' \/ Ended'
  <2>1. PICK h \in Changes : handler[h] = "startPoll" /\ OneGoesOn(h)
    BY <1>3, OnlyOneGoesOn DEF Stage, AtWork
  <2>2. StartPoller(h)
    BY <2>1 DEF OneGoesOn, ChangeClient, ClientChanged, StartPublisher, Goto
  <2> QED BY <1>3, <2>2, PollerStarted
<1> QED BY <1>1, <1>2, <1>3, PTL DEF Live, Fairness

Resting == \A h \in Changes : ~AtWork(h)

LEMMA PublisherStarted ==
    ASSUME LiveInv, NEW h \in Changes, StartPublisher(h)
    PROVE  (Resting /\ Selecting)'
<1>1. /\ handler[h] = "startPub" /\ handler'[h] = "done"
      /\ \A g \in Changes : g # h => handler'[g] = handler[g]
      /\ publisher'[h] = "select" /\ h \in DOMAIN publisher'
  BY DEF StartPublisher, Goto, LiveInv, TypeOK, Loops
<1>2. \A g \in Changes : AtWork(g) => g = h
  BY <1>1 DEF LiveInv, OneHandler, AtWork
<1> QED BY <1>1, <1>2 DEF Resting, AtWork, Selecting, Anyone

LEMMA PublisherStarts ==
    Live => (Stage("startPub") ~> (Resting /\ Selecting) \/ Ended)
<1>1. ASSUME LiveInv, [Next]_lifecycleVars, Stage("startPub")
      PROVE  Stage("startPub")' \/ (Resting /\ Selecting)' \/ Ended'
  <2>1. PICK h \in Changes : handler[h] = "startPub"
    BY <1>1 DEF Stage
  <2>2. CASE handler'[h] = handler[h]
    BY <2>1, <2>2 DEF Stage, Ended
  <2>3. CASE handler'[h] # handler[h]
    <3>1. StartPublisher(h)
      BY <1>1, <2>1, <2>3, WhoLeaves DEF AtWork, Handle, Arrive, StopPoller, StopPublisher,
         ChangeClient, ClientChanged, StartPoller, Goto
    <3> QED BY <1>1, <3>1, PublisherStarted
  <2> QED BY <2>2, <2>3
<1>2. ASSUME LiveInv, WaitsAreMet, Stage("startPub") PROVE ENABLED <<GoOn>>_lifecycleVars
  BY <1>2 DEF WaitsAreMet, Stage, Anyone, LiveInv, TypeOK
<1>3. ASSUME LiveInv, Stage("startPub"), <<GoOn>>_lifecycleVars
      PROVE  (Resting /\ Selecting)' \/ Ended'
  <2>1. PICK h \in Changes : handler[h] = "startPub" /\ OneGoesOn(h)
    BY <1>3, OnlyOneGoesOn DEF Stage, AtWork
  <2>2. StartPublisher(h)
    BY <2>1 DEF OneGoesOn, ChangeClient, ClientChanged, StartPoller, Goto
  <2> QED BY <1>3, <2>2, PublisherStarted
<1> QED BY <1>1, <1>2, <1>3, PTL DEF Live, Fairness

(* A publishing loop comes to its select again and again, the loop that    *)
(* runs or the one that the change under way will start.                   *)
Busy == Running /\ Anyone(publisher, {"publish"})

LEMMA BusyPublishes == Live => (Busy ~> Selecting \/ Ended)
<1>1. ASSUME LiveInv, [Next]_lifecycleVars, Busy PROVE Busy' \/ Selecting' \/ Ended'
  <2> SUFFICES ASSUME ~Ended' PROVE Anyone(publisher', {"publish"}) \/ Selecting'
    BY DEF Busy, Ended
  <2>0. publisher \in [Loops -> {"none", "select", "publish", "returned"}]
    BY <1>1 DEF LiveInv, TypeOK
  <2>1. PICK l \in Loops : publisher[l] = "publish"
    BY <1>1 DEF Busy, Anyone, LiveInv, TypeOK
  <2>2. CASE publisher'[l] = "publish" /\ DOMAIN publisher' = Loops
    BY <2>1, <2>2 DEF Anyone
  <2>3. CASE UNCHANGED publisher
    BY <2>0, <2>1, <2>3 DEF Anyone
  <2>4. ASSUME NEW k \in Loops, NEW s \in {"select", "publish", "returned"},
               publisher' = [publisher EXCEPT ![k] = s], k = l => s = "select"
        PROVE  Anyone(publisher', {"publish"}) \/ Selecting'
    <3>1. CASE k = l
      <4>1. publisher'[l] = "select" /\ l \in DOMAIN publisher'
        BY <2>0, <2>1, <2>4, <3>1
      <4> QED BY <4>1 DEF Selecting, Anyone
    <3>2. CASE k # l
      BY <2>0, <2>1, <2>2, <2>4, <3>2
    <3> QED BY <3>1, <3>2
  <2>5. ASSUME NEW k \in Loops, LoopStep(k)
        PROVE  Anyone(publisher', {"publish"}) \/ Selecting'
    BY <2>1, <2>3, <2>4, <2>5 DEF LoopStep, PassEnds, Tick, Receive, Published
  <2>6. ASSUME NEW h \in Changes, Handle(h)
        PROVE  Anyone(publisher', {"publish"}) \/ Selecting'
    <3>1. h \in Loops
      BY DEF Loops
    <3>2. CASE StopPublisher(h)
      BY <2>1, <2>4, <3>2 DEF StopPublisher, PublisherTakesStop
    <3>3. CASE StartPublisher(h)
      <4>1. publisher'[h] = "select" /\ h \in DOMAIN publisher'
        BY <2>0, <3>1, <3>3 DEF StartPublisher
      <4> QED BY <4>1 DEF Selecting, Anyone
    <3> QED BY <2>3, <2>6, <3>2, <3>3 DEF Handle, Arrive, StopPoller, ChangeClient,
               ClientChanged, StartPoller, loopVars
  <2>7. CASE Signal \/ ShutPoller \/ ClientStep \/ UNCHANGED lifecycleVars
    BY <2>3, <2>7 DEF Signal, ShutPoller, ClientStep, loopVars, agentVars, lifecycleVars
  <2>8. CASE ShutPublisher
    BY <2>1, <2>4, <2>8 DEF ShutPublisher, PublisherTakesStop
  <2> QED BY <1>1, <2>5, <2>6, <2>7, <2>8 DEF Next
<1>2. ASSUME WaitsAreMet, Busy PROVE ENABLED <<EndPublish>>_lifecycleVars
  BY <1>2 DEF WaitsAreMet, Busy
<1>3. ASSUME LiveInv, <<EndPublish>>_lifecycleVars PROVE Selecting'
  <2>1. PICK l \in Loops : Published(l)
    BY <1>3 DEF EndPublish
  <2>2. publisher'[l] = "select" /\ l \in DOMAIN publisher'
    BY <1>3, <2>1 DEF Published, LiveInv, TypeOK
  <2> QED BY <2>2 DEF Selecting, Anyone
<1> QED BY <1>1, <1>2, <1>3, PTL DEF Live, Fairness

LEMMA PublisherComes ==
    ASSUME RoomForChanges
    PROVE  Live => (Running ~> Selecting \/ Ended)
<1>1. ASSUME LiveInv, Running
      PROVE  \/ Selecting \/ Busy
             \/ Stage("client") \/ Stage("connecting") \/ Stage("startPoll")
             \/ Stage("startPub")
  <2>1. CASE \E h \in Changes :
               handler[h] \in {"client", "connecting", "startPoll", "startPub"}
    BY <1>1, <2>1 DEF Stage
  <2>2. CASE \A h \in Changes :
               handler[h] \notin {"client", "connecting", "startPoll", "startPub"}
    <3>1. PICK l \in Loops : Publishing(l)
      BY <1>1, <2>2 DEF LiveInv, PublishesUnlessStopped, Running
    <3> QED BY <1>1, <3>1 DEF Publishing, Selecting, Busy, Anyone, LiveInv, TypeOK
  <2> QED BY <2>1, <2>2
<1> QED BY <1>1, BusyPublishes, ClientChanges, ConnectingEnds, PollerStarts,
           PublisherStarts, PTL DEF Live

LEMMA PublisherIsMet ==
    ASSUME RoomForChanges
    PROVE  Live => (Stage("stopPub") ~> Stage("client") \/ Ended)
<1>1. ASSUME LiveInv, [Next]_lifecycleVars, Stage("stopPub")
      PROVE  Stage("stopPub")' \/ Stage("client")' \/ Ended'
  BY <1>1, StageMoves DEF Follows
<1>2. ASSUME LiveInv, WaitsAreMet, Stage("stopPub"), Selecting
      PROVE  ENABLED <<MeetPublisher>>_lifecycleVars
  <2>1. Running /\ Anyone(handler, {"stopPub"})
    BY <1>2 DEF Stage, Anyone, LiveInv, TypeOK
  <2> QED BY <1>2, <2>1 DEF WaitsAreMet, Selecting
<1>3. ASSUME LiveInv, <<MeetPublisher>>_lifecycleVars PROVE Stage("client")' \/ Ended'
  BY <1>3 DEF MeetPublisher, StopPublisher, Goto, Stage, Ended, LiveInv, TypeOK
<1>4. Stage("stopPub") => Running
  BY DEF Stage
<1> QED BY <1>1, <1>2, <1>3, <1>4, PublisherComes, PTL DEF Live, Fairness
-----------------------------------------------------------------------------
(* A handler at work comes to its end.                                     *)
Working(h) == Running /\ AtWork(h)
Finished(h) == handler[h] = "done" \/ ~Running
Finishes(h) == Working(h) ~> Finished(h)

LEMMA HandlerFinishes ==
    ASSUME RoomForChanges, NEW h \in Changes
    PROVE  Live => Finishes(h)
<1>1. ASSUME LiveInv, Working(h)
      PROVE  \/ Stage("stopPoll") \/ Stage("stopPub") \/ Stage("client")
             \/ Stage("connecting") \/ Stage("startPoll") \/ Stage("startPub")
  BY <1>1 DEF Working, AtWork, Stage, LiveInv, TypeOK
<1>2. ASSUME LiveInv, [Next]_lifecycleVars, Working(h) PROVE Working(h)' \/ Finished(h)'
  <2>1. \/ handler'[h] = handler[h]
        \/ Follows(handler[h], handler'[h])
    BY <1>2, HandlerMoves DEF LiveInv, Working, AtWork
  <2> QED BY <1>2, <2>1 DEF Working, Finished, AtWork, Follows
<1>3. Working(h) => ~Resting
  BY DEF Working, Resting
<1>4. Ended => Finished(h)
  BY DEF Ended, Finished
<1>5. Live => (Working(h) ~> Resting \/ Ended)
  BY <1>1, PollerIsMet, PublisherIsMet, ClientChanges, ConnectingEnds, PollerStarts,
     PublisherStarts, PTL DEF Live
<1>6. Live => (Working(h) ~> Finished(h))
  BY <1>2, <1>3, <1>4, <1>5, PTL DEF Live
<1> QED BY <1>6 DEF Finishes
-----------------------------------------------------------------------------
(* Once ended, the process stays ended.                                    *)
LEMMA EndIsFinal == ASSUME LiveInv, [Next]_lifecycleVars, Ended PROVE Ended'
BY HandlerMoves DEF LiveInv, Ended

(* A signal: its two values are taken, and the process ends.               *)
Stopping(s) == Running /\ stopper = s

LEMMA StopperMoves ==
    ASSUME [Next]_lifecycleVars, Running
    PROVE  \/ stopper' = stopper
           \/ stopper = "wait" /\ stopper' = "stopPoll"
           \/ stopper = "stopPoll" /\ stopper' = "stopPub"
           \/ stopper = "stopPub" /\ stopper' = "closed"
<1>1. CASE \E l \in Loops : LoopStep(l)
  BY <1>1 DEF LoopStep, PassEnds, Tick, Receive, Published
<1>2. CASE \E h \in Changes : Handle(h)
  BY <1>2 DEF Handle, Arrive, StopPoller, StopPublisher, ChangeClient, ClientChanged,
     StartPoller, StartPublisher, Goto
<1>3. CASE Signal \/ ShutPoller \/ ShutPublisher
  BY <1>3 DEF Signal, ShutPoller, ShutPublisher
<1>4. CASE ClientStep \/ UNCHANGED lifecycleVars
  BY <1>4 DEF ClientStep, agentVars, lifecycleVars
<1> QED BY <1>1, <1>2, <1>3, <1>4 DEF Next

LEMMA StopperEnds ==
    ASSUME RoomForChanges
    PROVE  Live => (Stopping("stopPoll") \/ Stopping("stopPub") ~> Ended)
<1>1. ASSUME [Next]_lifecycleVars
      PROVE  /\ Stopping("stopPoll") => Stopping("stopPoll")' \/ Stopping("stopPub")' \/ Ended'
             /\ Stopping("stopPub") => Stopping("stopPub")' \/ Ended'
  BY <1>1, StopperMoves DEF Stopping, Ended, Running
<1>2. ASSUME WaitsAreMet, Stopping("stopPoll"), Ready
      PROVE  ENABLED <<ShutPoller>>_lifecycleVars
  BY <1>2 DEF WaitsAreMet, Stopping, Ready
<1>3. ASSUME WaitsAreMet, Stopping("stopPub"), Selecting
      PROVE  ENABLED <<ShutPublisher>>_lifecycleVars
  BY <1>3 DEF WaitsAreMet, Stopping, Selecting
<1>4. ASSUME <<ShutPoller>>_lifecycleVars PROVE Stopping("stopPub")' \/ Ended'
  BY <1>4 DEF ShutPoller, Stopping, Ended
<1>5. ASSUME <<ShutPublisher>>_lifecycleVars PROVE Ended'
  BY <1>5 DEF ShutPublisher, Ended, Running
<1>6. (Stopping("stopPoll") => Running) /\ (Stopping("stopPub") => Running)
  BY DEF Stopping
<1> QED BY <1>1, <1>2, <1>3, <1>4, <1>5, <1>6, PollerComes, PublisherComes, PTL
        DEF Live, Fairness

(* A pass comes again and again.  A loop that waits for its tick gets it   *)
(* unless it takes the stop of a change, which then starts a new loop, or  *)
(* that of a signal.                                                       *)
Awaiting == Running /\ stopper = "wait" /\ Anyone(poller, {"select"})

LEMMA AwaitingMoves ==
    ASSUME LiveInv, [Next]_lifecycleVars, Awaiting
    PROVE  \/ Awaiting' \/ Passing' \/ Stage("stopPub")'
           \/ Stopping("stopPoll")' \/ Ended'
<1> SUFFICES ASSUME ~Ended', ~Stage("stopPub")', ~Stopping("stopPoll")'
             PROVE  Awaiting' \/ Passing'
  OBVIOUS
<1>1. stopper' = "wait" /\ Running'
  BY StopperMoves DEF Awaiting, Stopping, Ended
<1>2. PICK l \in Loops : poller[l] = "select"
  BY DEF Awaiting, Anyone, LiveInv, TypeOK
<1>3. poller \in [Loops -> {"none", "pass", "select", "deaf"}]
  BY DEF LiveInv, TypeOK
<1>4. ASSUME NEW k \in Loops, NEW s \in {"pass", "select"},
             poller' = [poller EXCEPT ![k] = s]
      PROVE  Awaiting' \/ Passing'
  <2>1. poller'[l] \in {"pass", "select"} /\ l \in DOMAIN poller'
    BY <1>2, <1>3, <1>4
  <2> QED BY <1>1, <2>1 DEF Awaiting, Passing, Anyone
<1>5. CASE UNCHANGED poller
  BY <1>1, <1>5 DEF Awaiting, Anyone
<1>6. CASE \E k \in Loops : LoopStep(k)
  BY <1>4, <1>5, <1>6 DEF LoopStep, PassEnds, Tick, Receive, Published
<1>7. ASSUME NEW h \in Changes, Handle(h) PROVE Awaiting' \/ Passing'
  <2>1. ~StopPoller(h)
    BY DEF StopPoller, Goto, Stage, Ended, LiveInv, TypeOK
  <2>2. h \in Loops
    BY DEF Loops
  <2> QED BY <1>4, <1>5, <1>7, <2>1, <2>2 DEF Handle, Arrive, StopPublisher, ChangeClient,
             ClientChanged, StartPoller, StartPublisher, loopVars
<1>8. ~ShutPoller
  BY DEF ShutPoller, Awaiting
<1>9. CASE Signal \/ ShutPublisher \/ ClientStep \/ UNCHANGED lifecycleVars
  BY <1>5, <1>9 DEF Signal, ShutPublisher, ClientStep, loopVars, agentVars, lifecycleVars
<1> QED BY <1>6, <1>7, <1>8, <1>9 DEF Next

LEMMA PassComes ==
    ASSUME RoomForChanges
    PROVE  Live => (TRUE ~> Passing \/ Ended)
<1>1. ASSUME LiveInv, Running
      PROVE  \/ Passing \/ Awaiting
             \/ Stopping("stopPoll") \/ Stopping("stopPub")
             \/ Stage("stopPub") \/ Stage("client") \/ Stage("connecting")
             \/ Stage("startPoll")
  <2>1. CASE stopper # "wait"
    BY <1>1, <2>1 DEF Stopping, Running, LiveInv, TypeOK
  <2>2. CASE \E h \in Changes :
               handler[h] \in {"stopPub", "client", "connecting", "startPoll"}
    BY <1>1, <2>2 DEF Stage
  <2>3. CASE stopper = "wait" /\ \A h \in Changes :
               handler[h] \notin {"stopPub", "client", "connecting", "startPoll"}
    <3>1. PICK l \in Loops : Polling(l)
      BY <1>1, <2>3 DEF LiveInv, PollsUnlessStopped
    <3> QED BY <1>1, <2>3, <3>1 DEF Polling, Passing, Awaiting, Anyone, LiveInv, TypeOK
  <2> QED BY <2>1, <2>2, <2>3
<1>2. ASSUME WaitsAreMet, Awaiting PROVE ENABLED <<TickAgain>>_lifecycleVars
  BY <1>2 DEF WaitsAreMet, Awaiting
<1>3. ASSUME LiveInv, <<TickAgain>>_lifecycleVars PROVE Passing'
  <2>1. PICK l \in Loops : Tick(l)
    BY <1>3 DEF TickAgain
  <2>2. poller'[l] = "pass" /\ l \in DOMAIN poller'
    BY <1>3, <2>1 DEF Tick, LiveInv, TypeOK
  <2> QED BY <2>2 DEF Passing, Anyone
<1>4. Running \/ Ended
  BY DEF Ended
<1>5. Live => (Awaiting ~> Passing \/ Stage("stopPub") \/ Stopping("stopPoll") \/ Ended)
  BY <1>2, <1>3, AwaitingMoves, PTL DEF Live, Fairness
<1> QED BY <1>1, <1>4, <1>5, StopperEnds, PublisherIsMet, ClientChanges, ConnectingEnds,
           PollerStarts, PTL DEF Live
-----------------------------------------------------------------------------
(* The theorems.  They assume that the guards of WaitsAreMet make their    *)
(* actions ENABLED, that logins suffice for the changes and that tokens    *)
(* expire.                                                                 *)
LEMMA FairIsLive ==
    ASSUME RoomForChanges, TokensExpire
    PROVE  FairSpec /\ []WaitsAreMet => Live
BY LiveInvariant, PTL DEF FairSpec, Spec, Live

(* onConfigChange always gets to its end, or the process does: no stop     *)
(* value stays on its channel, whichever loop takes it, and no new login   *)
(* waits for a refresher.                                                  *)
THEOREM ChangesComplete ==
    ASSUME RoomForChanges, TokensExpire
    PROVE  FairSpec /\ []WaitsAreMet => ChangeCompletes
<1> DEFINE Claim(h) == handler[h] = "stopPoll" ~> handler[h] = "done" \/ ~Running
<1>1. ASSUME NEW h \in Changes PROVE FairSpec /\ []WaitsAreMet => Claim(h)
  <2>1. handler[h] = "stopPoll" => Working(h) \/ Finished(h)
    BY DEF Working, AtWork, Finished
  <2>2. Finished(h) => handler[h] = "done" \/ ~Running
    BY DEF Finished
  <2>3. FairSpec /\ []WaitsAreMet => (Working(h) ~> Finished(h))
    BY FairIsLive, HandlerFinishes DEF Finishes
  <2> QED BY <2>1, <2>2, <2>3, PTL
<1> HIDE DEF Claim
<1>2. FairSpec /\ []WaitsAreMet => \A h \in Changes : Claim(h)
  BY <1>1
<1> QED BY <1>2 DEF ChangeCompletes, Claim

(* client.OnConfigChange gets past auth.Stop and to the end of its login.  *)
THEOREM ChangesOfClientEnd ==
    ASSUME RoomForChanges, TokensExpire
    PROVE  FairSpec /\ []WaitsAreMet => ChangeEnds
<1>1. ASSUME LiveInv, change = "stop" PROVE Connecting("stop") \/ change = "fatal"
  BY <1>1 DEF LiveInv, ClientBusy, Connecting, Stage, Running, Alive
<1>2. Connecting("idle") \/ change = "fatal" => change \in {"idle", "fatal"}
  BY DEF Connecting
<1>3. ASSUME LiveInv, Ended PROVE change \in {"idle", "fatal"}
  BY <1>3 DEF LiveInv, TokenTypeOK, ClientBusy, Ended, Running, Alive
<1> QED BY <1>1, <1>2, <1>3, FairIsLive, RefresherIsMet, LoginIsAnswered, PTL
        DEF Live, ChangeEnds

(* A signal ends the process, whatever a change is doing at that time.     *)
THEOREM ShutdownsComplete ==
    ASSUME RoomForChanges, TokensExpire
    PROVE  FairSpec /\ []WaitsAreMet => ShutdownCompletes
<1>1. stopper = "stopPoll" => Stopping("stopPoll") \/ Ended
  BY DEF Stopping, Ended
<1>2. Ended <=> ~Running
  BY DEF Ended
<1> QED BY <1>1, <1>2, FairIsLive, StopperEnds, PTL DEF ShutdownCompletes

(* Polling goes on until the process ends: every change that stops the     *)
(* loops starts one again.                                                 *)
THEOREM PollingGoesOn ==
    ASSUME RoomForChanges, TokensExpire
    PROVE  FairSpec /\ []WaitsAreMet => PollingContinues
<1> DEFINE Pass == \E l \in Loops : poller[l] = "pass"
<1>1. LiveInv => (Passing => Pass)
  BY DEF LiveInv, TypeOK, Passing, Anyone
<1>2. Ended <=> ~Running
  BY DEF Ended
<1> HIDE DEF Pass
<1>3. FairSpec /\ []WaitsAreMet => <>[]~Running \/ []<>Pass
  BY <1>1, <1>2, FairIsLive, PassComes, EndIsFinal, PTL DEF Live
<1> QED BY <1>3 DEF PollingContinues, Pass
=============================================================================
