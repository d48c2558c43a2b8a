-------------------------- MODULE ExtensionProofs --------------------------
(***************************************************************************)
(* What holds of the whole extension for any processors, payloads, queue   *)
(* sizes, requests and faults: the manager and the collector call the      *)
(* decouple processors as DecoupleLifecycle assumes, so that its theorems  *)
(* carry over and nothing is exported while the environment is frozen.     *)
(***************************************************************************)
EXTENDS ExtensionSystem, FiniteSetTheorems, TLAPS

Early == Faults \cap {"signal", "collector", "start"} # {}

(* The types of all that the manager, the listener, the collector and the    *)
(* platform keep; of the processors only what the manager looks at.          *)
Types ==
  /\ stop \in [Processors -> [Stoppers -> StopStates]]
  /\ TTypeOK /\ WTypeOK
  /\ pc \in PCs /\ todo \subseteq Processors
  /\ result \in {"none", "fatal", "initfailed", "cancelled", "failed", "shutdown", "panicked"}
  /\ cancelled \in BOOLEAN /\ subscribed \in BOOLEAN /\ notifier \in BOOLEAN
  /\ listeners \subseteq Processors
  /\ colTodo \subseteq Processors
  /\ event \in {"none", "INVOKE", "SHUTDOWN"}
  /\ cur \in 0..Cardinality(Requests)
  /\ lam \in {"idle", "running", "ending"} /\ frozen \in BOOLEAN
  /\ outbox \in Seq(Events)
  /\ redelivered \in 0..MaxRedeliveries

(* Where the manager can be, and what has happened to the others by then.    *)
InLoop == {"select", "next", "invoked", "wait", "finished", "envshutdown",
           "lshutdown", "stop", "stopping", "exiterror"}

(* The manager is inside FunctionFinished of a processor only in its loop.   *)
InsideNone == pc # "finished" => \A p \in Processors : stop[p]["manager"] = "out"

(* When the service has run all processors had registered.                   *)
AllRegistered ==
  pc \in InLoop \/ col \in {"running", "closing"} \/ polled = "running" =>
    listeners = Processors

(* Without an early fault the collector shuts down only when it is stopped.  *)
ClosesLast ==
  /\ cancelled => "signal" \in Faults
  /\ col = "closing" => Early \/ pc \in {"stopping", "exited"}

(* The server is forgotten under the goroutine that shuts it down only by    *)
(* the manager, and only if both shut it down at once.                       *)
Forgotten ==
  /\ closer["server"] = "checked" /\ ~httpServer => pc \in {"stop", "stopping", "exited"}
  /\ closer["manager"] # "out" /\ closer["server"] # "out" => together
  /\ \A c \in Closers : closer[c] = "checked" /\ ~httpServer => together
  /\ result = "panicked" => together

(* What Start has read so far.                                               *)
HasStarted == col \in {"running", "closing", "closed"}
IsOver == col \in {"closing", "closed"}
PollAgrees ==
  /\ pc \in {"register", "listen", "subscribe", "setnotifier", "start"} =>
       col = "none" /\ ~failed /\ ~done /\ polled = "none"
  /\ pc = "starting" => col # "none"
  /\ done => col = "closed"
  /\ failed => IsOver
  /\ polled = "running" => HasStarted
  /\ polled \in {"closing", "closed"} => IsOver
  /\ pc = "initerror" => col = "none" \/ IsOver
  /\ pc \in InLoop => HasStarted

XInv ==
  /\ Types
  /\ pc # "exited" => result = "none"
  /\ frozen => pc = "next" /\ event = "none"
  /\ event = "INVOKE" \/ pc \in {"invoked", "wait"} \/ lam = "running" => cur \in Requests
  /\ InsideNone /\ AllRegistered /\ ClosesLast /\ Forgotten /\ PollAgrees

-----------------------------------------------------------------------------
LEMMA RequestCount == Cardinality(Requests) \in Nat
  BY RequestsAssumption, FS_CardinalityType

(* Taking from a sequence and adding to it keep its type.                    *)
LEMMA SeqFacts ==
  ASSUME NEW S, NEW q \in Seq(S)
  PROVE  /\ \A e \in S : Append(q, e) \in Seq(S)
         /\ q # <<>> => Head(q) \in S /\ Tail(q) \in Seq(S)
         /\ \A m \in 1..(Len(q) + 1), n \in 0..Len(q) : SubSeq(q, m, n) \in Seq(S)
  OBVIOUS

(* How many events queue.Get returns.                                        *)
LEMMA GetSome ==
  ASSUME tqueue \in Seq(Events), tqueue # <<>>
  PROVE  Min({MaxGet, Len(tqueue)}) \in 1..Len(tqueue)
<1> DEFINE m == IF MaxGet <= Len(tqueue) THEN MaxGet ELSE Len(tqueue)
<1>1. MaxGet \in Nat \ {0} /\ Len(tqueue) \in Nat \ {0}
  BY MaxGetAssumption
<1>2. m \in {MaxGet, Len(tqueue)} /\ \A y \in {MaxGet, Len(tqueue)} : m <= y
  BY <1>1
<1>3. \A x, y \in {MaxGet, Len(tqueue)} : x <= y /\ y <= x => x = y
  BY <1>1
<1>4. Min({MaxGet, Len(tqueue)}) = m
  BY <1>2, <1>3 DEF Min
<1> QED
  BY <1>1, <1>4

LEMMA StopperMoves ==
  ASSUME NEW p \in Processors, NEW s \in Stoppers, StopperStep(p, s)
  PROVE  \E v \in StopStates : stop' = [stop EXCEPT ![p][s] = v] /\ stop[p][s] # "out"
<1>1. CASE StopWaits(p, s)
  <2> DEFINE v == IF wg[p] = 0 THEN "out" ELSE "waiting"
  <2>1. v \in StopStates /\ stop' = [stop EXCEPT ![p][s] = v] /\ stop[p][s] # "out"
    BY <1>1 DEF StopWaits, StopStates
  <2> QED
    BY <2>1
<1>2. CASE WaitReturns(p, s)
  <2> DEFINE v == IF wg[p] = 0 THEN "out" ELSE "panicked"
  <2>1. v \in StopStates /\ stop' = [stop EXCEPT ![p][s] = v] /\ stop[p][s] # "out"
    BY <1>2 DEF WaitReturns, StopStates
  <2> QED
    BY <2>1
<1> QED
  BY <1>1, <1>2 DEF StopperStep

LEMMA InitX == Init => XInv
<1> SUFFICES ASSUME Init PROVE XInv
  OBVIOUS
<1>1. stop \in [Processors -> [Stoppers -> StopStates]]
  BY DEF Init, DInit, StopStates
<1>2. TTypeOK
  <2>1. <<>> \in Seq(Events)
    OBVIOUS
  <2> QED
    BY <2>1 DEF Init, TInit, TTypeOK, Events
<1>3. WTypeOK
  BY DEF Init, WInit, WTypeOK
<1>4. cur \in 0..Cardinality(Requests) /\ redelivered \in 0..MaxRedeliveries
  BY RequestCount, BoundAssumption DEF Init
<1>5. Types
  <2>1. outbox \in Seq(Events)
    BY DEF Init
  <2> QED
    BY <1>1, <1>2, <1>3, <1>4, <2>1 DEF Init, Types, PCs
<1>6. InsideNone /\ AllRegistered /\ ClosesLast
  BY DEF Init, DInit, WInit, InsideNone, AllRegistered, ClosesLast, InLoop, Stoppers
<1>7. Forgotten /\ PollAgrees
  BY DEF Init, TInit, WInit, Forgotten, PollAgrees, InLoop, Closers
<1> QED
  BY <1>5, <1>6, <1>7 DEF Init, XInv
LEMMA ManagerX == XInv /\ Manager => XInv'
<1> SUFFICES ASSUME XInv, Manager PROVE XInv'
  OBVIOUS
<1> USE DEF XInv, Types, TTypeOK, WTypeOK, PCs, InLoop, InsideNone, AllRegistered, ClosesLast,
            Forgotten, PollAgrees, HasStarted, IsOver, Goto, Exit, Notify,
            dvars, tvars, svars, mvars, cvars, wvars, pvars
<1>1. CASE Register
  BY <1>1 DEF Register
<1>2. CASE StartListener
  BY <1>2 DEF StartListener, ListenerStart
<1>3. CASE Subscribe
  <2>1. UNCHANGED subscribed \/ subscribed' \in BOOLEAN
    BY <1>3, Zenon DEF Subscribe, Exit
  <2>2. CASE pc' = "setnotifier"
    BY <1>3, <2>1, <2>2 DEF Subscribe
  <2>3. CASE Exit("fatal")
    BY <1>3, <2>3 DEF Subscribe
  <2> QED
    BY <1>3, <2>2, <2>3 DEF Subscribe
<1>4. CASE SetNotifier
  BY <1>4 DEF SetNotifier
<1>5. CASE StartCollector
  BY <1>5 DEF StartCollector, ServiceBecomes, States
<1>6. CASE StartReturns
  <2> USE DEF States
  <2>1. CASE PollState /\ UNCHANGED mvars
    BY <1>6, <2>1 DEF StartReturns, PollState
  <2>2. CASE PollAgain /\ UNCHANGED mvars
    BY <1>6, <2>2 DEF StartReturns, PollAgain
  <2>3. CASE StartSucceeds /\ Goto("select")
    BY <1>6, <2>3 DEF StartReturns, StartSucceeds
  <2>4. CASE StartFails /\ Goto("initerror")
    BY <1>6, <2>4 DEF StartReturns, StartFails
  <2> QED
    BY <1>6, <2>1, <2>2, <2>3, <2>4 DEF StartReturns
<1>7. CASE InitError
  BY <1>7 DEF InitError
<1>8. CASE CheckContext
  BY <1>8 DEF CheckContext
<1>9. CASE NextEvent
  BY <1>9 DEF NextEvent
<1>10. CASE NextEventFails
  BY <1>10 DEF NextEventFails
<1>11. CASE ExitError
  BY <1>11 DEF ExitError
<1>12. CASE Wait
  BY <1>12 DEF Wait, WaitCall, Events
<1>13. CASE Waiting
  <2>1. CASE WaitPoll(cancelled)
    BY <1>13, <2>1 DEF Waiting, WaitPoll
  <2>2. CASE WaitGet
    <3>1. /\ tqueue' \in Seq(Events) /\ wait' \in {"out", "poll"}
          /\ UNCHANGED <<serving, post, waitFor, svars>>
      <4> DEFINE n == Min({MaxGet, Len(tqueue)})
      <4>1. n \in 1..Len(tqueue)
        BY <2>2, GetSome DEF WaitGet, WaitGetWith
      <4>2. SubSeq(tqueue, n + 1, Len(tqueue)) \in Seq(Events)
        <5>1. n + 1 \in 1..(Len(tqueue) + 1) /\ Len(tqueue) \in 0..Len(tqueue)
          BY <4>1
        <5> QED
          BY <5>1, SeqFacts
      <4> QED
        BY <2>2, <4>2 DEF WaitGet, WaitGetWith
    <3>2. TTypeOK'
      BY <3>1
    <3> QED
      BY <1>13, <3>1, <3>2 DEF Waiting
  <2> QED
    BY <1>13, <2>1, <2>2 DEF Waiting, WaitStep
<1>14. CASE FunctionFinishedReturned
  BY <1>14 DEF FunctionFinishedReturned, ListenersReturned
<1>15. CASE ShutdownListener
  BY <1>15 DEF ShutdownListener, ListenersReturned, ListenerShutdown, ShutdownCall, Closers
<1>16. CASE ShuttingListener
  <2> USE DEF Closers
  <2>1. CASE Closes("manager")
    <3>1. closer' = [closer EXCEPT !["manager"] = "closing"] /\ closer'["manager"] # "out"
      BY <2>1 DEF Closes
    <3>2. /\ UNCHANGED <<dvars, mvars, cvars, pvars>>
          /\ UNCHANGED <<tqueue, post, wait, waitFor, httpServer, together>>
          /\ serving' = FALSE /\ pc = "lshutdown"
          /\ closer["manager"] = "checked" /\ httpServer
      BY <1>16, <2>1, <3>1 DEF ShuttingListener, Closes, ClosesNil
    <3>3. TTypeOK'
      BY <3>1, <3>2
    <3>4. Forgotten'
      BY <3>1, <3>2
    <3> QED
      BY <3>1, <3>2, <3>3, <3>4
  <2>2. CASE Closed("manager")
    <3>1. closer' = [closer EXCEPT !["manager"] = "out"] /\ closer'["manager"] = "out"
      BY <2>2 DEF Closed
    <3>2. httpServer' = FALSE \/ httpServer' = httpServer
      BY <2>2 DEF Closed
    <3>3. /\ UNCHANGED <<dvars, cvars, pvars>> /\ Goto("stop")
          /\ UNCHANGED <<serving, tqueue, post, wait, waitFor, together>>
          /\ pc = "lshutdown" /\ closer["manager"] = "closing"
      BY <1>16, <2>2, <3>1 DEF ShuttingListener, Closed, ClosesNil
    <3>4. TTypeOK'
      BY <3>1, <3>2, <3>3
    <3>5. Forgotten'
      BY <3>1, <3>2, <3>3
    <3> QED
      BY <3>1, <3>2, <3>3, <3>4, <3>5
  <2>3. CASE ClosesNil("manager") /\ Exit("panicked")
    BY <1>16, <2>3 DEF ShuttingListener, ClosesNil
  <2> QED
    BY <1>16, <2>1, <2>2, <2>3 DEF ShuttingListener, ShutdownStep
<1>17. CASE Stop
  BY <1>17 DEF Stop, StopCall, ServiceBecomes, States
<1>18. CASE StopReturns
  BY <1>18 DEF StopReturns, StopReturned
<1>19. ASSUME NEW p \in Processors,
              NotifyFunctionInvoked(p) \/ NotifyEnvironmentShutdown(p)
       PROVE  XInv'
  BY <1>19 DEF NotifyFunctionInvoked, NotifyEnvironmentShutdown, Called, StartForwardingData
<1>20. ASSUME NEW p \in Processors, NotifyFunctionFinished(p) PROVE XInv'
  BY <1>20 DEF NotifyFunctionFinished, Called, StopForwardingData, Stoppers, StopStates
<1> QED
  BY <1>1, <1>2, <1>3, <1>4, <1>5, <1>6, <1>7, <1>8, <1>9, <1>10, <1>11, <1>12, <1>13, <1>14,
     <1>15, <1>16, <1>17, <1>18, <1>19, <1>20 DEF Manager

LEMMA OthersX == XInv /\ Next => XInv' \/ Manager
<1> SUFFICES ASSUME XInv, Next PROVE XInv' \/ Manager
  OBVIOUS
<1> USE DEF XInv, Types, TTypeOK, WTypeOK, PCs, InLoop, InsideNone, AllRegistered, ClosesLast,
            Forgotten, PollAgrees, HasStarted, IsOver, Up, Ended,
            dvars, tvars, svars, mvars, cvars, wvars, pvars
<1>1. CASE CollectorUp
  BY <1>1 DEF CollectorUp, ServiceBecomes, States, Built
<1>2. CASE CollectorStartFails
  BY <1>2 DEF CollectorStartFails, ServiceBecomes, States
<1>3. CASE CollectorGivesUp
  BY <1>3 DEF CollectorGivesUp, ServiceBecomes, States, Early
<1>4. CASE CollectorClosed
  BY <1>4 DEF CollectorClosed, ServiceBecomes, States, CollectorQuiet
<1>5. CASE CollectorReturns
  BY <1>5 DEF CollectorReturns, ServiceReturns
<1>6. CASE Signal
  BY <1>6 DEF Signal
<1>7. CASE Invoke
  <2>1. outbox' \in Seq(Events)
    BY <1>7, SeqFacts DEF Invoke, Events
  <2>2. cur' \in 0..Cardinality(Requests) /\ cur' \in Requests
    BY <1>7, RequestCount, RequestsAssumption DEF Invoke
  <2> QED
    BY <1>7, <2>1, <2>2 DEF Invoke
<1>8. CASE FunctionDone
  <2>1. outbox' \in Seq(Events)
    BY <1>8, SeqFacts DEF FunctionDone, Events
  <2> QED
    BY <1>8, <2>1 DEF FunctionDone
<1>9. CASE LoseEvents
  BY <1>9 DEF LoseEvents
<1>10. CASE Freeze
  BY <1>10 DEF Freeze
<1>11. CASE ShutdownEnvironment
  BY <1>11 DEF ShutdownEnvironment
<1>12. ASSUME NEW p \in Processors, BuildProcessor(p) PROVE XInv'
  <2>1. CASE notifier
    BY <1>12, <2>1 DEF BuildProcessor
  <2>2. CASE ~notifier
    BY <1>12, <2>2 DEF BuildProcessor, ServiceBecomes, States
  <2> QED
    BY <2>1, <2>2
<1>13. ASSUME NEW p \in Processors, ShutdownProcessor(p) PROVE XInv'
  BY <1>13 DEF ShutdownProcessor, StopForwardingData, Stoppers, StopStates
<1>14. ASSUME NEW p \in Processors, Pipeline(p) PROVE XInv'
  BY <1>14 DEF Pipeline, QueueData
<1>15. ASSUME NEW p \in Processors, Decouple(p) PROVE XInv'
  <2>1. /\ stop' \in [Processors -> [Stoppers -> StopStates]]
        /\ \A q \in Processors : stop[q]["manager"] = "out" => stop'[q]["manager"] = "out"
    <3>1. CASE ForwardData(p) \/ \E d \in Data : ConsumeReturns(p, d)
      BY <3>1 DEF ForwardData, ConsumeReturns
    <3>2. CASE ForwarderExits(p)
      BY <3>2 DEF ForwarderExits, Released, Stoppers, StopStates
    <3>3. ASSUME NEW s \in Stoppers, StopperStep(p, s)
          PROVE  /\ stop' \in [Processors -> [Stoppers -> StopStates]]
                 /\ \A q \in Processors : stop[q]["manager"] = "out" => stop'[q]["manager"] = "out"
      <4>1. PICK v \in StopStates : stop' = [stop EXCEPT ![p][s] = v] /\ stop[p][s] # "out"
        BY <3>3, StopperMoves
      <4> QED
        BY <4>1 DEF Stoppers
    <3> QED
      BY <1>15, <3>1, <3>2, <3>3 DEF Decouple, ForwarderStep
  <2>2. UNCHANGED <<tvars, mvars, cvars, pvars>>
    BY <1>15 DEF Decouple
  <2> QED
    BY <2>1, <2>2
<1>16. ASSUME NEW h \in Handlers, Put(h) PROVE XInv'
  <2>1. tqueue' \in Seq(Events) /\ post' \in [Handlers -> Seq(Events)]
    <3>1. post[h] \in Seq(Events) /\ post[h] # <<>>
      BY <1>16 DEF Put, HandlerPut
    <3>2. Head(post[h]) \in Events /\ Tail(post[h]) \in Seq(Events)
      BY <3>1, SeqFacts
    <3> QED
      BY <1>16, <3>2, SeqFacts DEF Put, HandlerPut
  <2>2. UNCHANGED <<serving, wait, waitFor, svars>> /\ UNCHANGED <<dvars, mvars, cvars, pvars>>
    BY <1>16 DEF Put, HandlerPut
  <2> QED
    BY <2>1, <2>2
<1>17. ASSUME NEW h \in Handlers, Deliver(h) PROVE XInv'
  <2> PICK n \in 1..Len(outbox) : /\ HandlePost(h, SubSeq(outbox, 1, n))
                                  /\ outbox' = SubSeq(outbox, n + 1, Len(outbox))
    BY <1>17 DEF Deliver
  <2>1. SubSeq(outbox, 1, n) \in Seq(Events) /\ outbox' \in Seq(Events)
    <3>1. /\ 1 \in 1..(Len(outbox) + 1) /\ n \in 0..Len(outbox)
          /\ n + 1 \in 1..(Len(outbox) + 1) /\ Len(outbox) \in 0..Len(outbox)
      OBVIOUS
    <3> QED
      BY <3>1, SeqFacts
  <2>2. post' \in [Handlers -> Seq(Events)] /\ UNCHANGED <<serving, tqueue, wait, waitFor, svars>>
    BY <2>1 DEF HandlePost
  <2>3. UNCHANGED <<dvars, mvars, cvars, event, cur, lam, frozen, redelivered>>
    BY <1>17 DEF Deliver
  <2> QED
    BY <2>1, <2>2, <2>3
<1>18. ASSUME NEW h \in Handlers, Redeliver(h) PROVE XInv'
  <2> PICK r \in 1..cur : HandlePost(h, <<r>>)
    BY <1>18 DEF Redeliver
  <2>1. <<r>> \in Seq(Events)
    BY RequestCount, RequestsAssumption DEF Events
  <2>2. post' \in [Handlers -> Seq(Events)] /\ UNCHANGED <<serving, tqueue, wait, waitFor, svars>>
    BY <2>1 DEF HandlePost
  <2>3. /\ UNCHANGED <<dvars, mvars, cvars, event, cur, lam, frozen, outbox>>
        /\ redelivered' \in 0..MaxRedeliveries
    BY <1>18, BoundAssumption DEF Redeliver
  <2> QED
    BY <2>2, <2>3
<1>19. CASE ListenerFails
  <2> USE DEF Closers
  <2>1. CASE ServerFails /\ UNCHANGED mvars
    BY <1>19, <2>1 DEF ListenerFails, ServerFails, ShutdownCall
  <2>2. CASE Closes("server") /\ UNCHANGED mvars
    BY <1>19, <2>2 DEF ListenerFails, Closes
  <2>3. CASE Closed("server") /\ UNCHANGED mvars
    BY <1>19, <2>3 DEF ListenerFails, Closed
  <2>4. CASE ClosesNil("server") /\ Exit("panicked")
    BY <1>19, <2>4 DEF ListenerFails, ClosesNil, Exit
  <2> QED
    BY <1>19, <2>1, <2>2, <2>3, <2>4 DEF ListenerFails, ShutdownStep
<1> QED
  BY <1>1, <1>2, <1>3, <1>4, <1>5, <1>6, <1>7, <1>8, <1>9, <1>10, <1>11, <1>12, <1>13, <1>14,
     <1>15, <1>16, <1>17, <1>18, <1>19 DEF Next, Collector, Platform

LEMMA XInvariant == Safety => []XInv
<1>1. XInv /\ [Next]_vars => XInv'
  <2>1. XInv /\ UNCHANGED vars => XInv'
    BY DEF XInv, Types, TTypeOK, WTypeOK, InsideNone, AllRegistered, ClosesLast,
           Forgotten, PollAgrees, HasStarted, IsOver,
           vars, dvars, tvars, svars, mvars, cvars, wvars, pvars
  <2> QED
    BY <2>1, ManagerX, OthersX
<1> QED
  BY <1>1, InitX, PTL DEF Safety

-----------------------------------------------------------------------------
(* The steps of the system as steps of DecoupleLifecycle.                    *)

LEMMA Stutter ==
  ASSUME UNCHANGED dvars, UNCHANGED colTodo, \A q \in Processors : Phase(q)' = Phase(q)
  PROVE  UNCHANGED Lifecycle!lvars
  BY DEF Lifecycle!lvars, Lifecycle!dvars, dvars

(* All that the manager does beside its calls of the processors.             *)
ManagerAlone ==
  \/ Register \/ StartListener \/ Subscribe \/ SetNotifier \/ StartCollector \/ StartReturns
  \/ InitError \/ CheckContext \/ NextEvent \/ NextEventFails \/ ExitError
  \/ Wait \/ Waiting \/ FunctionFinishedReturned
  \/ ShutdownListener \/ ShuttingListener \/ Stop \/ StopReturns

LEMMA ManagerAloneKeeps ==
  XInv /\ ManagerAlone =>
    UNCHANGED dvars /\ UNCHANGED colTodo /\ \A q \in Processors : Phase(q)' = Phase(q)
<1> DEFINE Same == UNCHANGED dvars /\ UNCHANGED colTodo /\ \A q \in Processors : Phase(q)' = Phase(q)
<1> SUFFICES ASSUME XInv, ManagerAlone PROVE Same
  OBVIOUS
<1> USE DEF Phase, Goto, Exit, Notify, mvars, cvars
<1>0. /\ pc # "exited" => result = "none"
      /\ pc \in InLoop => listeners = Processors
  BY DEF XInv, AllRegistered
<1>1. CASE Register
  BY <1>0, <1>1 DEF Register, InLoop
<1>2. CASE StartListener
  BY <1>0, <1>2 DEF StartListener, InLoop
<1>3. CASE Subscribe
  BY <1>0, <1>3 DEF Subscribe, InLoop
<1>4. CASE SetNotifier
  BY <1>0, <1>4 DEF SetNotifier, InLoop
<1>5. CASE StartCollector
  BY <1>0, <1>5 DEF StartCollector, InLoop
<1>6. CASE StartReturns
  BY <1>0, <1>6 DEF StartReturns, InLoop
<1>7. CASE InitError
  BY <1>0, <1>7 DEF InitError, InLoop
<1>8. CASE CheckContext
  BY <1>0, <1>8 DEF CheckContext, InLoop
<1>9. CASE NextEvent
  BY <1>0, <1>9 DEF NextEvent, InLoop
<1>10. CASE NextEventFails
  BY <1>0, <1>10 DEF NextEventFails, InLoop
<1>11. CASE ExitError
  BY <1>0, <1>11 DEF ExitError, InLoop
<1>12. CASE Wait
  BY <1>0, <1>12 DEF Wait, ListenersReturned, InLoop
<1>13. CASE Waiting
  BY <1>0, <1>13 DEF Waiting, InLoop
<1>14. CASE FunctionFinishedReturned
  BY <1>0, <1>14 DEF FunctionFinishedReturned, ListenersReturned, InLoop
<1>15. CASE ShutdownListener
  BY <1>0, <1>15 DEF ShutdownListener, ListenersReturned, InLoop
<1>16. CASE ShuttingListener
  BY <1>0, <1>16 DEF ShuttingListener, InLoop
<1>17. CASE Stop
  BY <1>0, <1>17 DEF Stop, InLoop
<1>18. CASE StopReturns
  BY <1>0, <1>18 DEF StopReturns, InLoop
<1> QED
  BY <1>1, <1>2, <1>3, <1>4, <1>5, <1>6, <1>7, <1>8, <1>9, <1>10, <1>11, <1>12, <1>13, <1>14,
     <1>15, <1>16, <1>17, <1>18 DEF ManagerAlone

LEMMA ManagerAloneStutters == XInv /\ ManagerAlone => UNCHANGED Lifecycle!lvars
  BY ManagerAloneKeeps, Stutter

(* The manager's calls.                                                      *)
LEMMA PhaseSet ==
  ASSUME NEW p \in Processors, NEW v, Phase(p)' = v,
         \A q \in Processors \ {p} : Phase(q)' = Phase(q)
  PROVE  [q \in Processors |-> Phase(q)]' = [[q \in Processors |-> Phase(q)] EXCEPT ![p] = v]
  OBVIOUS

LEMMA NotifyMaps ==
  ASSUME XInv, NEW p \in Processors
  PROVE  /\ NotifyFunctionInvoked(p) => Lifecycle!FunctionInvoked(p)
         /\ NotifyFunctionFinished(p) => Lifecycle!FunctionFinished(p)
         /\ NotifyEnvironmentShutdown(p) => Lifecycle!EnvironmentShutdown(p)
<1>1. ASSUME NotifyFunctionInvoked(p) PROVE Lifecycle!FunctionInvoked(p)
  <2>1. Phase(p) = "idle" /\ Phase(p)' = "invoked"
    <3>1. /\ pc = "invoked" /\ pc' = "invoked" /\ p \in todo /\ p \notin todo'
          /\ result = "none" /\ result' = "none"
      BY <1>1 DEF NotifyFunctionInvoked, Called, XInv
    <3>2. Phase(p) = "idle"
      BY <3>1 DEF Phase
    <3>3. Phase(p)' = "invoked"
      BY <3>1 DEF Phase
    <3> QED
      BY <3>2, <3>3
  <2>2. \A q \in Processors \ {p} : Phase(q)' = Phase(q)
    BY <1>1 DEF NotifyFunctionInvoked, Called, Phase
  <2>3. [q \in Processors |-> Phase(q)]' = [[q \in Processors |-> Phase(q)] EXCEPT ![p] = "invoked"]
    BY <2>1, <2>2, PhaseSet
  <2>4. stop[p]["manager"] = "out"
    BY <1>1 DEF XInv, InsideNone, NotifyFunctionInvoked
  <2>5. Lifecycle!StartForwardingData(p)
    BY <1>1 DEF NotifyFunctionInvoked, StartForwardingData, Lifecycle!StartForwardingData
  <2>6. UNCHANGED [q \in Processors |-> q \notin colTodo]
    BY <1>1 DEF NotifyFunctionInvoked, cvars
  <2> QED
    BY <2>1, <2>3, <2>4, <2>5, <2>6 DEF Lifecycle!FunctionInvoked, Lifecycle!AtRest
<1>2. ASSUME NotifyFunctionFinished(p) PROVE Lifecycle!FunctionFinished(p)
  <2>1. Phase(p) = "invoked" /\ Phase(p)' = "idle"
    <3>1. /\ pc = "finished" /\ pc' = "finished" /\ p \in todo /\ p \notin todo'
          /\ result = "none" /\ result' = "none"
      BY <1>2 DEF NotifyFunctionFinished, Called, XInv
    <3>2. Phase(p) = "invoked"
      BY <3>1 DEF Phase
    <3>3. Phase(p)' = "idle"
      BY <3>1 DEF Phase
    <3> QED
      BY <3>2, <3>3
  <2>2. \A q \in Processors \ {p} : Phase(q)' = Phase(q)
    BY <1>2 DEF NotifyFunctionFinished, Called, Phase
  <2>3. [q \in Processors |-> Phase(q)]' = [[q \in Processors |-> Phase(q)] EXCEPT ![p] = "idle"]
    BY <2>1, <2>2, PhaseSet
  <2>5. Lifecycle!StopForwardingData(p, "manager")
    BY <1>2 DEF NotifyFunctionFinished, StopForwardingData, Lifecycle!StopForwardingData
  <2>6. UNCHANGED [q \in Processors |-> q \notin colTodo]
    BY <1>2 DEF NotifyFunctionFinished, cvars
  <2> QED
    BY <2>1, <2>3, <2>5, <2>6 DEF Lifecycle!FunctionFinished
<1>3. ASSUME NotifyEnvironmentShutdown(p) PROVE Lifecycle!EnvironmentShutdown(p)
  <2>1. Phase(p) = "idle" /\ Phase(p)' = "shutdown"
    <3>1. /\ pc = "envshutdown" /\ pc' = "envshutdown" /\ p \in todo /\ p \notin todo'
          /\ result = "none" /\ result' = "none"
      BY <1>3 DEF NotifyEnvironmentShutdown, Called, XInv
    <3>2. Phase(p) = "idle"
      BY <3>1 DEF Phase
    <3>3. Phase(p)' = "shutdown"
      BY <3>1 DEF Phase
    <3> QED
      BY <3>2, <3>3
  <2>2. \A q \in Processors \ {p} : Phase(q)' = Phase(q)
    BY <1>3 DEF NotifyEnvironmentShutdown, Called, Phase
  <2>3. [q \in Processors |-> Phase(q)]' = [[q \in Processors |-> Phase(q)] EXCEPT ![p] = "shutdown"]
    BY <2>1, <2>2, PhaseSet
  <2>4. stop[p]["manager"] = "out"
    BY <1>3 DEF XInv, InsideNone, NotifyEnvironmentShutdown
  <2>5. Lifecycle!StartForwardingData(p)
    BY <1>3 DEF NotifyEnvironmentShutdown, StartForwardingData, Lifecycle!StartForwardingData
  <2>6. UNCHANGED [q \in Processors |-> q \notin colTodo]
    BY <1>3 DEF NotifyEnvironmentShutdown, cvars
  <2> QED
    BY <2>1, <2>3, <2>4, <2>5, <2>6 DEF Lifecycle!EnvironmentShutdown, Lifecycle!AtRest
<1> QED
  BY <1>1, <1>2, <1>3

(* The collector's call, and the steps of the processors themselves.         *)
LEMMA ShutdownMaps ==
  ASSUME XInv, NEW p \in Processors, ShutdownProcessor(p)
  PROVE  Lifecycle!Shutdown(p)
<1>1. pc' = pc /\ todo' = todo /\ result' = result /\ p \in colTodo
  BY DEF ShutdownProcessor, mvars
<1>2. UNCHANGED [q \in Processors |-> Phase(q)]
  BY <1>1 DEF Phase
<1>3. Early \/ Phase(p) = "shutdown"
  <2>1. Early \/ pc = "stopping"
    BY DEF ShutdownProcessor, Up, Ended, XInv, ClosesLast
  <2> QED
    BY <2>1 DEF Phase
<1>4. [q \in Processors |-> q \notin colTodo]' =
        [[q \in Processors |-> q \notin colTodo] EXCEPT ![p] = TRUE]
  BY DEF ShutdownProcessor
<1> QED
  BY <1>1, <1>2, <1>3, <1>4
  DEF ShutdownProcessor, StopForwardingData, Early, Lifecycle!Shutdown, Lifecycle!StopForwardingData

LEMMA SamePanic == Lifecycle!Panicked <=> Panicked
  BY DEF Lifecycle!Panicked, Panicked, Lifecycle!Stoppers, Stoppers

LEMMA ProcessorMaps ==
  ASSUME NEW p \in Processors
  PROVE  /\ Pipeline(p) => Lifecycle!Queue(p)
         /\ Decouple(p) => Lifecycle!Internal(p)
<1>1. ASSUME UNCHANGED mvars, UNCHANGED cvars
      PROVE  /\ UNCHANGED [q \in Processors |-> Phase(q)]
             /\ UNCHANGED [q \in Processors |-> q \notin colTodo]
  BY <1>1 DEF mvars, cvars, Phase
<1>2. ASSUME Pipeline(p) PROVE Lifecycle!Queue(p)
  BY <1>1, <1>2 DEF Pipeline, QueueData, Lifecycle!Queue, Lifecycle!QueueData
<1>3. ASSUME Decouple(p) PROVE Lifecycle!Internal(p)
  BY <1>1, <1>3
  DEF Decouple, ForwarderStep, ForwardData, ConsumeReturns, ForwarderExits, Released,
      StopperStep, StopWaits, WaitReturns, SendDone, Stoppers, Lifecycle!Internal, Lifecycle!ForwarderStep, Lifecycle!ForwardData,
      Lifecycle!ConsumeReturns, Lifecycle!ForwarderExits, Lifecycle!Released,
      Lifecycle!StopperStep, Lifecycle!StopWaits, Lifecycle!WaitReturns,
      Lifecycle!SendDone, Lifecycle!Stoppers
<1> QED
  BY <1>2, <1>3

(* Everything else leaves the processors and the manager's place alone.      *)
LEMMA OthersKeep ==
  ASSUME XInv,
         \/ CollectorUp \/ CollectorStartFails \/ CollectorClosed \/ CollectorReturns
         \/ \E p \in Processors : BuildProcessor(p)
         \/ CollectorGivesUp \/ ListenerFails \/ Signal \/ Platform
         \/ \E h \in Handlers : Put(h)
         \/ UNCHANGED vars
  PROVE  UNCHANGED dvars /\ UNCHANGED colTodo /\ \A q \in Processors : Phase(q)' = Phase(q)
<1>1. UNCHANGED dvars /\ UNCHANGED colTodo
  BY DEF CollectorUp, CollectorStartFails, CollectorClosed, CollectorReturns, BuildProcessor,
         CollectorGivesUp, ListenerFails, Signal, Platform, Invoke, FunctionDone, LoseEvents,
         Freeze, ShutdownEnvironment, Deliver, Redeliver, Put, vars, cvars
<1>2. CASE ListenerFails
  <2>1. CASE UNCHANGED mvars
    BY <1>1, <2>1 DEF mvars, Phase
  <2>2. CASE ClosesNil("server") /\ Exit("panicked")
    <3>1. pc \in {"stop", "stopping"}
      BY <1>2, <2>2 DEF XInv, Forgotten, ClosesNil, ListenerFails, Up, Ended
    <3>2. \A q \in Processors : Phase(q) = "shutdown"
      BY <3>1 DEF Phase
    <3>3. \A q \in Processors : Phase(q)' = "shutdown"
      BY <2>2 DEF Phase, Exit
    <3> QED
      BY <1>1, <3>2, <3>3
  <2> QED
    BY <1>2, <2>1, <2>2 DEF ListenerFails
<1>3. CASE ~ListenerFails
  <2>1. UNCHANGED <<pc, todo, result>>
    BY <1>3 DEF CollectorUp, CollectorStartFails, CollectorClosed, CollectorReturns,
           BuildProcessor, CollectorGivesUp, Signal, Platform, Invoke, FunctionDone, LoseEvents,
           Freeze, ShutdownEnvironment, Deliver, Redeliver, Put, vars, mvars
  <2>2. \A q \in Processors : Phase(q)' = Phase(q)
    BY <2>1 DEF Phase
  <2> QED
    BY <1>1, <2>2
<1> QED
  BY <1>2, <1>3

(* Whatever fails, the manager and the collector make the calls that         *)
(* DecoupleLifecycle assumes of them.                                        *)
THEOREM SystemIsLifecycle == Safety => IsLifecycle
<1>1. Init => Lifecycle!Init
  <2> SUFFICES ASSUME Init PROVE Lifecycle!Init
    OBVIOUS
  <2>1. [p \in Processors |-> Phase(p)] = [p \in Processors |-> "idle"]
    BY DEF Init, Phase
  <2>2. [p \in Processors |-> p \notin colTodo] = [p \in Processors |-> FALSE]
    BY DEF Init
  <2>3. Lifecycle!DInit
    BY DEF Init, DInit, Stoppers, Lifecycle!DInit, Lifecycle!Stoppers
  <2> QED
    BY <2>1, <2>2, <2>3 DEF Lifecycle!Init
<1>2. XInv /\ [Next]_vars => [Lifecycle!Next]_(Lifecycle!lvars)
  <2> SUFFICES ASSUME XInv, [Next]_vars PROVE Lifecycle!Next \/ UNCHANGED Lifecycle!lvars
    OBVIOUS
  <2>1. CASE ManagerAlone
    BY <2>1, ManagerAloneStutters
  <2>2. ASSUME NEW p \in Processors,
               \/ ~Panicked /\ NotifyFunctionInvoked(p)
               \/ ~Panicked /\ NotifyFunctionFinished(p)
               \/ ~Panicked /\ NotifyEnvironmentShutdown(p)
               \/ ShutdownProcessor(p) \/ Pipeline(p) \/ Decouple(p)
        PROVE  Lifecycle!Next
    <3>1. ~Lifecycle!Panicked
      BY <2>2, SamePanic DEF ShutdownProcessor, Pipeline, Decouple, Up, Ended
    <3> QED
      BY <2>2, <3>1, NotifyMaps, ShutdownMaps, ProcessorMaps DEF Lifecycle!Next
  <2> QED
    BY <2>1, <2>2, OthersKeep, Stutter DEF Next, Manager, ManagerAlone, Collector
<1> QED
  BY <1>1, <1>2, XInvariant, PTL DEF Safety, IsLifecycle, Lifecycle!Safety

-----------------------------------------------------------------------------
(* What the theorems about the processors say of the system.                 *)

Calls == INSTANCE DecoupleProofs WITH
  EarlyStop <- Faults \cap {"signal", "collector", "start"} # {},
  phase <- [p \in Processors |-> Phase(p)],
  closed <- [p \in Processors |-> p \notin colTodo]

LEMMA CallsAssumptions ==
  Calls!EarlyStopAssumption /\ Calls!MaxQueueSizeAssumption /\ Calls!DataAssumption
  BY MaxQueueSizeAssumption, DataAssumption
  DEF Calls!EarlyStopAssumption, Calls!MaxQueueSizeAssumption, Calls!DataAssumption,
      Calls!Stoppers, Stoppers

LEMMA SameInit == Lifecycle!Init => Calls!Init
  BY DEF Calls!Init, Lifecycle!Init, Calls!DInit, Lifecycle!DInit, Calls!Stoppers,
         Lifecycle!Stoppers

LEMMA SameNext == [Lifecycle!Next]_(Lifecycle!lvars) => [Calls!Next]_(Calls!lvars)
  BY
  DEF Lifecycle!DInit, Calls!DInit, Lifecycle!Next, Calls!Next, Lifecycle!lvars,
      Calls!lvars, Lifecycle!dvars, Calls!dvars, Lifecycle!AtRest, Calls!AtRest,
      Lifecycle!Queue, Calls!Queue, Lifecycle!QueueData, Calls!QueueData,
      Lifecycle!FunctionInvoked, Calls!FunctionInvoked, Lifecycle!FunctionFinished,
      Calls!FunctionFinished, Lifecycle!EnvironmentShutdown, Calls!EnvironmentShutdown,
      Lifecycle!Shutdown, Calls!Shutdown, Lifecycle!Internal, Calls!Internal,
      Lifecycle!StartForwardingData, Calls!StartForwardingData,
      Lifecycle!StopForwardingData, Calls!StopForwardingData, Lifecycle!ForwarderStep,
      Calls!ForwarderStep, Lifecycle!ForwardData, Calls!ForwardData,
      Lifecycle!ConsumeReturns, Calls!ConsumeReturns, Lifecycle!ForwarderExits,
      Calls!ForwarderExits, Lifecycle!Released, Calls!Released, Lifecycle!StopperStep,
      Calls!StopperStep, Lifecycle!StopWaits, Calls!StopWaits, Lifecycle!WaitReturns,
      Calls!WaitReturns, Lifecycle!Panicked, Calls!Panicked, Lifecycle!SendDone, Calls!SendDone, Lifecycle!Stoppers,
      Calls!Stoppers

LEMMA SystemCalls == Safety => Calls!Safety
  BY SystemIsLifecycle, SameInit, SameNext, PTL DEF IsLifecycle, Lifecycle!Safety, Calls!Safety

(* Nothing is on its way through an exporter while the environment is        *)
(* frozen, whatever has failed before.                                       *)
THEOREM FrozenIsQuiet == Safety => []NoExportWhileFrozen
<1>1. XInv /\ Calls!NothingInFlightAtRest => NoExportWhileFrozen
  <2> SUFFICES ASSUME XInv, Calls!NothingInFlightAtRest, frozen, NEW p \in Processors
               PROVE  idle[p] = 0 /\ inflight[p] = {}
    BY DEF NoExportWhileFrozen
  <2>1. pc = "next" /\ result = "none" /\ stop[p]["manager"] = "out"
    BY DEF XInv, InsideNone
  <2>2. Phase(p) = "idle"
    BY <2>1 DEF Phase
  <2> QED
    BY <2>1, <2>2 DEF Calls!NothingInFlightAtRest, Calls!AtRest
<1>2. Safety => []Calls!NothingInFlightAtRest
  BY SystemCalls, Calls!QuietAtRest, CallsAssumptions, PTL
<1> QED
  BY <1>1, <1>2, XInvariant, PTL

LEMMA ProcessorTypes == Safety => []DTypeOK
<1>1. Calls!TypeOK => DTypeOK
  BY DEF Calls!TypeOK, Calls!DTypeOK, DTypeOK, Calls!Items, Calls!Stoppers, Items, Stoppers,
         Calls!StopStates, StopStates
<1>2. Safety => []Calls!TypeOK
  BY SystemCalls, Calls!TypeCorrect, CallsAssumptions, PTL
<1> QED
  BY <1>1, <1>2, PTL

(* The whole system keeps its types.                                         *)
THEOREM SystemTypes == Safety => []TypeOK
<1> DEFINE OwedType == owed \in [Processors -> Nat]
<1>1. Init => OwedType
  BY DEF Init
<1>2. DTypeOK /\ OwedType /\ [Next]_vars => OwedType'
  <2> SUFFICES ASSUME DTypeOK, OwedType, [Next]_vars PROVE OwedType'
    OBVIOUS
  <2>1. CASE FunctionDone
    <3>1. \A p \in Processors : Len(sent[p]) \in Nat
      BY DEF DTypeOK
    <3> QED
      BY <2>1, <3>1 DEF FunctionDone
  <2>2. CASE ~FunctionDone
    <3>1. UNCHANGED owed
      BY <2>2 DEF Next, Manager, Register, StartListener, Subscribe, SetNotifier,
           StartCollector, StartReturns, InitError, CheckContext, NextEvent, NextEventFails,
           ExitError, Wait, Waiting, FunctionFinishedReturned, ShutdownListener,
           ShuttingListener, Stop, StopReturns, NotifyFunctionInvoked, NotifyFunctionFinished,
           NotifyEnvironmentShutdown, Collector, CollectorUp, CollectorStartFails,
           CollectorClosed, CollectorReturns, BuildProcessor, ShutdownProcessor,
           CollectorGivesUp, ListenerFails, Signal, Platform, Invoke, LoseEvents, Freeze,
           ShutdownEnvironment, Deliver, Redeliver, Pipeline, Decouple, Put, vars, pvars
    <3> QED
      BY <3>1
  <2> QED
    BY <2>1, <2>2
<1>3. XInv /\ DTypeOK /\ OwedType => TypeOK
  BY DEF XInv, Types, TypeOK
<1> QED
  BY <1>1, <1>2, <1>3, XInvariant, ProcessorTypes, PTL DEF Safety

(* What Start reports is true of the service.                                *)
THEOREM StartIsTruthful == Safety => []StartReportsService
<1>1. XInv => StartReportsService
  BY DEF XInv, PollAgrees, StartReportsService, InLoop, HasStarted, IsOver
<1> QED
  BY <1>1, XInvariant, PTL

(* The listener's Shutdown panics only when two goroutines are in it.        *)
THEOREM PanicNeedsTwo == Safety => []PanicsOnlyTogether
<1>1. XInv => PanicsOnlyTogether
  BY DEF XInv, Forgotten, PanicsOnlyTogether
<1> QED
  BY <1>1, XInvariant, PTL

-----------------------------------------------------------------------------
(* FunctionFinished comes after the end of the function.                     *)

(* The events the platform can have sent so far: no runtimeDone of a request *)
(* that is not over.                                                         *)
Told == {NoRequest} \cup {r \in Requests : r <= cur /\ (r = cur => lam # "running")}

Heard ==
  /\ outbox \in Seq(Told) /\ tqueue \in Seq(Told) /\ post \in [Handlers -> Seq(Told)]
  /\ pc = "wait" => waitFor = cur
  /\ FinishedAfterDone

LEMMA SeqMonotone ==
  ASSUME NEW S, NEW T, S \subseteq T
  PROVE  Seq(S) \subseteq Seq(T)
  OBVIOUS

(* As time goes on more can have been told.                                  *)
LEMMA ToldGrows ==
  ASSUME XInv, [Next]_vars
  PROVE  /\ Told \subseteq Told'
         /\ FunctionDone => cur \in Told'
         /\ ~Invoke /\ ~FunctionDone /\ ~ShutdownEnvironment => UNCHANGED <<cur, lam>>
<1>1. \A r \in Requests : r \in Nat
  BY RequestCount, RequestsAssumption
<1>2. cur \in Nat
  BY RequestCount DEF XInv, Types
<1>3. CASE Invoke
  BY <1>1, <1>2, <1>3 DEF Invoke, Told, FunctionDone, ShutdownEnvironment
<1>4. CASE FunctionDone
  BY <1>1, <1>2, <1>4 DEF FunctionDone, Told, XInv, Invoke, ShutdownEnvironment
<1>5. CASE ShutdownEnvironment
  BY <1>1, <1>2, <1>5 DEF ShutdownEnvironment, Told, FunctionDone
<1>6. CASE ~Invoke /\ ~FunctionDone /\ ~ShutdownEnvironment
  <2>1. UNCHANGED <<cur, lam>>
    BY <1>6 DEF Next, Manager, Register, StartListener, Subscribe, SetNotifier,
         StartCollector, StartReturns, InitError, CheckContext, NextEvent, NextEventFails,
         ExitError, Wait, Waiting, FunctionFinishedReturned, ShutdownListener,
         ShuttingListener, Stop, StopReturns, NotifyFunctionInvoked, NotifyFunctionFinished,
         NotifyEnvironmentShutdown, Collector, CollectorUp, CollectorStartFails,
         CollectorClosed, CollectorReturns, BuildProcessor, ShutdownProcessor,
         CollectorGivesUp, ListenerFails, Signal, Platform, LoseEvents, Freeze,
         Deliver, Redeliver, Pipeline, Decouple, Put, vars, pvars
  <2> QED
    BY <1>6, <2>1 DEF Told
<1> QED
  BY <1>3, <1>4, <1>5, <1>6

(* Events move from the platform through the handlers into the queue.        *)
LEMMA EventsStep ==
  ASSUME XInv, Heard, [Next]_vars
  PROVE  outbox' \in Seq(Told') /\ tqueue' \in Seq(Told') /\ post' \in [Handlers -> Seq(Told')]
<1>1. /\ outbox \in Seq(Told') /\ tqueue \in Seq(Told') /\ post \in [Handlers -> Seq(Told')]
      /\ NoRequest \in Told'
  BY ToldGrows, SeqMonotone DEF Heard, Told
<1> HIDE DEF Told
<1>2. CASE Invoke
  BY <1>1, <1>2, SeqFacts DEF Invoke, tvars
<1>3. CASE FunctionDone
  BY <1>1, <1>3, SeqFacts, ToldGrows DEF FunctionDone, tvars
<1>4. CASE LoseEvents
  BY <1>1, <1>4 DEF LoseEvents, tvars
<1>5. ASSUME NEW h \in Handlers, Deliver(h)
      PROVE  outbox' \in Seq(Told') /\ tqueue' \in Seq(Told') /\ post' \in [Handlers -> Seq(Told')]
  <2> PICK n \in 1..Len(outbox) : /\ HandlePost(h, SubSeq(outbox, 1, n))
                                  /\ outbox' = SubSeq(outbox, n + 1, Len(outbox))
    BY <1>5 DEF Deliver
  <2>1. SubSeq(outbox, 1, n) \in Seq(Told') /\ outbox' \in Seq(Told')
    <3>1. /\ 1 \in 1..(Len(outbox) + 1) /\ n \in 0..Len(outbox)
          /\ n + 1 \in 1..(Len(outbox) + 1) /\ Len(outbox) \in 0..Len(outbox)
      BY <1>1
    <3> QED
      BY <1>1, <3>1, SeqFacts
  <2> QED
    BY <1>1, <2>1 DEF HandlePost
<1>6. ASSUME NEW h \in Handlers, Redeliver(h)
      PROVE  outbox' \in Seq(Told') /\ tqueue' \in Seq(Told') /\ post' \in [Handlers -> Seq(Told')]
  <2> PICK r \in 1..cur : ~(lam = "running" /\ r = cur) /\ HandlePost(h, <<r>>)
    BY <1>6 DEF Redeliver
  <2>1. r \in Told'
    BY <1>6, RequestCount, RequestsAssumption DEF Told, Redeliver, XInv, Types
  <2>2. <<r>> \in Seq(Told')
    BY <2>1
  <2> QED
    BY <1>1, <1>6, <2>2 DEF HandlePost, Redeliver
<1>7. ASSUME NEW h \in Handlers, Put(h)
      PROVE  outbox' \in Seq(Told') /\ tqueue' \in Seq(Told') /\ post' \in [Handlers -> Seq(Told')]
  <2>1. post[h] \in Seq(Told') /\ post[h] # <<>>
    BY <1>1, <1>7 DEF Put, HandlerPut
  <2>2. Head(post[h]) \in Told' /\ Tail(post[h]) \in Seq(Told')
    BY <2>1, SeqFacts
  <2> QED
    BY <1>1, <1>7, <2>2, SeqFacts DEF Put, HandlerPut, pvars
<1>8. CASE Waiting
  <2>1. CASE WaitPoll(cancelled)
    BY <1>1, <1>8, <2>1 DEF Waiting, WaitPoll, pvars
  <2>2. CASE WaitGet
    <3> DEFINE n == Min({MaxGet, Len(tqueue)})
    <3>1. n \in 1..Len(tqueue)
      BY <2>2, GetSome DEF WaitGet, WaitGetWith, XInv, Types, TTypeOK
    <3>2. n + 1 \in 1..(Len(tqueue) + 1) /\ Len(tqueue) \in 0..Len(tqueue)
      BY <1>1, <3>1
    <3>3. SubSeq(tqueue, n + 1, Len(tqueue)) \in Seq(Told')
      BY <1>1, <3>2, SeqFacts
    <3> QED
      BY <1>1, <1>8, <2>2, <3>3 DEF Waiting, WaitGet, WaitGetWith, pvars
  <2> QED
    BY <1>8, <2>1, <2>2 DEF Waiting, WaitStep
<1>9. CASE UNCHANGED <<outbox, tqueue, post>>
  BY <1>1, <1>9
<1> QED
  <2>1. \/ Invoke \/ FunctionDone \/ LoseEvents \/ Waiting
        \/ \E h \in Handlers : Deliver(h) \/ Redeliver(h) \/ Put(h)
        \/ UNCHANGED <<outbox, tqueue, post>>
    BY DEF Next, Manager, Register, StartListener, ListenerStart, Subscribe, SetNotifier,
         StartCollector, StartReturns, InitError, CheckContext, NextEvent, NextEventFails,
         ExitError, Wait, WaitCall, FunctionFinishedReturned, ShutdownListener,
         ListenerShutdown, ShuttingListener, ShutdownStep, Closes, Closed, ClosesNil,
         Stop, StopReturns, NotifyFunctionInvoked, NotifyFunctionFinished,
         NotifyEnvironmentShutdown, Collector, CollectorUp, CollectorStartFails,
         CollectorClosed, CollectorReturns, BuildProcessor, ShutdownProcessor,
         CollectorGivesUp, ListenerFails, ServerFails, Signal, Platform, Freeze,
         ShutdownEnvironment, Pipeline, Decouple, vars, pvars, tvars
  <2> QED
    BY <1>2, <1>3, <1>4, <1>5, <1>6, <1>7, <1>8, <1>9, <2>1

LEMMA WaitStepFacts ==
  ASSUME XInv, Heard, [Next]_vars
  PROVE  (pc = "wait" => waitFor = cur)' /\ FinishedAfterDone'
<1>1. CASE Wait
  BY <1>1 DEF Wait, WaitCall, Goto, pvars, FinishedAfterDone
<1>2. CASE Waiting
  <2>1. pc = "wait" /\ waitFor = cur /\ cur \in Requests /\ UNCHANGED pvars
    BY <1>2 DEF Waiting, Heard, XInv
  <2>2. CASE WaitPoll(cancelled)
    BY <1>2, <2>1, <2>2 DEF Waiting, WaitPoll, Notify, mvars, pvars, FinishedAfterDone
  <2>3. CASE WaitGet
    <3> DEFINE n == Min({MaxGet, Len(tqueue)})
               items == SubSeq(tqueue, 1, n)
    <3>1. n \in 1..Len(tqueue)
      BY <2>3, GetSome DEF WaitGet, WaitGetWith, XInv, Types, TTypeOK
    <3>2. items \in Seq(Told)
      <4>1. 1 \in 1..(Len(tqueue) + 1) /\ n \in 0..Len(tqueue) /\ tqueue \in Seq(Told)
        BY <3>1 DEF Heard
      <4> QED
        BY <4>1, SeqFacts
    <3>3. wait' = "out" => waitFor \in ToSet(items)
      BY <2>3 DEF WaitGet, WaitGetWith
    <3>4. waitFor \in ToSet(items) => waitFor \in Told
      <4> HIDE DEF items, Told
      <4> QED
        BY <3>2 DEF ToSet
    <3>5. wait' = "out" => lam # "running"
      BY <2>1, <3>3, <3>4, NoRequestAssumption DEF Told
    <3>6. wait' # "out" => UNCHANGED mvars
      BY <1>2 DEF Waiting
    <3>7. UNCHANGED waitFor
      BY <2>3 DEF WaitGet, WaitGetWith
    <3> QED
      BY <1>2, <2>1, <3>5, <3>6, <3>7 DEF Waiting, Notify, mvars, pvars, FinishedAfterDone
  <2> QED
    BY <1>2, <2>2, <2>3 DEF Waiting, WaitStep
<1>3. CASE ~Wait /\ ~Waiting
  <2>1. /\ pc' = "wait" => pc = "wait" /\ UNCHANGED waitFor
        /\ pc' = "finished" => pc = "finished" /\ (cancelled => cancelled')
    <3>1. CASE Manager
      <4>1. /\ pc' = "wait" => pc = "wait"
            /\ pc' = "finished" => pc = "finished"
            /\ UNCHANGED cancelled
        BY <1>3, <3>1 DEF Manager, Register, StartListener, Subscribe, SetNotifier,
           StartCollector, StartReturns, InitError, CheckContext, NextEvent, NextEventFails,
           ExitError, FunctionFinishedReturned, ShutdownListener, ShuttingListener, Stop,
           StopReturns, NotifyFunctionInvoked, NotifyFunctionFinished, Called, Goto, Exit,
           Notify, NotifyEnvironmentShutdown, mvars
      <4>2. UNCHANGED waitFor
        BY <1>3, <3>1 DEF Manager, Register, StartListener, ListenerStart, Subscribe,
           SetNotifier, StartCollector, StartReturns, InitError, CheckContext, NextEvent,
           NextEventFails, ExitError, FunctionFinishedReturned, ShutdownListener,
           ListenerShutdown, ShuttingListener, ShutdownStep, Closes, Closed, ClosesNil, Stop,
           StopReturns, NotifyFunctionInvoked, NotifyFunctionFinished,
           NotifyEnvironmentShutdown, tvars
      <4> QED
        BY <4>1, <4>2
    <3>2. CASE ListenerFails
      <4>1. UNCHANGED waitFor
        BY <3>2 DEF ListenerFails, ServerFails, ShutdownStep, Closes, Closed, ClosesNil, tvars
      <4>2. UNCHANGED mvars \/ pc' = "exited"
        BY <3>2 DEF ListenerFails, Exit
      <4> QED
        BY <4>1, <4>2 DEF mvars
    <3>3. CASE Collector \/ CollectorGivesUp \/ Signal \/ UNCHANGED vars
               \/ \E p \in Processors : Pipeline(p) \/ Decouple(p)
      BY <3>3 DEF Collector, CollectorUp, CollectorStartFails, CollectorClosed,
           CollectorReturns, BuildProcessor, ShutdownProcessor, CollectorGivesUp, Signal,
           Pipeline, Decouple, vars, mvars, tvars
    <3>4. CASE Platform \/ \E h \in Handlers : Put(h)
      BY <3>4 DEF Platform, Invoke, FunctionDone, LoseEvents, Freeze, ShutdownEnvironment,
           Deliver, Redeliver, HandlePost, Put, HandlerPut, mvars, tvars
    <3> QED
      BY <3>1, <3>2, <3>3, <3>4 DEF Next
  <2>2. pc \in {"wait", "finished"} => ~Invoke
    BY DEF Invoke
  <2>3. CASE FunctionDone
    BY <2>1, <2>3 DEF FunctionDone, Heard, FinishedAfterDone
  <2>4. CASE ShutdownEnvironment
    BY <2>1, <2>4 DEF ShutdownEnvironment, Heard, FinishedAfterDone
  <2>5. CASE UNCHANGED <<cur, lam>>
    BY <2>1, <2>5 DEF Heard, FinishedAfterDone
  <2> QED
    BY <2>1, <2>2, <2>3, <2>4, <2>5, ToldGrows DEF FinishedAfterDone
<1> QED
  BY <1>1, <1>2, <1>3

(* FunctionFinished is notified only when the function is done, or when the  *)
(* context is cancelled, however telemetry is batched, delayed or repeated.  *)
THEOREM FinishedIsLate == Safety => []FinishedAfterDone
<1>1. Init => Heard
  <2>1. <<>> \in Seq(Told)
    OBVIOUS
  <2> QED
    BY <2>1 DEF Init, TInit, Heard, FinishedAfterDone
<1>2. XInv /\ Heard /\ [Next]_vars => Heard'
  <2> SUFFICES ASSUME XInv, Heard, [Next]_vars PROVE Heard'
    OBVIOUS
  <2> QED
    BY EventsStep, WaitStepFacts DEF Heard
<1>3. Heard => FinishedAfterDone
  BY DEF Heard
<1> QED
  BY <1>1, <1>2, <1>3, XInvariant, PTL DEF Safety

-----------------------------------------------------------------------------
(* The end of the process after a SHUTDOWN event.                            *)

(* The collector's shutdown of every processor was called and has returned.  *)
Shut == colTodo = {} /\ \A p \in Processors : stop[p]["collector"] = "out"

Down ==
  /\ (pc \in InLoop \/ polled = "running") /\ col = "closed" => Shut
  /\ result = "shutdown" => pc = "exited" /\ done /\ col = "closed" /\ Shut

LEMMA ShutStays ==
  ASSUME XInv, [Next]_vars, Shut, col = "closed"
  PROVE  Shut'
<1>1. ASSUME NEW p \in Processors, Decouple(p) PROVE Shut'
  <2>1. UNCHANGED colTodo
    BY <1>1 DEF Decouple, cvars
  <2>2. CASE ForwardData(p) \/ \E d \in Data : ConsumeReturns(p, d)
    BY <2>1, <2>2 DEF ForwardData, ConsumeReturns, Shut
  <2>3. CASE ForwarderExits(p)
    BY <2>1, <2>3 DEF ForwarderExits, Released, Stoppers, Shut, XInv, Types
  <2>4. ASSUME NEW s \in Stoppers, StopperStep(p, s) PROVE Shut'
    <3>1. PICK v \in StopStates : stop' = [stop EXCEPT ![p][s] = v] /\ stop[p][s] # "out"
      BY <2>4, StopperMoves
    <3> QED
      BY <2>1, <3>1 DEF Stoppers, Shut, XInv, Types
  <2> QED
    BY <1>1, <2>2, <2>3, <2>4 DEF Decouple, ForwarderStep
<1>2. ASSUME NEW p \in Processors, NotifyFunctionFinished(p) PROVE Shut'
  BY <1>2 DEF NotifyFunctionFinished, StopForwardingData, Stoppers, Shut, XInv, Types, cvars
<1>3. ASSUME NEW p \in Processors,
             \/ NotifyFunctionInvoked(p) \/ NotifyEnvironmentShutdown(p)
             \/ Pipeline(p) \/ ShutdownProcessor(p)
      PROVE  Shut'
  BY <1>3 DEF NotifyFunctionInvoked, NotifyEnvironmentShutdown, Pipeline, ShutdownProcessor,
              StartForwardingData, QueueData, Shut, cvars
<1>4. CASE UNCHANGED dvars /\ UNCHANGED colTodo
  BY <1>4 DEF dvars, Shut
<1>5. ManagerAlone => UNCHANGED dvars /\ UNCHANGED colTodo
  BY ManagerAloneKeeps
<1> QED
  BY <1>1, <1>2, <1>3, <1>4, <1>5, OthersKeep DEF Next, Manager, ManagerAlone, Collector

LEMMA DownStep == XInv /\ Down /\ [Next]_vars => Down'
<1> SUFFICES ASSUME XInv, Down, [Next]_vars PROVE Down'
  OBVIOUS
<1>0. col = "closed" /\ Shut => Shut'
  BY ShutStays
<1> USE DEF Down
<1> HIDE DEF Shut
<1>1. CASE Manager
  <2>1. /\ col' = "closed" => col = "closed"
        /\ (pc \in InLoop \/ polled = "running")' /\ col = "closed" =>
             pc \in InLoop \/ polled = "running"
    <3>1. CASE StartReturns
      BY <3>1 DEF StartReturns, PollState, PollAgain, StartSucceeds, StartFails, Goto, InLoop,
                  mvars
    <3>2. CASE ~StartReturns
      BY <1>1, <3>2 DEF Manager, Register, StartListener, Subscribe, SetNotifier,
         StartCollector, ServiceBecomes, InitError, CheckContext, NextEvent, NextEventFails,
         ExitError, Wait, Waiting, FunctionFinishedReturned, ShutdownListener,
         ShuttingListener, Stop, StopCall, StopReturns, StopReturned, NotifyFunctionInvoked,
         NotifyFunctionFinished, Called, Goto, Exit, Notify, NotifyEnvironmentShutdown,
         mvars, cvars, wvars, InLoop
    <3> QED
      BY <3>1, <3>2
  <2>2. result' = "shutdown" => StopReturns
    BY <1>1 DEF Manager, Register, StartListener, Subscribe, SetNotifier, StartCollector,
       StartReturns, InitError, CheckContext, NextEvent, NextEventFails, ExitError, Wait,
       Waiting, FunctionFinishedReturned, ShutdownListener, ShuttingListener, Stop,
       NotifyFunctionInvoked, NotifyFunctionFinished, Called, Goto, Exit, Notify,
       NotifyEnvironmentShutdown, mvars, XInv
  <2>3. StopReturns => pc' = "exited" /\ done' /\ col' = "closed" /\ col = "closed" /\ Shut
    BY DEF StopReturns, StopReturned, Exit, wvars, XInv, PollAgrees, InLoop
  <2> QED
    BY <1>0, <2>1, <2>2, <2>3
<1>2. CASE ~Manager
  <2>1. UNCHANGED polled /\ (pc' = pc \/ pc' = "exited")
        /\ (result' = "shutdown" => result = "shutdown")
        /\ (pc = "exited" => UNCHANGED <<pc, done, col>>)
    BY <1>2 DEF Next, Collector, CollectorUp, CollectorStartFails, CollectorClosed,
       CollectorReturns, ServiceBecomes, ServiceReturns, BuildProcessor, ShutdownProcessor,
       CollectorGivesUp, ListenerFails, Exit, Signal, Platform, Invoke, FunctionDone,
       LoseEvents, Freeze, ShutdownEnvironment, Deliver, Redeliver, Pipeline, Decouple, Put,
       Up, Ended, vars, mvars, cvars, wvars
  <2>2. CASE CollectorClosed
    <3>1. Shut' /\ pc # "exited"
      BY <2>2 DEF CollectorClosed, CollectorQuiet, Shut, Up, Ended, dvars
    <3> QED
      BY <2>1, <2>2, <3>1 DEF CollectorClosed, mvars, XInv
  <2>3. CASE CollectorStartFails \/ \E p \in Processors : BuildProcessor(p)
    <3>1. col = "starting" /\ pc # "exited" /\ UNCHANGED <<pc, result>>
      BY <2>3 DEF CollectorStartFails, BuildProcessor, Up, Ended, mvars
    <3>2. ~(pc \in InLoop \/ polled = "running")
      BY <3>1 DEF XInv, PollAgrees, HasStarted
    <3> QED
      BY <2>1, <3>1, <3>2 DEF XInv
  <2>4. CASE ~CollectorClosed /\ ~CollectorStartFails /\ ~\E p \in Processors : BuildProcessor(p)
    <3>1. col' = "closed" => col = "closed"
      BY <1>2, <2>4 DEF Next, Collector, CollectorUp, CollectorReturns, ServiceBecomes,
         ServiceReturns, ShutdownProcessor, CollectorGivesUp, ListenerFails, Signal, Platform,
         Invoke, FunctionDone, LoseEvents, Freeze, ShutdownEnvironment, Deliver, Redeliver,
         Pipeline, Decouple, Put, vars, cvars, wvars
    <3> QED
      BY <1>0, <2>1, <3>1 DEF InLoop
  <2> QED
    BY <2>2, <2>3, <2>4
<1> QED
  BY <1>1, <1>2

LEMMA EndsDown == Safety => []Down
<1>1. Init => Down
  BY DEF Init, WInit, Down, InLoop
<1> QED
  BY <1>1, DownStep, XInvariant, PTL DEF Safety

(* After SHUTDOWN the collector is closed, the processors' shutdown was      *)
(* called and has returned, and an export is cut off only where a stop is    *)
(* left in the channel, by a component that was shut down early.             *)
THEOREM SystemDrains == Safety => []ShutdownDrains
<1>1. Safety => []Calls!StopAhead
  BY SystemCalls, Calls!LateForwarderStops, CallsAssumptions, PTL
<1>2. Down /\ Calls!StopAhead => ShutdownDrains
  <2> SUFFICES ASSUME Down, Calls!StopAhead, result = "shutdown", NEW p \in Processors,
                      inflight[p] # {}
               PROVE  Lifecycle!StopsIn(chan[p]) # {}
    BY DEF Down, Shut, ShutdownDrains
  <2>1. Phase(p) = "shutdown" /\ p \notin colTodo
    <3>1. pc = "exited" /\ colTodo = {}
      BY DEF Down, Shut
    <3> QED
      BY <3>1 DEF Phase
  <2>2. Calls!StopsIn(chan[p]) # {}
    BY <2>1 DEF Calls!StopAhead
  <2> QED
    BY <2>2 DEF Calls!StopsIn, Calls!Stoppers, Lifecycle!StopsIn, Lifecycle!Stoppers
<1> QED
  BY <1>1, <1>2, EndsDown, PTL

-----------------------------------------------------------------------------
(* What is flushed before a freeze, and at an orderly end.                   *)

Sent(p) == Len(sent[p])

(* While the function runs and the context lives, the manager has the event  *)
(* before it or waits; at any other time FunctionFinished has been or is to  *)
(* be called for what was owed when the function was done.                   *)
Owing ==
  /\ col \in {"none", "starting", "running"} => colTodo = Processors
  /\ lam = "running" /\ ~cancelled => event = "INVOKE" \/ pc \in {"invoked", "wait", "exited"}
  /\ \A p \in Processors :
       /\ owed[p] <= Sent(p)
       /\ ~cancelled /\ event # "INVOKE" /\ pc \notin {"invoked", "wait", "exited"} =>
            (pc = "finished" /\ p \in todo) \/ mark[p] >= owed[p]

LEMMA OwingStep ==
  XInv /\ TypeOK /\ FinishedAfterDone' /\ Owing /\ [Next]_vars => Owing'
<1> SUFFICES ASSUME XInv, TypeOK, FinishedAfterDone', Owing, [Next]_vars PROVE Owing'
  OBVIOUS
<1>0. /\ \A p \in Processors : Sent(p) \in Nat /\ owed[p] \in Nat /\ mark[p] \in Nat
      /\ pc = "wait" => listeners = Processors
  <2>1. \A p \in Processors : sent[p] \in Seq(Data)
    BY DEF TypeOK, DTypeOK
  <2>2. \A p \in Processors : Sent(p) \in Nat
    BY <2>1 DEF Sent
  <2> QED
    BY <2>2 DEF TypeOK, DTypeOK, XInv, AllRegistered, InLoop
<1> DEFINE Late == ~cancelled /\ event # "INVOKE" /\ pc \notin {"invoked", "wait", "exited"}
(* Most steps change neither what was sent, marked or owed, nor todo.        *)
<1>1. ASSUME UNCHANGED <<sent, mark, owed, colTodo>>,
             (col \in {"none", "starting", "running"})' => col \in {"none", "starting", "running"},
             (lam = "running" /\ ~cancelled)' =>
               (event = "INVOKE" \/ pc \in {"invoked", "wait", "exited"})',
             \A p \in Processors :
               Late' => \/ (pc = "finished" /\ p \in todo)'
                        \/ Late /\ ~(pc = "finished" /\ p \in todo)
      PROVE  Owing'
  <2>1. \A p \in Processors : Sent(p)' = Sent(p)
    BY <1>1 DEF Sent
  <2> QED
    BY <1>1, <2>1 DEF Owing
<1>2. CASE ManagerAlone
  <2> USE DEF Goto, Exit, Notify, mvars, cvars, wvars, pvars
  <2>1. UNCHANGED <<sent, mark, owed, colTodo, lam>>
    <3>1. UNCHANGED dvars /\ UNCHANGED colTodo
      BY <1>2, ManagerAloneKeeps
    <3>2. UNCHANGED <<owed, lam>>
      BY <1>2 DEF ManagerAlone, Register, StartListener, Subscribe, SetNotifier,
         StartCollector, StartReturns, InitError, CheckContext, NextEvent, NextEventFails,
         ExitError, Wait, Waiting, FunctionFinishedReturned, ShutdownListener,
         ShuttingListener, Stop, StopReturns
    <3> QED
      BY <3>1, <3>2 DEF dvars
  <2>2. (col \in {"none", "starting", "running"})' => col \in {"none", "starting", "running"}
    BY <1>2 DEF ManagerAlone, Register, StartListener, Subscribe, SetNotifier,
       StartCollector, ServiceBecomes, StartReturns, PollState, PollAgain, StartSucceeds,
       StartFails, InitError, CheckContext, NextEvent, NextEventFails, ExitError, Wait,
       Waiting, FunctionFinishedReturned, ShutdownListener, ShuttingListener, Stop, StopCall,
       StopReturns, StopReturned, XInv, PollAgrees
  <2>3. UNCHANGED cancelled
    BY <1>2 DEF ManagerAlone, Register, StartListener, Subscribe, SetNotifier,
       StartCollector, StartReturns, InitError, CheckContext, NextEvent, NextEventFails,
       ExitError, Wait, Waiting, FunctionFinishedReturned, ShutdownListener,
       ShuttingListener, Stop, StopReturns
  <2>4. CASE NextEvent
    <3>1. pc = "next" /\ event' = "none" /\ (pc' = "invoked" \/ (pc' = "envshutdown" /\ event = "SHUTDOWN"))
      BY <2>4 DEF NextEvent, TypeOK
    <3> QED
      BY <1>1, <2>1, <2>2, <2>3, <3>1 DEF Owing
  <2>5. CASE Waiting
    <3>1. UNCHANGED event
      BY <2>5 DEF Waiting
    <3>2. \/ UNCHANGED <<pc, todo>>
          \/ pc' = "finished" /\ todo' = Processors
      BY <1>0, <2>5 DEF Waiting
    <3> QED
      BY <1>1, <2>1, <2>2, <2>3, <2>5, <3>1, <3>2 DEF Owing, FinishedAfterDone, Waiting
  <2>6. CASE ~NextEvent /\ ~Waiting
    <3>1. UNCHANGED event
      BY <1>2, <2>6 DEF ManagerAlone, Register, StartListener, Subscribe, SetNotifier,
         StartCollector, StartReturns, InitError, CheckContext, NextEventFails, ExitError,
         Wait, FunctionFinishedReturned, ShutdownListener, ShuttingListener, Stop,
         StopReturns
    <3>2. /\ UNCHANGED todo
          /\ pc \in {"invoked", "wait", "exited"} => pc' \in {"invoked", "wait", "exited"}
          /\ pc = "finished" => todo = {} \/ pc' = "finished"
          /\ pc' = "finished" => pc = "finished"
      BY <1>2, <2>6 DEF ManagerAlone, Register, StartListener, Subscribe, SetNotifier,
         StartCollector, StartReturns, InitError, CheckContext, NextEventFails, ExitError,
         Wait, FunctionFinishedReturned, ListenersReturned, ShutdownListener,
         ShuttingListener, Stop, StopReturns
    <3> QED
      BY <1>1, <2>1, <2>2, <2>3, <3>1, <3>2 DEF Owing
  <2> QED
    BY <2>4, <2>5, <2>6
<1>3. ASSUME NEW p \in Processors, NotifyFunctionInvoked(p) \/ NotifyEnvironmentShutdown(p)
      PROVE  Owing'
  <2>1. /\ pc # "finished"
        /\ UNCHANGED <<sent, mark, owed, colTodo, col, lam, cancelled, event, pc>>
    BY <1>3 DEF NotifyFunctionInvoked, NotifyEnvironmentShutdown, StartForwardingData,
                Called, cvars, wvars, pvars
  <2> QED
    BY <1>1, <2>1 DEF Owing
<1>4. ASSUME NEW p \in Processors, NotifyFunctionFinished(p) \/ ShutdownProcessor(p)
      PROVE  Owing'
  <2>1. /\ UNCHANGED <<sent, owed, lam, cancelled, event, pc, col>>
        /\ mark' = [mark EXCEPT ![p] = Sent(p)]
        /\ todo' = todo \ {p} \/ UNCHANGED todo
    BY <1>4 DEF NotifyFunctionFinished, ShutdownProcessor, StopForwardingData, Called,
                mvars, cvars, wvars, pvars, Sent
  <2>2. UNCHANGED colTodo \/ col = "closing"
    BY <1>4 DEF NotifyFunctionFinished, ShutdownProcessor, cvars
  <2>3. \A q \in Processors : Sent(q)' = Sent(q)
    BY <2>1 DEF Sent
  <2>4. \A q \in Processors : mark'[q] = IF q = p THEN Sent(p) ELSE mark[q]
    BY <2>1 DEF TypeOK, DTypeOK
  <2>5. Late' => Late
    BY <2>1
  <2>6. ASSUME NEW q \in Processors, Late'
        PROVE  (pc = "finished" /\ q \in todo)' \/ mark'[q] >= owed[q]
    <3>1. CASE q = p
      BY <2>4, <3>1 DEF Owing
    <3>2. CASE q # p
      BY <2>1, <2>4, <2>5, <2>6, <3>2 DEF Owing
    <3> QED
      BY <3>1, <3>2
  <2> QED
    BY <2>1, <2>2, <2>3, <2>6 DEF Owing
<1>5. ASSUME NEW p \in Processors, Pipeline(p) \/ Decouple(p) PROVE Owing'
  <2>1. UNCHANGED <<mark, owed, colTodo, lam, cancelled, event, pc, col, todo>>
    BY <1>5 DEF Pipeline, QueueData, Decouple, ForwarderStep, ForwardData, ConsumeReturns,
                ForwarderExits, StopperStep, StopWaits, WaitReturns, mvars, cvars, wvars, pvars
  <2>2. ASSUME NEW q \in Processors PROVE Sent(q)' = Sent(q) \/ Sent(q)' = Sent(q) + 1
    <3>1. sent \in [Processors -> Seq(Data)] /\ sent[q] \in Seq(Data)
      BY DEF TypeOK, DTypeOK
    <3>2. sent'[q] = sent[q] \/ \E d \in Data : sent'[q] = Append(sent[q], d)
      BY <1>5, <3>1 DEF Pipeline, QueueData, Decouple, ForwarderStep, ForwardData,
                        ConsumeReturns, ForwarderExits, StopperStep, StopWaits, WaitReturns
    <3>3. CASE sent'[q] = sent[q]
      BY <3>3 DEF Sent
    <3>4. ASSUME NEW d \in Data, sent'[q] = Append(sent[q], d)
          PROVE  Sent(q)' = Sent(q) + 1
      BY <3>1, <3>4 DEF Sent
    <3> QED
      BY <3>2, <3>3, <3>4
  <2>3. \A q \in Processors : owed[q] <= Sent(q)'
    BY <1>0, <2>2 DEF Owing
  <2> QED
    BY <2>1, <2>3 DEF Owing
<1>6. CASE FunctionDone
  <2>1. /\ owed' = [p \in Processors |-> Sent(p)] /\ lam = "running" /\ lam' = "idle"
        /\ UNCHANGED <<sent, mark, cancelled, event, pc, col, colTodo, todo>>
    BY <1>6 DEF FunctionDone, dvars, mvars, cvars, wvars, Sent
  <2>2. \A p \in Processors : owed'[p] = Sent(p) /\ Sent(p)' = Sent(p)
    BY <2>1 DEF Sent
  <2>3. ~Late'
    BY <2>1 DEF Owing
  <2>4. \A p \in Processors : owed'[p] <= Sent(p)'
    BY <1>0, <2>2
  <2> QED
    BY <2>1, <2>3, <2>4 DEF Owing
<1>7. CASE Invoke \/ ShutdownEnvironment
  <2>1. /\ event = "none" /\ event' \in {"INVOKE", "SHUTDOWN"}
        /\ lam' = "running" => event' = "INVOKE"
        /\ UNCHANGED <<sent, mark, owed, colTodo, col, cancelled, pc, todo>>
    BY <1>7 DEF Invoke, ShutdownEnvironment, dvars, mvars, cvars, wvars
  <2> QED
    BY <1>1, <2>1 DEF Owing
<1>8. CASE ListenerFails \/ Signal
  <2>1. /\ UNCHANGED <<sent, mark, owed, colTodo, col, lam, event>>
        /\ cancelled => cancelled'
        /\ pc' = "exited" \/ UNCHANGED <<pc, todo>>
    BY <1>8 DEF ListenerFails, Signal, Exit, dvars, mvars, cvars, wvars, pvars
  <2> QED
    BY <1>1, <2>1 DEF Owing
<1>9. CASE \/ CollectorUp \/ CollectorStartFails \/ CollectorClosed \/ CollectorReturns
           \/ \E p \in Processors : BuildProcessor(p)
           \/ CollectorGivesUp \/ LoseEvents \/ Freeze
           \/ \E h \in Handlers : Deliver(h) \/ Redeliver(h) \/ Put(h)
           \/ UNCHANGED vars
  <2>1. /\ UNCHANGED <<sent, mark, owed, colTodo, lam, cancelled, event, pc, todo>>
        /\ (col \in {"none", "starting", "running"})' => col \in {"none", "starting", "running"}
    BY <1>9 DEF CollectorUp, CollectorStartFails, CollectorClosed, CollectorReturns,
       ServiceBecomes, ServiceReturns, BuildProcessor, CollectorGivesUp, LoseEvents, Freeze,
       Deliver, Redeliver, Put, vars, dvars, mvars, cvars, wvars, pvars
  <2> QED
    BY <1>1, <2>1 DEF Owing
<1> QED
  BY <1>2, <1>3, <1>4, <1>5, <1>6, <1>7, <1>8, <1>9
  DEF Next, Manager, ManagerAlone, Collector, Platform

(* When the environment is frozen all that was queued when the function was  *)
(* done has been exported, whatever telemetry, the API and the platform do,  *)
(* as long as the collector runs and the context is not cancelled.           *)
THEOREM FreezeIsFlushed == Safety => []FlushedBeforeFreeze
<1>1. Init => Owing
  <2> SUFFICES ASSUME Init PROVE Owing
    OBVIOUS
  <2>1. \A p \in Processors : owed[p] = 0 /\ mark[p] = 0 /\ sent[p] = <<>>
    BY DEF Init, DInit
  <2>2. ASSUME NEW p \in Processors PROVE Sent(p) = 0
    <3>1. sent[p] = <<>>
      BY <2>1
    <3> QED
      BY <3>1 DEF Sent
  <2> QED
    BY <2>1, <2>2 DEF Init, Owing
<1>2. Safety => []Owing
  BY <1>1, OwingStep, XInvariant, SystemTypes, FinishedIsLate, PTL DEF Safety
<1>3. Safety => []Calls!FlushedAtRest
  BY SystemCalls, Calls!RestIsFlushed, CallsAssumptions, PTL
<1>4. XInv /\ TypeOK /\ Owing /\ NoExportWhileFrozen /\ Calls!FlushedAtRest => FlushedBeforeFreeze
  <2> SUFFICES ASSUME XInv, TypeOK, Owing, NoExportWhileFrozen, Calls!FlushedAtRest,
                      frozen, col = "running", ~cancelled, NEW p \in Processors
               PROVE  Len(handed[p]) >= owed[p] /\ inflight[p] = {}
    BY DEF FlushedBeforeFreeze
  <2>1. pc = "next" /\ event = "none" /\ result = "none" /\ stop[p]["manager"] = "out"
    BY DEF XInv, InsideNone
  <2>2. Phase(p) = "idle" /\ p \in colTodo
    BY <2>1 DEF Phase, Owing
  <2>3. Len(handed[p]) >= mark[p]
    BY <2>1, <2>2 DEF Calls!FlushedAtRest, Calls!AtRest
  <2>4. mark[p] >= owed[p]
    BY <2>1 DEF Owing
  <2>5. Len(handed[p]) \in Nat /\ mark[p] \in Nat /\ owed[p] \in Nat
    BY DEF TypeOK, DTypeOK
  <2>6. \A l, m, o \in Nat : l >= m /\ m >= o => l >= o
    OBVIOUS
  <2>7. Len(handed[p]) >= owed[p]
    BY <2>3, <2>4, <2>5, <2>6
  <2> QED
    BY <2>7 DEF NoExportWhileFrozen
<1> QED
  BY <1>2, <1>3, <1>4, XInvariant, SystemTypes, FrozenIsQuiet, PTL

(* Unless the collector may shut down early, what was queued before a        *)
(* processor's shutdown has been exported when the process ends.             *)
THEOREM OrderlyEndLosesNothing == Safety => [](~Early => NothingLostAtShutdown)
<1>1. Safety => []Calls!FlushedAtShutdown
  BY SystemCalls, Calls!ShutdownFlushes, CallsAssumptions, PTL
<1>2. Down /\ Calls!FlushedAtShutdown => (~Early => NothingLostAtShutdown)
  <2> SUFFICES ASSUME Down, Calls!FlushedAtShutdown, ~Early, result = "shutdown",
                      NEW p \in Processors
               PROVE  Len(handed[p]) >= mark[p]
    BY DEF NothingLostAtShutdown
  <2>1. p \notin colTodo /\ stop[p]["collector"] = "out"
    BY DEF Down, Shut
  <2> QED
    BY <2>1 DEF Calls!FlushedAtShutdown, Early
<1> QED
  BY <1>1, <1>2, EndsDown, PTL

-----------------------------------------------------------------------------
(* Without faults the extension comes up.                                    *)

Calm ==
  /\ pc \notin {"initerror", "exiterror"}
  /\ result \in {"none", "shutdown"}
  /\ closer["server"] = "out" /\ ~together
  /\ col = "closed" => pc \in {"stopping", "exited"}
  /\ pc \in {"register", "listen", "subscribe", "setnotifier"} \/ notifier

LEMMA CalmStep == XInv /\ Calm /\ Faults = {} /\ [Next]_vars => Calm'
<1> SUFFICES ASSUME XInv, Calm, Faults = {}, [Next]_vars PROVE Calm'
  OBVIOUS
<1>0. /\ ~cancelled /\ ~RequestMayFail
      /\ col = "closing" => pc \in {"stopping", "exited"}
      /\ failed => pc \in {"stopping", "exited"}
      /\ closer \in [Closers -> {"out", "checked", "closing"}]
  BY DEF XInv, Types, TTypeOK, ClosesLast, Early, RequestMayFail, PollAgrees, IsOver, Calm
<1> USE DEF Calm, Goto, Exit, Notify, mvars, tvars, svars, cvars, wvars, Closers
<1>1. CASE Manager
  <2>1. CASE Register \/ Subscribe \/ SetNotifier \/ InitError \/ CheckContext \/ NextEvent
             \/ NextEventFails \/ ExitError \/ FunctionFinishedReturned \/ StopReturns
    <3>1. UNCHANGED <<closer, together, col>>
      BY <2>1 DEF Register, Subscribe, SetNotifier, InitError, CheckContext, NextEvent,
         NextEventFails, ExitError, FunctionFinishedReturned, StopReturns, StopReturned
    <3>2. CASE Register \/ SetNotifier \/ InitError \/ CheckContext
      BY <1>0, <3>1, <3>2 DEF Register, SetNotifier, InitError, CheckContext
    <3>3. CASE Subscribe
      <4>1. pc = "subscribe" /\ pc' = "setnotifier" /\ UNCHANGED result
        BY <1>0, <3>3 DEF Subscribe
      <4> QED
        BY <1>0, <3>1, <4>1
    <3>4. CASE NextEvent \/ NextEventFails \/ ExitError
      BY <1>0, <3>1, <3>4 DEF NextEvent, NextEventFails, ExitError
    <3>5. CASE FunctionFinishedReturned \/ StopReturns
      BY <1>0, <3>1, <3>5 DEF FunctionFinishedReturned, StopReturns
    <3> QED
      BY <2>1, <3>2, <3>3, <3>4, <3>5
  <2>2. CASE StartListener
    BY <1>0, <2>2 DEF StartListener, ListenerStart
  <2>3. CASE StartCollector
    BY <1>0, <2>3 DEF StartCollector, ServiceBecomes
  <2>4. CASE StartReturns
    BY <1>0, <2>4 DEF StartReturns, PollState, PollAgain, StartSucceeds, StartFails
  <2>5. CASE Wait
    BY <1>0, <2>5 DEF Wait, WaitCall
  <2>6. CASE Waiting
    <3>1. UNCHANGED <<closer, together>>
      BY <2>6 DEF Waiting, WaitStep, WaitPoll, WaitGet, WaitGetWith
    <3> QED
      BY <1>0, <2>6, <3>1 DEF Waiting
  <2>7. CASE ShutdownListener
    BY <1>0, <2>7 DEF ShutdownListener, ListenerShutdown, ShutdownCall
  <2>8. CASE ShuttingListener
    <3>1. CASE ShutdownStep("manager")
      <4>1. closer'["server"] = "out" /\ UNCHANGED together
        BY <1>0, <3>1 DEF ShutdownStep, Closes, Closed
      <4>2. ~ClosesNil("manager")
        BY <3>1 DEF ShutdownStep, Closes, Closed, ClosesNil
      <4> QED
        BY <1>0, <2>8, <4>1, <4>2 DEF ShuttingListener
    <3>2. CASE ClosesNil("manager")
      BY <3>2, <1>0, <2>8 DEF ShuttingListener, ClosesNil, XInv, Forgotten
    <3> QED
      BY <2>8, <3>1, <3>2 DEF ShuttingListener
  <2>9. CASE Stop
    BY <1>0, <2>9 DEF Stop, StopCall, ServiceBecomes
  <2>10. ASSUME NEW p \in Processors,
                \/ NotifyFunctionInvoked(p) \/ NotifyFunctionFinished(p)
                \/ NotifyEnvironmentShutdown(p)
         PROVE  Calm'
    BY <1>0, <2>10 DEF NotifyFunctionInvoked, NotifyFunctionFinished,
       NotifyEnvironmentShutdown, Called
  <2> QED
    BY <1>1, <2>1, <2>2, <2>3, <2>4, <2>5, <2>6, <2>7, <2>8, <2>9, <2>10 DEF Manager
<1>2. CASE Collector
  <2>1. ASSUME NEW p \in Processors, BuildProcessor(p) PROVE Calm'
    <3>1. notifier
      BY <2>1 DEF BuildProcessor, XInv, PollAgrees
    <3> QED
      BY <1>0, <2>1, <3>1 DEF BuildProcessor
  <2>2. CASE CollectorUp \/ CollectorStartFails \/ CollectorClosed
    BY <1>0, <2>2 DEF CollectorUp, CollectorStartFails, CollectorClosed, ServiceBecomes
  <2>3. CASE CollectorReturns \/ \E p \in Processors : ShutdownProcessor(p)
    <3>1. UNCHANGED <<mvars, tvars, col>>
      BY <2>3 DEF CollectorReturns, ServiceReturns, ShutdownProcessor
    <3> QED
      BY <3>1
  <2> QED
    BY <1>2, <2>1, <2>2, <2>3 DEF Collector
<1>3. CASE CollectorGivesUp \/ ListenerFails \/ Signal
  BY <1>0, <1>3 DEF CollectorGivesUp, ListenerFails, Signal
<1>4. CASE Platform
  BY <1>0, <1>4 DEF Platform, Invoke, FunctionDone, LoseEvents, Freeze, ShutdownEnvironment,
     Deliver, Redeliver, HandlePost
<1>5. CASE (\E p \in Processors : Pipeline(p) \/ Decouple(p)) \/ \E h \in Handlers : Put(h)
  BY <1>0, <1>5 DEF Pipeline, Decouple, Put, HandlerPut
<1>6. CASE UNCHANGED vars
  BY <1>6 DEF vars
<1> QED
  BY <1>1, <1>2, <1>3, <1>4, <1>5, <1>6 DEF Next

(* Without faults no error ends the process, and in any case the manager     *)
(* asks for events only when all processors are registered with it.          *)
THEOREM SystemComesUp == Safety => []ComesUp
<1> DEFINE Quiet == Faults = {} => Calm
<1>1. Init => Quiet
  BY DEF Init, TInit, WInit, Calm, Closers
<1>2. XInv /\ Quiet /\ [Next]_vars => Quiet'
  BY CalmStep
<1>3. XInv /\ Quiet => ComesUp
  BY DEF XInv, AllRegistered, InLoop, Calm, ComesUp
<1> QED
  BY <1>1, <1>2, <1>3, XInvariant, PTL DEF Safety
=============================================================================
