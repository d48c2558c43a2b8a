--------------------------- MODULE DecoupleProofs ---------------------------
(***************************************************************************)
(* What holds of the decouple processors for every number of processors,   *)
(* every set of payloads and every queue size, whenever the collector      *)
(* shuts its components down: types, one forwarder at most, and nothing in *)
(* flight once FunctionFinished has returned.                              *)
(***************************************************************************)
EXTENDS DecoupleLifecycle, FiniteSetTheorems, FunctionTheorems, TLAPS

-----------------------------------------------------------------------------
(* Tail and Append keep a sequence over its set. *)
LEMMA SeqFacts ==
  ASSUME NEW S, NEW q \in Seq(S)
  PROVE  /\ \A e \in S : Append(q, e) \in Seq(S)
         /\ q # <<>> => Head(q) \in S /\ Tail(q) \in Seq(S)
  OBVIOUS

LEMMA InitTypes == Init => TypeOK
  BY SMT DEF Init, DInit, TypeOK, DTypeOK, Items, Stoppers, StopStates

(* Every step keeps the types.  The forwarder's counters stay natural only   *)
(* because of the invariant Forwarders below, so it is part of the premise.  *)
OneForwarder(p) ==
  /\ wg[p] = 0 \/ wg[p] = 1
  /\ wg[p] = 0 => idle[p] = 0 /\ inflight[p] = {}
  /\ wg[p] = 1 => \/ idle[p] = 1 /\ inflight[p] = {}
                  \/ idle[p] = 0 /\ \A d, e \in inflight[p] : d = e
  /\ AtRest(p) => wg[p] = 0

Forwarders == \A p \in Processors : OneForwarder(p)

FInv == TypeOK /\ Forwarders

(* What a goroutine inside stopForwardingData does after the send: it blocks, *)
(* returns when no forwarder is counted, or panics when one is.              *)
MovesTo(p, s, v) ==
  /\ stop' = [stop EXCEPT ![p][s] = v]
  /\ v = "out" <=> wg[p] = 0
  /\ v = "waiting" => stop[p][s] = "sending"
  /\ v = "panicked" => stop[p][s] = "woken"
  /\ stop[p][s] # "out"
  /\ UNCHANGED <<chan, wg, idle, inflight, sent, handed, mark>>

LEMMA StopperMoves ==
  ASSUME NEW p \in Processors, NEW s \in Stoppers, StopperStep(p, s)
  PROVE  \E v \in {"out", "waiting", "panicked"} : MovesTo(p, s, v)
<1>1. CASE StopWaits(p, s)
  <2>1. MovesTo(p, s, IF wg[p] = 0 THEN "out" ELSE "waiting")
    BY <1>1 DEF StopWaits, MovesTo
  <2> QED
    BY <2>1
<1>2. CASE WaitReturns(p, s)
  <2>1. MovesTo(p, s, IF wg[p] = 0 THEN "out" ELSE "panicked")
    BY <1>2 DEF WaitReturns, MovesTo
  <2> QED
    BY <2>1
<1> QED
  BY <1>1, <1>2 DEF StopperStep

LEMMA TypesStep == FInv /\ [Next]_lvars => TypeOK'
<1> SUFFICES ASSUME FInv, [Next]_lvars PROVE TypeOK'
  OBVIOUS
<1> USE DEF FInv, TypeOK, DTypeOK, StopStates
<1>1. CASE UNCHANGED lvars
  BY <1>1 DEF lvars, dvars
<1>2. ASSUME NEW p \in Processors, Queue(p) PROVE TypeOK'
  BY <1>2, SeqFacts DEF Queue, QueueData, Items
<1>3. ASSUME NEW p \in Processors, FunctionInvoked(p) PROVE TypeOK'
  BY <1>3 DEF FunctionInvoked, StartForwardingData
<1>4. ASSUME NEW p \in Processors, FunctionFinished(p) PROVE TypeOK'
  BY <1>4, SeqFacts DEF FunctionFinished, StopForwardingData, Items, Stoppers
<1>5. ASSUME NEW p \in Processors, EnvironmentShutdown(p) PROVE TypeOK'
  BY <1>5 DEF EnvironmentShutdown, StartForwardingData
<1>6. ASSUME NEW p \in Processors, Shutdown(p) PROVE TypeOK'
  BY <1>6, SeqFacts DEF Shutdown, StopForwardingData, Items, Stoppers
<1>7. ASSUME NEW p \in Processors, Internal(p) PROVE TypeOK'
  <2>1. CASE ForwardData(p)
    <3>1. chan[p] \in Seq(Items) /\ handed[p] \in Seq(Data)
      OBVIOUS
    <3>2. /\ Tail(chan[p]) \in Seq(Items) /\ Head(chan[p]) \in Data
          /\ Append(handed[p], Head(chan[p])) \in Seq(Data)
      BY <2>1, <3>1, SeqFacts DEF ForwardData
    <3>3. idle[p] - 1 \in Nat
      BY <2>1 DEF ForwardData
    <3> QED
      BY <1>7, <2>1, <3>2, <3>3 DEF Internal, ForwardData
  <2>2. ASSUME NEW d \in Data, ConsumeReturns(p, d) PROVE TypeOK'
    BY <1>7, <2>2 DEF Internal, ConsumeReturns
  <2>3. CASE ForwarderExits(p)
    <3>1. wg[p] = 1
      BY <2>3 DEF ForwarderExits, Forwarders, OneForwarder
    <3> QED
      BY <1>7, <2>3, <3>1, SeqFacts DEF Internal, ForwarderExits, Released
  <2>4. ASSUME NEW s \in Stoppers, StopperStep(p, s) PROVE TypeOK'
    <3>1. PICK v \in {"out", "waiting", "panicked"} : MovesTo(p, s, v)
      BY <2>4, StopperMoves
    <3> QED
      BY <1>7, <3>1 DEF Internal, MovesTo
  <2> QED
    BY <1>7, <2>1, <2>2, <2>3, <2>4 DEF Internal, ForwarderStep
<1> QED
  BY <1>1, <1>2, <1>3, <1>4, <1>5, <1>6, <1>7 DEF Next

LEMMA ForwardersStep == FInv /\ [Next]_lvars => Forwarders'
<1> SUFFICES ASSUME FInv, [Next]_lvars, NEW q \in Processors
             PROVE  OneForwarder(q)'
  BY DEF Forwarders
<1> USE DEF FInv, TypeOK, DTypeOK, Forwarders, OneForwarder, AtRest, Stoppers
<1>1. CASE UNCHANGED lvars
  BY <1>1 DEF lvars, dvars
<1>2. ASSUME NEW p \in Processors, Queue(p) PROVE OneForwarder(q)'
  BY <1>2 DEF Queue, QueueData
<1>3. ASSUME NEW p \in Processors, FunctionInvoked(p) PROVE OneForwarder(q)'
  BY <1>3 DEF FunctionInvoked, StartForwardingData
<1>4. ASSUME NEW p \in Processors, FunctionFinished(p) PROVE OneForwarder(q)'
  BY <1>4 DEF FunctionFinished, StopForwardingData
<1>5. ASSUME NEW p \in Processors, EnvironmentShutdown(p) PROVE OneForwarder(q)'
  BY <1>5 DEF EnvironmentShutdown, StartForwardingData
<1>6. ASSUME NEW p \in Processors, Shutdown(p) PROVE OneForwarder(q)'
  BY <1>6 DEF Shutdown, StopForwardingData
<1>7. ASSUME NEW p \in Processors, Internal(p) PROVE OneForwarder(q)'
  <2>1. CASE ForwardData(p)
    <3>1. wg[p] = 1 /\ idle[p] = 1 /\ inflight[p] = {}
      BY <2>1 DEF ForwardData
    <3>2. idle'[p] = 0 /\ \A d, e \in inflight'[p] : d = e
      BY <2>1, <3>1 DEF ForwardData
    <3> QED
      BY <1>7, <2>1, <3>1, <3>2 DEF Internal, ForwardData
  <2>2. ASSUME NEW d \in Data, ConsumeReturns(p, d) PROVE OneForwarder(q)'
    <3>1. wg[p] = 1 /\ idle[p] = 0 /\ \A e \in inflight[p] : d = e
      BY <2>2 DEF ConsumeReturns
    <3>2. idle'[p] = 1 /\ inflight'[p] = {}
      BY <2>2, <3>1 DEF ConsumeReturns
    <3> QED
      BY <1>7, <2>2, <3>1, <3>2 DEF Internal, ConsumeReturns
  <2>3. CASE ForwarderExits(p)
    BY <1>7, <2>3 DEF Internal, ForwarderExits, Released
  <2>4. ASSUME NEW s \in Stoppers, StopperStep(p, s) PROVE OneForwarder(q)'
    <3>1. PICK v \in {"out", "waiting", "panicked"} : MovesTo(p, s, v)
      BY <2>4, StopperMoves
    <3>2. /\ stop'[q]["manager"] = "out" => stop[q]["manager"] = "out" \/ wg[q] = 0
          /\ UNCHANGED <<phase, wg, idle, inflight>>
      BY <1>7, <3>1 DEF Internal, MovesTo
    <3> QED
      BY <3>2
  <2> QED
    BY <1>7, <2>1, <2>2, <2>3, <2>4 DEF Internal, ForwarderStep
<1> QED
  BY <1>1, <1>2, <1>3, <1>4, <1>5, <1>6, <1>7 DEF Next

(* The types and the forwarder's bookkeeping are invariant together. *)
LEMMA FInvInvariant == Safety => []FInv
<1>1. Init => FInv
  BY InitTypes DEF Init, DInit, FInv, Forwarders, OneForwarder, AtRest
<1>2. FInv /\ [Next]_lvars => FInv'
  BY TypesStep, ForwardersStep DEF FInv
<1> QED
  BY <1>1, <1>2, PTL DEF Safety

(* The variables keep their types: in particular the WaitGroup's counter     *)
(* never becomes negative, which would make wg.Done() panic.                 *)
THEOREM TypeCorrect == Safety => []TypeOK
  BY FInvInvariant, PTL DEF FInv

(* There is never a second forwarder goroutine.                              *)
THEOREM ForwarderIsAlone == Safety => []AtMostOneForwarder
<1>1. FInv => AtMostOneForwarder
  <2> SUFFICES ASSUME FInv, NEW p \in Processors PROVE wg[p] <= 1
    BY DEF AtMostOneForwarder
  <2>1. wg[p] = 0 \/ wg[p] = 1
    BY DEF FInv, Forwarders, OneForwarder
  <2> QED
    BY <2>1, SMT
<1> QED
  BY <1>1, FInvInvariant, PTL

(* Once FunctionFinished has returned, nothing is on its way through an      *)
(* exporter of the pipeline: the environment can be frozen.                  *)
THEOREM QuietAtRest == Safety => []NothingInFlightAtRest
<1>1. FInv => NothingInFlightAtRest
  BY DEF FInv, Forwarders, OneForwarder, NothingInFlightAtRest
<1> QED
  BY <1>1, FInvInvariant, PTL

(* A woken waiter finds the counter at 0: nobody starts a forwarder while the *)
(* manager is inside FunctionFinished, nor, when stops come in order, after    *)
(* the component's shutdown.                                                  *)
WaiterSafe(p) ==
  /\ stop[p]["manager"] = "woken" => wg[p] = 0
  /\ stop[p]["manager"] # "panicked"
  /\ phase[p] # "idle" => stop[p]["manager"] = "out"
  /\ ~EarlyStop =>
       /\ stop[p]["collector"] # "out" => closed[p]
       /\ closed[p] => phase[p] = "shutdown"
       /\ stop[p]["collector"] = "woken" => wg[p] = 0
       /\ stop[p]["collector"] # "panicked"

WaitersSafe == \A p \in Processors : WaiterSafe(p)

LEMMA WaitersStep == FInv /\ WaitersSafe /\ [Next]_lvars => WaitersSafe'
<1> SUFFICES ASSUME FInv, WaitersSafe, [Next]_lvars, NEW q \in Processors
             PROVE  WaiterSafe(q)'
  BY DEF WaitersSafe
<1> USE DEF FInv, TypeOK, DTypeOK, Stoppers
<1>0. WaiterSafe(q) /\ (wg[q] = 0 \/ wg[q] = 1)
  BY DEF WaitersSafe, Forwarders, OneForwarder
<1>1. CASE UNCHANGED <<stop[q], wg[q], phase[q], closed[q]>>
  BY <1>0, <1>1 DEF WaiterSafe
<1>2. ASSUME NEW p \in Processors, Queue(p) PROVE WaiterSafe(q)'
  BY <1>1, <1>2 DEF Queue, QueueData
<1>3. ASSUME NEW p \in Processors, FunctionInvoked(p) \/ EnvironmentShutdown(p)
      PROVE  WaiterSafe(q)'
  BY <1>0, <1>1, <1>3
     DEF FunctionInvoked, EnvironmentShutdown, StartForwardingData, AtRest, WaiterSafe
<1>4. ASSUME NEW p \in Processors, FunctionFinished(p) PROVE WaiterSafe(q)'
  BY <1>0, <1>1, <1>4 DEF FunctionFinished, StopForwardingData, WaiterSafe
<1>5. ASSUME NEW p \in Processors, Shutdown(p) PROVE WaiterSafe(q)'
  BY <1>0, <1>1, <1>5 DEF Shutdown, StopForwardingData, WaiterSafe
<1>6. ASSUME NEW p \in Processors, Internal(p) PROVE WaiterSafe(q)'
  <2>1. CASE ForwardData(p)
    BY <1>1, <1>6, <2>1 DEF Internal, ForwardData
  <2>2. ASSUME NEW d \in Data, ConsumeReturns(p, d) PROVE WaiterSafe(q)'
    BY <1>1, <1>6, <2>2 DEF Internal, ConsumeReturns
  <2>3. CASE ForwarderExits(p)
    <3>1. UNCHANGED <<phase, closed>>
      BY <1>6 DEF Internal
    <3>2. CASE p = q
      <4>1. /\ wg'[q] = wg[q] - 1 /\ wg[q] # 0 /\ stop'[q] = Released(stop[q], wg[q] - 1)
        BY <2>3, <3>2 DEF ForwarderExits, Forwarders, OneForwarder
      <4>2. wg'[q] = 0
        BY <1>0, <4>1
      <4>3. \A s \in Stoppers : /\ stop'[q][s] = "panicked" => stop[q][s] = "panicked"
                                /\ stop'[q][s] = "out" <=> stop[q][s] = "out"
        BY <4>1 DEF Released
      <4> QED
        BY <1>0, <3>1, <4>2, <4>3 DEF WaiterSafe
    <3>3. CASE p # q
      BY <1>1, <2>3, <3>1, <3>3 DEF ForwarderExits
    <3> QED
      BY <3>2, <3>3
  <2>4. ASSUME NEW s \in Stoppers, StopperStep(p, s) PROVE WaiterSafe(q)'
    <3>1. PICK v \in {"out", "waiting", "panicked"} : MovesTo(p, s, v)
      BY <2>4, StopperMoves
    <3>2. UNCHANGED <<phase, closed, wg>>
      BY <1>6, <3>1 DEF Internal, MovesTo
    <3> QED
      BY <1>0, <3>1, <3>2 DEF WaiterSafe, MovesTo
  <2> QED
    BY <1>6, <2>1, <2>2, <2>3, <2>4 DEF Internal, ForwarderStep
<1>7. CASE UNCHANGED lvars
  BY <1>1, <1>7 DEF lvars, dvars
<1> QED
  BY <1>2, <1>3, <1>4, <1>5, <1>6, <1>7 DEF Next

(* No wg.Wait() panics because a new invocation raised the counter before    *)
(* its waiter ran: never the manager's, and the collector's only when the    *)
(* component may be shut down early.                                         *)
THEOREM WaitsReturn == Safety => []WaitNotReused
<1>1. Init => WaitersSafe
  <2> SUFFICES ASSUME Init, NEW p \in Processors PROVE WaiterSafe(p)
    BY DEF WaitersSafe
  <2>1. stop[p]["manager"] = "out" /\ stop[p]["collector"] = "out"
        /\ phase[p] = "idle" /\ ~closed[p]
    BY DEF Init, DInit, Stoppers
  <2> QED
    BY <2>1 DEF WaiterSafe
<1>2. WaitersSafe => WaitNotReused
  BY DEF WaitersSafe, WaiterSafe, WaitNotReused
<1> QED
  BY <1>1, <1>2, WaitersStep, FInvInvariant, PTL DEF Safety

-----------------------------------------------------------------------------
(* How many stops a channel holds, as elements come and go. *)

LEMMA StopsFinite ==
  ASSUME NEW q \in Seq(Items)
  PROVE  IsFiniteSet(StopsIn(q)) /\ Cardinality(StopsIn(q)) \in Nat
<1>1. Len(q) \in Nat
  OBVIOUS
<1>2. IsFiniteSet(1..Len(q))
  BY <1>1, FS_Interval
<1>3. StopsIn(q) \subseteq 1..Len(q)
  BY DEF StopsIn
<1> QED
  BY <1>2, <1>3, FS_Subset, FS_CardinalityType

LEMMA StopsAppended ==
  ASSUME NEW q \in Seq(Items), NEW e \in Items
  PROVE  Cardinality(StopsIn(Append(q, e))) =
           Cardinality(StopsIn(q)) + (IF e \in Stoppers THEN 1 ELSE 0)
<1> PICK n \in Nat : n = Len(q)
  OBVIOUS
<1>1. /\ Len(Append(q, e)) = n + 1 /\ Append(q, e)[n + 1] = e
      /\ \A i \in 1..n : Append(q, e)[i] = q[i]
  OBVIOUS
<1>2. 1..(n + 1) = (1..n) \cup {n + 1} /\ n + 1 \notin 1..n
  OBVIOUS
<1>3. StopsIn(Append(q, e)) = StopsIn(q) \cup (IF e \in Stoppers THEN {n + 1} ELSE {})
  BY <1>1, <1>2 DEF StopsIn
<1>4. n + 1 \notin StopsIn(q)
  BY <1>2 DEF StopsIn
<1>5. CASE e \in Stoppers
  BY <1>3, <1>4, <1>5, StopsFinite, FS_AddElement
<1>6. CASE e \notin Stoppers
  <2>1. StopsIn(Append(q, e)) = StopsIn(q)
    BY <1>3, <1>6
  <2> QED
    BY <1>6, <2>1, StopsFinite
<1> QED
  BY <1>5, <1>6

LEMMA StopsTaken ==
  ASSUME NEW q \in Seq(Items), q # <<>>
  PROVE  Cardinality(StopsIn(q)) =
           Cardinality(StopsIn(Tail(q))) + (IF Head(q) \in Stoppers THEN 1 ELSE 0)
<1> DEFINE S == StopsIn(Tail(q))
           f == [i \in S |-> i + 1]
<1> PICK n \in Nat \ {0} : n = Len(q)
  OBVIOUS
<1>1. Tail(q) \in Seq(Items) /\ Head(q) = q[1]
  OBVIOUS
<1>2. Len(Tail(q)) = n - 1 /\ \A i \in 1..(n - 1) : Tail(q)[i] = q[i + 1]
  OBVIOUS
<1>3. S \subseteq 1..(n - 1)
  BY <1>2 DEF StopsIn
<1> DEFINE R == {i \in 2..n : q[i] \in Stoppers}
<1>4. f \in Bijection(S, R)
  <2>1. f \in [S -> R]
    <3>1. ASSUME NEW i \in S PROVE i + 1 \in R
      BY <1>2, <1>3 DEF StopsIn
    <3> QED
      BY <3>1
  <2>2. \A i, j \in S : f[i] = f[j] => i = j
    BY <1>3
  <2>3. ASSUME NEW k \in R PROVE \E i \in S : f[i] = k
    <3>1. k - 1 \in 1..(n - 1) /\ (k - 1) + 1 = k
      OBVIOUS
    <3>2. k - 1 \in S
      BY <1>2, <3>1 DEF StopsIn
    <3> QED
      BY <3>1, <3>2
  <2> QED
    BY <2>1, <2>2, <2>3, Fun_IsBij
<1>5. IsFiniteSet(S) /\ ExistsBijection(S, R)
  BY <1>1, <1>4, StopsFinite DEF ExistsBijection
<1>6. IsFiniteSet(R) /\ Cardinality(R) = Cardinality(S)
  BY <1>5, FS_Bijection
<1>7. StopsIn(q) = R \cup (IF Head(q) \in Stoppers THEN {1} ELSE {})
  BY <1>1 DEF StopsIn
<1>8. 1 \notin R
  OBVIOUS
<1>9. CASE Head(q) \in Stoppers
  <2>1. StopsIn(q) = R \cup {1}
    BY <1>7, <1>9
  <2>2. Cardinality(R \cup {1}) = Cardinality(R) + 1
    BY <1>6, <1>8, FS_AddElement
  <2> QED
    BY <1>6, <1>9, <2>1, <2>2
<1>10. CASE Head(q) \notin Stoppers
  <2>1. StopsIn(q) = R
    BY <1>7, <1>10
  <2>2. Cardinality(S) \in Nat
    BY <1>1, StopsFinite
  <2> QED
    BY <1>6, <1>10, <2>1, <2>2
<1> QED
  BY <1>9, <1>10

(* Stops and forwarders balance: every stop in the channel is for a running  *)
(* forwarder, for one still to come, or the one that shutdown left behind.   *)
StopCount(p) ==
  Cardinality(StopsIn(chan[p])) + (IF phase[p] = "idle" THEN 0 ELSE 1) =
    wg[p] + (IF closed[p] THEN 1 ELSE 0)

SInv == FInv /\ \A p \in Processors : StopCount(p)

LEMMA StopCountStep == SInv /\ [Next]_lvars => \A q \in Processors : StopCount(q)'
<1> SUFFICES ASSUME SInv, [Next]_lvars, NEW q \in Processors PROVE StopCount(q)'
  OBVIOUS
<1>0. /\ StopCount(q) /\ TypeOK
      /\ chan[q] \in Seq(Items) /\ wg[q] \in Nat /\ wg[q] <= 1
      /\ Cardinality(StopsIn(chan[q])) \in Nat
  <2>1. StopCount(q) /\ TypeOK /\ chan[q] \in Seq(Items) /\ wg[q] \in Nat
    BY DEF SInv, FInv, TypeOK, DTypeOK
  <2>2. wg[q] = 0 \/ wg[q] = 1
    BY DEF SInv, FInv, Forwarders, OneForwarder
  <2>3. Cardinality(StopsIn(chan[q])) \in Nat
    BY <2>1, StopsFinite
  <2>4. wg[q] <= 1
    BY <2>2
  <2> QED
    BY <2>1, <2>3, <2>4
<1>1. CASE UNCHANGED <<chan[q], phase[q], wg[q], closed[q]>>
  BY <1>0, <1>1 DEF StopCount
<1>2. ASSUME NEW p \in Processors, Queue(p) PROVE StopCount(q)'
  <2>1. CASE p = q
    <3>1. PICK d \in Data : chan'[q] = Append(chan[q], d)
      BY <1>0, <1>2, <2>1 DEF Queue, QueueData, TypeOK, DTypeOK
    <3>2. d \in Items /\ d \notin Stoppers
      BY DataAssumption DEF Items
    <3>3. Cardinality(StopsIn(chan'[q])) = Cardinality(StopsIn(chan[q]))
      BY <1>0, <3>1, <3>2, StopsAppended
    <3> QED
      BY <1>0, <1>2, <3>3 DEF StopCount, Queue, QueueData
  <2>2. CASE p # q
    BY <1>0, <1>1, <1>2, <2>2 DEF Queue, QueueData, TypeOK, DTypeOK
  <2> QED
    BY <2>1, <2>2
<1>3. ASSUME NEW p \in Processors, FunctionInvoked(p) \/ EnvironmentShutdown(p)
      PROVE  StopCount(q)'
  <2>1. CASE p = q
    <3>1. phase[q] = "idle" /\ phase'[q] # "idle" /\ UNCHANGED <<chan, closed>>
      BY <1>0, <1>3, <2>1
      DEF FunctionInvoked, EnvironmentShutdown, AtRest, StartForwardingData, TypeOK
    <3>2. wg'[q] = wg[q] + 1
      BY <1>0, <1>3, <2>1
      DEF FunctionInvoked, EnvironmentShutdown, StartForwardingData, TypeOK, DTypeOK
    <3> QED
      BY <1>0, <3>1, <3>2 DEF StopCount
  <2>2. CASE p # q
    BY <1>0, <1>1, <1>3, <2>2
    DEF FunctionInvoked, EnvironmentShutdown, StartForwardingData, TypeOK, DTypeOK
  <2> QED
    BY <2>1, <2>2
<1>4. ASSUME NEW p \in Processors, FunctionFinished(p) \/ Shutdown(p) PROVE StopCount(q)'
  <2>1. CASE p = q
    <3>1. PICK s \in Stoppers : StopForwardingData(q, s)
      BY <1>4, <2>1 DEF FunctionFinished, Shutdown, Stoppers
    <3>2. chan'[q] = Append(chan[q], s) /\ s \in Items /\ wg'[q] = wg[q]
      BY <1>0, <3>1 DEF StopForwardingData, TypeOK, DTypeOK, Items
    <3>3. Cardinality(StopsIn(chan'[q])) = Cardinality(StopsIn(chan[q])) + 1
      BY <1>0, <3>2, StopsAppended
    <3> QED
      BY <1>0, <1>4, <2>1, <3>2, <3>3 DEF StopCount, FunctionFinished, Shutdown, TypeOK
  <2>2. CASE p # q
    BY <1>0, <1>1, <1>4, <2>2
    DEF FunctionFinished, Shutdown, StopForwardingData, TypeOK, DTypeOK
  <2> QED
    BY <2>1, <2>2
<1>5. ASSUME NEW p \in Processors, Internal(p) PROVE StopCount(q)'
  <2>1. CASE ForwardData(p) /\ p = q
    <3>1. chan'[q] = Tail(chan[q]) /\ chan[q] # <<>> /\ Head(chan[q]) \notin Stoppers
      BY <1>0, <2>1, DataAssumption DEF ForwardData, TypeOK, DTypeOK
    <3>2. Tail(chan[q]) \in Seq(Items)
      BY <1>0, <3>1, SeqFacts
    <3>3. Cardinality(StopsIn(chan'[q])) = Cardinality(StopsIn(chan[q]))
      <4>1. Cardinality(StopsIn(Tail(chan[q]))) \in Nat
        BY <3>2, StopsFinite
      <4>2. Cardinality(StopsIn(chan[q])) = Cardinality(StopsIn(Tail(chan[q]))) + 0
        BY <1>0, <3>1, StopsTaken
      <4> QED
        BY <3>1, <4>1, <4>2
    <3> QED
      BY <1>0, <1>5, <2>1, <3>3 DEF StopCount, Internal, ForwardData
  <2>2. CASE ForwarderExits(p) /\ p = q
    <3>1. /\ chan'[q] = Tail(chan[q]) /\ chan[q] # <<>> /\ Head(chan[q]) \in Stoppers
          /\ wg'[q] = wg[q] - 1
      BY <1>0, <2>2 DEF ForwarderExits, TypeOK, DTypeOK
    <3>2. Tail(chan[q]) \in Seq(Items)
      BY <1>0, <3>1, SeqFacts
    <3>3. Cardinality(StopsIn(chan[q])) = Cardinality(StopsIn(chan'[q])) + 1
          /\ Cardinality(StopsIn(chan'[q])) \in Nat
      BY <1>0, <3>1, <3>2, StopsTaken, StopsFinite
    <3> QED
      BY <1>0, <1>5, <2>2, <3>1, <3>3 DEF StopCount, Internal
  <2>3. CASE ForwardData(p) /\ p # q
    BY <1>0, <1>1, <1>5, <2>3 DEF Internal, ForwardData, TypeOK, DTypeOK
  <2>4. CASE ForwarderExits(p) /\ p # q
    BY <1>0, <1>1, <1>5, <2>4 DEF Internal, ForwarderExits, TypeOK, DTypeOK
  <2>5. CASE \E d \in Data : ConsumeReturns(p, d)
    BY <1>0, <1>1, <1>5, <2>5 DEF Internal, ConsumeReturns
  <2>6. CASE \E s \in Stoppers : StopperStep(p, s)
    BY <1>0, <1>1, <1>5, <2>6 DEF Internal, StopperStep, StopWaits, WaitReturns, StopStates
  <2> QED
    BY <1>5, <2>1, <2>2, <2>3, <2>4, <2>5, <2>6 DEF Internal, ForwarderStep
<1>6. CASE UNCHANGED lvars
  BY <1>1, <1>6 DEF lvars, dvars
<1> QED
  BY <1>2, <1>3, <1>4, <1>5, <1>6 DEF Next

(* The balance is kept.                                                      *)
LEMMA StopsBalance == Safety => []SInv
<1>1. Init => SInv
  <2> SUFFICES ASSUME Init PROVE SInv
    OBVIOUS
  <2>1. FInv
    BY InitTypes DEF Init, DInit, FInv, Forwarders, OneForwarder, AtRest
  <2>2. StopsIn(<<>>) = {}
    BY DEF StopsIn
  <2>3. Cardinality(StopsIn(<<>>)) = 0
    BY <2>2, FS_EmptySet
  <2> QED
    BY <2>1, <2>3 DEF Init, DInit, SInv, StopCount
<1>2. SInv /\ [Next]_lvars => SInv'
  BY TypesStep, ForwardersStep, StopCountStep DEF SInv, FInv
<1> QED
  BY <1>1, <1>2, PTL DEF Safety

(* Between invocations the channel holds one stop after an early shutdown of *)
(* the component, and none before it: exports lag one invocation, not more.  *)
THEOREM LagIsOne == Safety => []OneStopLeftOver
<1>1. SInv => OneStopLeftOver
  <2> SUFFICES ASSUME SInv, NEW p \in Processors, AtRest(p)
               PROVE  Cardinality(StopsIn(chan[p])) = IF closed[p] THEN 1 ELSE 0
    BY DEF OneStopLeftOver
  <2>1. wg[p] = 0 /\ phase[p] = "idle" /\ StopCount(p)
    BY DEF SInv, FInv, Forwarders, OneForwarder, AtRest
  <2>2. Cardinality(StopsIn(chan[p])) \in Nat
    BY StopsFinite DEF SInv, FInv, TypeOK, DTypeOK
  <2> QED
    BY <2>1, <2>2 DEF StopCount
<1> QED
  BY <1>1, StopsBalance, PTL

(* A forwarder that runs during an invocation or at the shutdown, although   *)
(* the component is shut down, has its stop in the channel.                  *)
StopAhead ==
  \A p \in Processors :
    phase[p] # "idle" /\ closed[p] /\ inflight[p] # {} => StopsIn(chan[p]) # {}

LEMMA LateForwarderStops == Safety => []StopAhead
<1>1. SInv => StopAhead
  <2> SUFFICES ASSUME SInv, NEW p \in Processors,
                      phase[p] # "idle", closed[p], inflight[p] # {}
               PROVE  StopsIn(chan[p]) # {}
    BY DEF StopAhead
  <2>1. wg[p] = 1
    BY DEF SInv, FInv, Forwarders, OneForwarder
  <2>2. Cardinality(StopsIn(chan[p])) \in Nat
    BY StopsFinite DEF SInv, FInv, TypeOK, DTypeOK
  <2>3. Cardinality(StopsIn(chan[p])) = 1
    BY <2>1, <2>2 DEF SInv, StopCount
  <2> QED
    BY <2>3, FS_EmptySet
<1> QED
  BY <1>1, StopsBalance, PTL

------------------------------------------------------------------------------
(* What a stop has waited for.                                               *)

(* How much the pipeline has sent, how much is in the channel and how much   *)
(* has been handed to the exporter.                                          *)
Taken(p) == Len(sent[p])
Queued(p) == Len(chan[p])
Given(p) == Len(handed[p])

(* Elements of the channel are payloads not yet handed on and stops.         *)
Balance(p) ==
  Given(p) + Queued(p) + (IF phase[p] = "idle" THEN 0 ELSE 1) =
    Taken(p) + wg[p] + (IF closed[p] THEN 1 ELSE 0)

(* Were all calls of the collector in order?                                 *)
InOrder(p) == ~closed[p] \/ ~EarlyStop

(* The stop in the channel is behind what was sent before it; when there is  *)
(* no forwarder any more this has been handed on.                            *)
Marked(p) ==
  InOrder(p) =>
    /\ \A i \in 1..Queued(p) : chan[p][i] \in Stoppers => Given(p) + i = mark[p] + 1
    /\ (phase[p] = "idle" \/ closed[p]) /\ wg[p] = 0 => Given(p) >= mark[p]
    /\ closed[p] => phase[p] = "shutdown"
    /\ closed[p] /\ stop[p]["collector"] = "out" => wg[p] = 0

AllMarked == \A p \in Processors : Balance(p) /\ Marked(p)

MInv == SInv /\ AllMarked

(* What is appended to the channel is its last element, and what is taken    *)
(* leaves the others one place further ahead.                                *)
LEMMA Appended ==
  ASSUME NEW q \in Processors, chan[q] \in Seq(Items),
         NEW e \in Items, chan'[q] = Append(chan[q], e)
  PROVE  /\ Queued(q) \in Nat /\ Queued(q)' = Queued(q) + 1
         /\ chan'[q][Queued(q) + 1] = e
         /\ \A i \in 1..Queued(q) : chan'[q][i] = chan[q][i]
  BY DEF Queued

LEMMA Removed ==
  ASSUME NEW q \in Processors, chan[q] \in Seq(Items), chan[q] # <<>>,
         chan'[q] = Tail(chan[q])
  PROVE  /\ Queued(q) \in Nat /\ Queued(q) >= 1 /\ Queued(q)' = Queued(q) - 1
         /\ chan[q][1] = Head(chan[q])
         /\ \A i \in 1..(Queued(q) - 1) : chan'[q][i] = chan[q][i + 1]
  BY DEF Queued

LEMMA MarkedStep == MInv /\ [Next]_lvars => AllMarked'
<1> SUFFICES ASSUME MInv, [Next]_lvars, NEW q \in Processors PROVE Balance(q)' /\ Marked(q)'
  BY DEF AllMarked
<1>0. /\ Balance(q) /\ Marked(q) /\ TypeOK
      /\ chan[q] \in Seq(Items) /\ sent[q] \in Seq(Data) /\ handed[q] \in Seq(Data)
      /\ mark[q] \in Nat /\ wg[q] \in {0, 1} /\ (wg[q] = 0 => idle[q] = 0)
      /\ stop[q] \in [Stoppers -> StopStates]
      /\ Queued(q) \in Nat /\ Taken(q) \in Nat /\ Given(q) \in Nat
  <2>1. Balance(q) /\ Marked(q) /\ TypeOK /\ OneForwarder(q)
    BY DEF MInv, AllMarked, SInv, FInv, Forwarders
  <2>2. chan[q] \in Seq(Items) /\ sent[q] \in Seq(Data) /\ handed[q] \in Seq(Data)
    BY <2>1 DEF TypeOK, DTypeOK
  <2>3. Queued(q) \in Nat /\ Taken(q) \in Nat /\ Given(q) \in Nat
    BY <2>2 DEF Queued, Taken, Given
  <2> QED
    BY <2>1, <2>2, <2>3 DEF TypeOK, DTypeOK, OneForwarder
(* Before a stop is sent in order the channel holds payloads only.           *)
<1>a. phase[q] # "idle" /\ ~closed[q] =>
        /\ wg[q] = 1 /\ Given(q) + Queued(q) = Taken(q)
        /\ \A i \in 1..Queued(q) : chan[q][i] \notin Stoppers
  <2> SUFFICES ASSUME phase[q] # "idle", ~closed[q]
               PROVE  /\ wg[q] = 1 /\ Given(q) + Queued(q) = Taken(q)
                      /\ StopsIn(chan[q]) = {}
    BY DEF StopsIn, Queued
  <2>1. StopCount(q) /\ IsFiniteSet(StopsIn(chan[q])) /\ Cardinality(StopsIn(chan[q])) \in Nat
    BY <1>0, StopsFinite DEF MInv, SInv
  <2>2. wg[q] = 1 /\ Cardinality(StopsIn(chan[q])) = 0
    BY <1>0, <2>1 DEF StopCount
  <2>3. StopsIn(chan[q]) = {}
    BY <2>1, <2>2, FS_EmptySet
  <2>4. Given(q) + Queued(q) + 1 = Taken(q) + 1 + 0
    BY <1>0, <2>2 DEF Balance
  <2>5. Given(q) + Queued(q) = Taken(q)
    <3>1. Given(q) \in Nat /\ Queued(q) \in Nat /\ Taken(q) \in Nat
      BY <1>0
    <3> QED
      BY <2>4, <3>1
  <2> QED
    BY <2>2, <2>3, <2>5
<1>1. CASE UNCHANGED <<chan[q], phase[q], wg[q], closed[q], sent[q], handed[q], mark[q], stop[q]>>
  <2>1. Queued(q)' = Queued(q) /\ Taken(q)' = Taken(q) /\ Given(q)' = Given(q)
    BY <1>1 DEF Queued, Taken, Given
  <2> QED
    BY <1>0, <1>1, <2>1 DEF Balance, Marked, InOrder
<1>2. ASSUME NEW p \in Processors, Queue(p) PROVE Balance(q)' /\ Marked(q)'
  <2>1. CASE p = q
    <3>1. PICK d \in Data : /\ chan'[q] = Append(chan[q], d) /\ sent'[q] = Append(sent[q], d)
                            /\ UNCHANGED <<phase, wg, closed, handed, mark, stop>>
      BY <1>0, <1>2, <2>1 DEF Queue, QueueData, TypeOK, DTypeOK
    <3>2. d \in Items /\ d \notin Stoppers
      BY DataAssumption DEF Items
    <3>3. Taken(q)' = Taken(q) + 1 /\ Given(q)' = Given(q)
      BY <1>0, <3>1 DEF Taken, Given
    <3>4. /\ Queued(q)' = Queued(q) + 1
          /\ chan'[q][Queued(q) + 1] \notin Stoppers
          /\ \A i \in 1..Queued(q) : chan'[q][i] = chan[q][i]
      BY <1>0, <3>1, <3>2, Appended
    <3>5. Balance(q)'
      BY <1>0, <3>1, <3>3, <3>4 DEF Balance
    <3>6. Marked(q)'
      <4>1. \A i \in 1..Queued(q)' :
              chan'[q][i] \in Stoppers => i \in 1..Queued(q) /\ chan'[q][i] = chan[q][i]
        BY <1>0, <3>4
      <4> QED
        BY <1>0, <3>1, <3>3, <4>1 DEF Marked, InOrder
    <3> QED
      BY <3>5, <3>6
  <2>2. CASE p # q
    BY <1>1, <1>2, <2>2, <1>0 DEF Queue, QueueData, TypeOK, DTypeOK
  <2> QED
    BY <2>1, <2>2
<1>3. ASSUME NEW p \in Processors, FunctionInvoked(p) \/ EnvironmentShutdown(p)
      PROVE  Balance(q)' /\ Marked(q)'
  <2>1. CASE p = q
    <3>1. OneForwarder(q) /\ AtRest(q)
      BY <1>3, <2>1 DEF MInv, SInv, FInv, Forwarders, FunctionInvoked, EnvironmentShutdown
    <3>2. /\ phase[q] = "idle" /\ phase'[q] # "idle" /\ wg[q] = 0 /\ wg'[q] = 1
          /\ UNCHANGED <<chan, closed, sent, handed, mark, stop>>
      BY <1>0, <1>3, <2>1, <3>1
      DEF FunctionInvoked, EnvironmentShutdown, AtRest, StartForwardingData, OneForwarder,
          TypeOK, DTypeOK
    <3>3. Queued(q)' = Queued(q) /\ Taken(q)' = Taken(q) /\ Given(q)' = Given(q)
      BY <3>2 DEF Queued, Taken, Given
    <3>4. InOrder(q) => ~closed[q]
      BY <1>0, <3>2 DEF Marked
    <3> QED
      BY <1>0, <3>2, <3>3, <3>4 DEF Balance, Marked, InOrder
  <2>2. CASE p # q
    BY <1>0, <1>1, <1>3, <2>2
    DEF FunctionInvoked, EnvironmentShutdown, StartForwardingData, TypeOK, DTypeOK
  <2> QED
    BY <2>1, <2>2
<1>4. ASSUME NEW p \in Processors, FunctionFinished(p) \/ Shutdown(p)
      PROVE  Balance(q)' /\ Marked(q)'
  <2>1. CASE p = q
    <3>1. PICK s \in Stoppers : StopForwardingData(q, s)
      BY <1>4, <2>1 DEF FunctionFinished, Shutdown, Stoppers
    <3>2. /\ chan'[q] = Append(chan[q], s) /\ s \in Items /\ mark'[q] = Taken(q)
          /\ UNCHANGED <<wg, sent, handed>>
      BY <1>0, <3>1 DEF StopForwardingData, TypeOK, DTypeOK, Items, Taken
    <3>3. Taken(q)' = Taken(q) /\ Given(q)' = Given(q)
      BY <3>2 DEF Taken, Given
    <3>4. Queued(q)' = Queued(q) + 1 /\ \A i \in 1..Queued(q) : chan'[q][i] = chan[q][i]
      BY <1>0, <3>2, Appended
    <3>5. \/ phase[q] = "invoked" /\ phase'[q] = "idle" /\ closed'[q] = closed[q]
          \/ /\ ~closed[q] /\ closed'[q] /\ phase'[q] = phase[q]
             /\ EarlyStop \/ phase[q] = "shutdown"
             /\ stop'[q]["collector"] # "out"
      BY <1>0, <1>4, <2>1
      DEF FunctionFinished, Shutdown, StopForwardingData, TypeOK, DTypeOK, Stoppers
    <3>6. Balance(q)'
      BY <1>0, <3>2, <3>3, <3>4, <3>5 DEF Balance
    <3>7. Marked(q)'
      <4> SUFFICES ASSUME InOrder(q)' PROVE Marked(q)'
        BY DEF Marked
      <4>1. /\ ~closed[q] /\ phase[q] # "idle"
            /\ closed'[q] => phase'[q] = "shutdown" /\ stop'[q]["collector"] # "out"
        BY <1>0, <3>5 DEF InOrder, Marked
      <4>2. wg[q] = 1 /\ Given(q) + Queued(q) = Taken(q)
            /\ \A i \in 1..Queued(q) : chan[q][i] \notin Stoppers
        BY <1>a, <4>1
      <4>3. \A i \in 1..Queued(q)' : chan'[q][i] \in Stoppers => i = Queued(q) + 1
        BY <1>0, <3>4, <4>2
      <4>4. \A i \in 1..Queued(q)' :
              chan'[q][i] \in Stoppers => Given(q)' + i = mark'[q] + 1
        <5>1. Given(q) + (Queued(q) + 1) = Taken(q) + 1
          BY <1>0, <4>2
        <5> QED
          BY <3>2, <3>3, <4>3, <5>1
      <4>5. wg'[q] # 0
        BY <3>2, <4>2
      <4> QED
        BY <4>1, <4>4, <4>5 DEF Marked
    <3> QED
      BY <3>6, <3>7
  <2>2. CASE p # q
    BY <1>0, <1>1, <1>4, <2>2
    DEF FunctionFinished, Shutdown, StopForwardingData, TypeOK, DTypeOK
  <2> QED
    BY <2>1, <2>2
<1>5. ASSUME NEW p \in Processors, Internal(p) PROVE Balance(q)' /\ Marked(q)'
  <2>0. UNCHANGED <<phase, closed>>
    BY <1>5 DEF Internal
  <2>1. CASE ForwardData(p) /\ p = q
    <3>1. /\ chan'[q] = Tail(chan[q]) /\ chan[q] # <<>>
          /\ handed'[q] = Append(handed[q], Head(chan[q])) /\ Head(chan[q]) \in Data
          /\ UNCHANGED <<wg, stop, sent, mark>>
      BY <1>0, <2>1 DEF ForwardData, TypeOK, DTypeOK
    <3>2. wg[q] = 1
      BY <1>0, <2>1 DEF ForwardData
    <3>3. Taken(q)' = Taken(q) /\ Given(q)' = Given(q) + 1
      BY <1>0, <3>1 DEF Taken, Given
    <3>4. /\ Queued(q) >= 1 /\ Queued(q)' = Queued(q) - 1
          /\ \A i \in 1..(Queued(q) - 1) : chan'[q][i] = chan[q][i + 1]
      BY <1>0, <3>1, Removed
    <3>5. Balance(q)'
      BY <1>0, <2>0, <3>1, <3>3, <3>4 DEF Balance
    <3>6. Marked(q)'
      <4> SUFFICES ASSUME InOrder(q) PROVE Marked(q)'
        BY <2>0 DEF Marked, InOrder
      <4>1. \A i \in 1..Queued(q)' :
              i + 1 \in 1..Queued(q) /\ chan'[q][i] = chan[q][i + 1]
        BY <1>0, <3>4
      <4>2. \A i \in 1..Queued(q)' :
              chan'[q][i] \in Stoppers => Given(q)' + i = mark'[q] + 1
        <5> SUFFICES ASSUME NEW i \in 1..Queued(q)', chan'[q][i] \in Stoppers
                     PROVE  Given(q)' + i = mark'[q] + 1
          OBVIOUS
        <5>1. Given(q) + (i + 1) = mark[q] + 1
          BY <1>0, <4>1 DEF Marked
        <5> QED
          BY <1>0, <3>1, <3>3, <5>1
      <4>3. wg'[q] # 0 /\ stop' = stop /\ (closed'[q] => phase'[q] = "shutdown")
        BY <1>0, <2>0, <3>1, <3>2 DEF Marked
      <4>4. ~(closed'[q] /\ stop'[q]["collector"] = "out")
        BY <1>0, <2>0, <3>1, <3>2 DEF Marked
      <4> QED
        BY <4>2, <4>3, <4>4 DEF Marked
    <3> QED
      BY <3>5, <3>6
  <2>2. CASE ForwarderExits(p) /\ p = q
    <3>1. /\ chan'[q] = Tail(chan[q]) /\ chan[q] # <<>> /\ Head(chan[q]) \in Stoppers
          /\ wg'[q] = wg[q] - 1
          /\ UNCHANGED <<handed, sent, mark>>
      BY <1>0, <2>2 DEF ForwarderExits, TypeOK, DTypeOK
    <3>2. wg[q] = 1 /\ wg'[q] = 0
      BY <1>0, <2>2, <3>1 DEF ForwarderExits
    <3>3. Taken(q)' = Taken(q) /\ Given(q)' = Given(q)
      BY <3>1 DEF Taken, Given
    <3>4. /\ Queued(q) >= 1 /\ Queued(q)' = Queued(q) - 1 /\ chan[q][1] \in Stoppers
          /\ \A i \in 1..(Queued(q) - 1) : chan'[q][i] = chan[q][i + 1]
      BY <1>0, <3>1, Removed
    <3>5. Balance(q)'
      BY <1>0, <2>0, <3>1, <3>2, <3>3, <3>4 DEF Balance
    <3>6. Marked(q)'
      <4> SUFFICES ASSUME InOrder(q) PROVE Marked(q)'
        BY <2>0 DEF Marked, InOrder
      <4>1. \A i \in 1..Queued(q) : chan[q][i] \in Stoppers => Given(q) + i = mark[q] + 1
        BY <1>0 DEF Marked
      <4>2. Given(q) = mark[q]
        <5>1. 1 \in 1..Queued(q)
          BY <1>0, <3>4
        <5>2. Given(q) + 1 = mark[q] + 1
          BY <3>4, <4>1, <5>1
        <5> QED
          BY <1>0, <5>2
      <4>3. \A i \in 1..Queued(q)' : chan'[q][i] \notin Stoppers
        <5> SUFFICES ASSUME NEW i \in 1..Queued(q)', chan'[q][i] \in Stoppers PROVE FALSE
          OBVIOUS
        <5>1. i + 1 \in 1..Queued(q) /\ chan[q][i + 1] \in Stoppers
          BY <1>0, <3>4
        <5>2. Given(q) + (i + 1) = mark[q] + 1
          BY <4>1, <5>1
        <5> QED
          BY <1>0, <4>2, <5>2
      <4>4. Given(q)' >= mark'[q]
        BY <1>0, <3>1, <3>3, <4>2
      <4> QED
        BY <1>0, <2>0, <3>2, <4>3, <4>4 DEF Marked
    <3> QED
      BY <3>5, <3>6
  <2>3. CASE ForwardData(p) /\ p # q
    BY <1>0, <1>1, <2>0, <2>3 DEF ForwardData, TypeOK, DTypeOK
  <2>4. CASE ForwarderExits(p) /\ p # q
    BY <1>0, <1>1, <2>0, <2>4 DEF ForwarderExits, TypeOK, DTypeOK
  <2>5. CASE \E d \in Data : ConsumeReturns(p, d)
    BY <1>0, <1>1, <2>0, <2>5 DEF ConsumeReturns
  <2>6. ASSUME NEW s \in Stoppers, StopperStep(p, s) PROVE Balance(q)' /\ Marked(q)'
    <3>1. /\ UNCHANGED <<chan, wg, sent, handed, mark>>
          /\ stop'[q]["collector"] = "out" => stop[q]["collector"] = "out" \/ wg[q] = 0
      <4>1. PICK v \in {"out", "waiting", "panicked"} : MovesTo(p, s, v)
        BY <2>6, StopperMoves
      <4> QED
        BY <1>0, <4>1 DEF MovesTo, TypeOK, DTypeOK, Stoppers
    <3>2. Queued(q)' = Queued(q) /\ Taken(q)' = Taken(q) /\ Given(q)' = Given(q)
      BY <3>1 DEF Queued, Taken, Given
    <3> QED
      BY <1>0, <2>0, <3>1, <3>2 DEF Balance, Marked, InOrder
  <2> QED
    BY <1>5, <2>1, <2>2, <2>3, <2>4, <2>5, <2>6 DEF Internal, ForwarderStep
<1>6. CASE UNCHANGED lvars
  BY <1>1, <1>6 DEF lvars, dvars
<1> QED
  BY <1>2, <1>3, <1>4, <1>5, <1>6 DEF Next

LEMMA MarksKept == Safety => []MInv
<1>1. Init => AllMarked
  <2> SUFFICES ASSUME Init, NEW p \in Processors PROVE Balance(p) /\ Marked(p)
    BY DEF AllMarked
  <2>1. /\ chan[p] = <<>> /\ sent[p] = <<>> /\ handed[p] = <<>>
        /\ wg[p] = 0 /\ mark[p] = 0 /\ phase[p] = "idle" /\ ~closed[p]
    BY DEF Init, DInit
  <2>2. Queued(p) = 0 /\ Taken(p) = 0 /\ Given(p) = 0
    BY <2>1 DEF Queued, Taken, Given
  <2> QED
    BY <2>1, <2>2 DEF Balance, Marked
<1> QED
  BY <1>1, MarkedStep, StopsBalance, PTL DEF Safety, MInv

(* What was queued before FunctionFinished has been handed to the exporter   *)
(* when it has returned, as long as the component is not shut down.          *)
THEOREM RestIsFlushed == Safety => []FlushedAtRest
<1>1. MInv => FlushedAtRest
  BY DEF MInv, AllMarked, SInv, FInv, Forwarders, OneForwarder, Marked, InOrder, FlushedAtRest,
         AtRest, Given
<1> QED
  BY <1>1, MarksKept, PTL

(* Without early stops the same holds of the component's shutdown.           *)
FlushedAtShutdown ==
  \A p \in Processors :
    ~EarlyStop /\ closed[p] /\ stop[p]["collector"] = "out" => Len(handed[p]) >= mark[p]

LEMMA ShutdownFlushes == Safety => []FlushedAtShutdown
<1>1. MInv => FlushedAtShutdown
  BY DEF MInv, AllMarked, Marked, InOrder, FlushedAtShutdown, Given
<1> QED
  BY <1>1, MarksKept, PTL
=============================================================================
