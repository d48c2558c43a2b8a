--------------------------- MODULE HandlerProofs ---------------------------
(***************************************************************************)
(* What holds of the Node.js wrapper for any number of invocations,        *)
(* processes and calls of the callback, whatever the user's code does:     *)
(* types, the agreement of flag and promise, that the first decisive word  *)
(* is the answer, and that the wrapper is an AnswerOnce.                   *)
(***************************************************************************)
EXTENDS HandlerWrapper, TLAPS

-----------------------------------------------------------------------------
(* The first decisive event of invocation i has the outcome o. *)
First(i, o) ==
  \E k \in DOMAIN events[i] :
    /\ Decisive(events[i][k]) /\ events[i][k].outcome = o
    /\ \A j \in 1..(k - 1) : ~Decisive(events[i][j])

(* Is there a decisive word of the user's code among the events of i? *)
Spoken(i) == \E k \in DOMAIN events[i] :
               events[i][k].by # "load" /\ Decisive(events[i][k])

LoadFree(i) == \A k \in DOMAIN events[i] : events[i][k].by # "load"

(* The history of one invocation agrees with flag, promise and answer. *)
Agrees(i) ==
  /\ settled[i] <=> promise[i] # Nothing
  /\ settled[i] <=> Spoken(i)
  /\ promise[i] # Nothing => First(i, promise[i])
  /\ answer[i] \in Outcomes => First(i, answer[i])
  /\ pc[i] \in {"none", "loading"} => events[i] = <<>>
  /\ pc[i] = "rethrow" => First(i, LoadError)
  /\ pc[i] \in {"inside", "called", "answered"} => LoadFree(i)
  /\ pc[i] \in {"none", "loading", "inside", "called", "rethrow"} => answer[i] = Nothing

OneAtATime == \A i, j \in Invocations : InProgress(i) /\ InProgress(j) => i = j

HInv == TypeOK /\ OneAtATime /\ \A i \in Invocations : Agrees(i)

-----------------------------------------------------------------------------
(* Types. *)

Sources == {"load", "callback", "throw", "return", "promise"}

(* What Happens does to the histories. *)
LEMMA HappensFacts ==
  ASSUME TypeOK, NEW i \in Invocations, NEW by \in Sources, NEW o \in Outcomes,
         Happens(i, by, o)
  PROVE  /\ events' \in [Invocations -> Seq(Event)]
         /\ DOMAIN events'[i] = 1..(Len(events[i]) + 1)
         /\ events'[i][Len(events[i]) + 1] = [by |-> by, outcome |-> o]
         /\ \A k \in DOMAIN events[i] : events'[i][k] = events[i][k]
         /\ \A j \in Invocations : j # i => events'[j] = events[j]
<1> DEFINE e == [by |-> by, outcome |-> o]
<1>1. e \in Event
  BY DEF Event, Sources
<1>2. events[i] \in Seq(Event)
  BY DEF TypeOK
<1>3. /\ Append(events[i], e) \in Seq(Event)
      /\ DOMAIN Append(events[i], e) = 1..(Len(events[i]) + 1)
      /\ Append(events[i], e)[Len(events[i]) + 1] = e
      /\ \A k \in DOMAIN events[i] : Append(events[i], e)[k] = events[i][k]
  BY <1>1, <1>2
<1>4. events' = [events EXCEPT ![i] = Append(events[i], e)]
  BY DEF Happens
<1> QED
  BY <1>3, <1>4 DEF TypeOK

LEMMA InitTypes == Init => TypeOK
<1> SUFFICES ASSUME Init PROVE TypeOK
  OBVIOUS
<1>1. processes \in 0..MaxProcesses
  BY HWAssumption DEF Init
<1>2. events \in [Invocations -> Seq(Event)]
  <2>1. <<>> \in Seq(Event)
    OBVIOUS
  <2> QED
    BY <2>1, Zenon DEF Init
<1>3. /\ pc \in [Invocations -> {"none", "loading", "inside", "called", "rethrow", "answered", "failed", "gone"}]
      /\ user \in [Invocations -> UserPromises]
  BY DEF Init, UserPromises
<1> QED
  BY <1>1, <1>2, <1>3 DEF Init, TypeOK

LEMMA SettleTypes ==
  ASSUME TypeOK, NEW i \in Invocations, NEW o \in Results \cup Errors,
         Settle(i, o) \/ SettleUnlessSettled(i, o)
  PROVE  /\ settled' \in [Invocations -> BOOLEAN]
         /\ promise' \in [Invocations -> Results \cup Errors \cup {Nothing}]
  BY DEF TypeOK, SettleUnlessSettled, Settle, Fulfil, wrapper

LEMMA TypesStep == TypeOK /\ [Next]_vars => TypeOK'
<1> SUFFICES ASSUME TypeOK, [Next]_vars PROVE TypeOK'
  OBVIOUS
<1>1. CASE UNCHANGED vars
  BY <1>1 DEF vars, process, wrapper, TypeOK
<1>2. ASSUME NodeStep PROVE TypeOK'
  <2>1. CASE StartProcess
    <3>1. \E m \in {"absent", "importing", "loaded", "broken"} : module' = m /\ InitLoadBecomes(m)
      BY <2>1 DEF StartProcess, LoadNow, TypeOK
    <3>2. processes' \in 0..MaxProcesses
      BY <2>1, HWAssumption DEF StartProcess, TypeOK
    <3> QED
      BY <2>1, <3>1, <3>2 DEF StartProcess, InitLoadBecomes, TypeOK, wrapper
  <2>2. CASE ImportEnds
    BY <2>2 DEF ImportEnds, InitLoadBecomes, TypeOK, wrapper
  <2>3. CASE WarmUpEnds
    BY <2>3 DEF WarmUpEnds, TypeOK, wrapper
  <2>4. CASE ProcessEnds
    BY <2>4 DEF ProcessEnds, TypeOK, wrapper
  <2> QED
    BY <1>2, <2>1, <2>2, <2>3, <2>4 DEF NodeStep, Exit, TimeOut
<1>3. ASSUME NEW i \in Invocations, Invoke(i) PROVE TypeOK'
  BY <1>3 DEF Invoke, LoadNow, TypeOK, wrapper
<1>4. ASSUME NEW i \in Invocations, WrapperStep(i) PROVE TypeOK'
  <2>1. CASE LoadEnds(i)
    <3>1. events' \in [Invocations -> Seq(Event)]
      BY <2>1, HappensFacts DEF LoadEnds, TypeOK, Sources, Outcomes
    <3> QED
      BY <2>1, <3>1 DEF LoadEnds, TypeOK, process, wrapper
  <2>2. CASE ReactionFulfilled(i) \/ ReactionRejected(i)
    <3>1. events' \in [Invocations -> Seq(Event)]
      BY <2>2, HappensFacts DEF ReactionFulfilled, ReactionRejected, Reacts, TypeOK, Sources, Outcomes
    <3>2. /\ settled' \in [Invocations -> BOOLEAN]
          /\ promise' \in [Invocations -> Results \cup Errors \cup {Nothing}]
      BY <2>2, SettleTypes DEF ReactionFulfilled, ReactionRejected, TypeOK, wrapper
    <3> QED
      BY <2>2, <3>1, <3>2 DEF ReactionFulfilled, ReactionRejected, Reacts, TypeOK, process, UserPromises
  <2>3. CASE Answer(i)
    <3>1. answer' \in [Invocations -> Outcomes \cup {Nothing, Lost}]
      BY <2>3 DEF Answer, TypeOK, Outcomes
    <3> QED
      BY <2>3, <3>1 DEF Answer, TypeOK, process, wrapper
  <2> QED
    BY <1>4, <2>1, <2>2, <2>3 DEF WrapperStep
<1>5. ASSUME NEW i \in Invocations, UserStep(i) PROVE TypeOK'
  <2>1. ASSUME NEW e \in Errors, HandlerThrows(i, e) PROVE TypeOK'
    <3>1. events' \in [Invocations -> Seq(Event)]
      BY <2>1, HappensFacts DEF HandlerThrows, Sources, Outcomes
    <3> QED
      BY <2>1, <3>1, SettleTypes DEF HandlerThrows, HandlerReturned, TypeOK, process
  <2>2. ASSUME NEW o \in Results, HandlerReturnsValue(i, o) PROVE TypeOK'
    <3>1. events' \in [Invocations -> Seq(Event)]
      BY <2>2, HappensFacts DEF HandlerReturnsValue, Sources, Outcomes
    <3>2. /\ settled' \in [Invocations -> BOOLEAN]
          /\ promise' \in [Invocations -> Results \cup Errors \cup {Nothing}]
      BY <2>2, SettleTypes DEF HandlerReturnsValue, TypeOK, wrapper
    <3> QED
      BY <2>2, <3>1, <3>2 DEF HandlerReturnsValue, HandlerReturned, TypeOK, process
  <2>3. CASE HandlerReturnsPromise(i)
    BY <2>3 DEF HandlerReturnsPromise, HandlerReturned, TypeOK, process, wrapper, UserPromises
  <2>4. ASSUME NEW o \in Results \cup Errors, WrappedCallback(i, o) PROVE TypeOK'
    <3>1. events' \in [Invocations -> Seq(Event)]
      BY <2>4, HappensFacts DEF WrappedCallback, Sources, Outcomes
    <3> QED
      BY <2>4, <3>1, SettleTypes DEF WrappedCallback, TypeOK, process
  <2>5. ASSUME NEW o \in Results \cup Errors, UserSettles(i, o) PROVE TypeOK'
    BY <2>5 DEF UserSettles, TypeOK, process, wrapper, UserPromises
  <2> QED
    BY <1>5, <2>1, <2>2, <2>3, <2>4, <2>5 DEF UserStep, HandlerEnds
<1> QED
  BY <1>1, <1>2, <1>3, <1>4, <1>5 DEF Next

-----------------------------------------------------------------------------
(* Histories only grow, so that what came first stays first. *)
LEMMA FirstStays ==
  ASSUME TypeOK, NEW i \in Invocations, NEW by \in Sources, NEW o \in Outcomes,
         Happens(i, by, o), UNCHANGED expects,
         NEW j \in Invocations, NEW x, First(j, x)
  PROVE  First(j, x)'
<1>1. events[j] \in Seq(Event)
  BY DEF TypeOK
<1>2. DOMAIN events[j] = 1..Len(events[j]) /\ Len(events[j]) \in Nat
  BY <1>1
<1>3. PICK k \in DOMAIN events[j] :
        /\ Decisive(events[j][k]) /\ events[j][k].outcome = x
        /\ \A m \in 1..(k - 1) : ~Decisive(events[j][m])
  BY DEF First
<1>4. k \in DOMAIN events'[j] /\ \A m \in 1..k : events'[j][m] = events[j][m]
  <2>1. CASE j = i
    <3>1. \A m \in 1..k : m \in DOMAIN events[j]
      BY <1>2
    <3>2. DOMAIN events'[j] = 1..(Len(events[j]) + 1)
      BY <2>1, HappensFacts
    <3>3. k \in DOMAIN events'[j]
      BY <1>2, <3>2
    <3> QED
      BY <2>1, <3>1, <3>3, HappensFacts
  <2>2. CASE j # i
    BY <2>2, <1>2, HappensFacts
  <2> QED
    BY <2>1, <2>2
<1>5. \A m \in 1..(k - 1) : m \in 1..k
  BY <1>2
<1>6. k \in 1..k
  BY <1>2
<1> QED
  BY <1>3, <1>4, <1>5, <1>6 DEF First, Decisive

(* An event of the user's code is decisive, or else changes nothing. *)
LEMMA Speaks ==
  ASSUME TypeOK, NEW i \in Invocations, NEW by \in Sources \ {"load"}, NEW o \in Outcomes,
         Happens(i, by, o), UNCHANGED expects
  PROVE  /\ Spoken(i)' <=> Spoken(i) \/ (expects /\ o \in Results => by = "callback")
         /\ LoadFree(i) => LoadFree(i)'
<1>1. events[i] \in Seq(Event)
  BY DEF TypeOK
<1> PICK n \in Nat : n = Len(events[i]) + 1
  BY <1>1
<1>2. DOMAIN events[i] = 1..Len(events[i]) /\ Len(events[i]) \in Nat
  BY <1>1
<1>3. /\ DOMAIN events'[i] = DOMAIN events[i] \cup {n}
      /\ events'[i][n] = [by |-> by, outcome |-> o]
      /\ \A k \in DOMAIN events[i] : events'[i][k] = events[i][k]
  BY <1>2, HappensFacts
<1>4. Decisive(events[i][n])' <=> (expects /\ o \in Results => by = "callback")
  BY <1>3 DEF Decisive
<1>5. \A k \in DOMAIN events[i] : Decisive(events[i][k])' <=> Decisive(events[i][k])
  BY <1>3 DEF Decisive
<1>6. events'[i][n].by # "load"
  BY <1>3
<1> QED
  BY <1>3, <1>4, <1>5, <1>6 DEF Spoken, LoadFree, Decisive

(* The first decisive event of a history without any before it. *)
LEMMA FirstOfAll ==
  ASSUME TypeOK, NEW i \in Invocations, NEW by \in Sources, NEW o \in Outcomes,
         Happens(i, by, o), UNCHANGED expects,
         \A k \in DOMAIN events[i] : ~Decisive(events[i][k]),
         expects /\ o \in Results => by = "callback"
  PROVE  First(i, o)'
<1>1. events[i] \in Seq(Event)
  BY DEF TypeOK
<1> PICK n \in Nat : n = Len(events[i]) + 1
  BY <1>1
<1>2. /\ DOMAIN events[i] = 1..(n - 1) /\ n \in Nat
      /\ n \in 1..n
  BY <1>1
<1>3. /\ DOMAIN events'[i] = 1..n
      /\ events'[i][n] = [by |-> by, outcome |-> o]
      /\ \A k \in 1..(n - 1) : events'[i][k] = events[i][k]
  BY <1>2, HappensFacts
<1>4. Decisive(events[i][n])' /\ events'[i][n].outcome = o
  BY <1>3 DEF Decisive
<1>5. \A k \in 1..(n - 1) : ~Decisive(events[i][k])'
  BY <1>2, <1>3 DEF Decisive
<1> QED
  BY <1>2, <1>3, <1>4, <1>5 DEF First, Decisive

-----------------------------------------------------------------------------
(* Flag, promise and answer go with the history. *)

LEMMA Elsewhere ==
  ASSUME NEW j \in Invocations, Agrees(j),
         UNCHANGED <<expects, events[j], settled[j], promise[j], pc[j], answer[j]>>
  PROVE  Agrees(j)'
  BY DEF Agrees, First, Spoken, LoadFree, Decisive

(* What Settle does to flag and promise; of the others it leaves both alone. *)
LEMMA Settled ==
  ASSUME TypeOK, NEW i \in Invocations, NEW o \in Results \cup Errors,
         SettleUnlessSettled(i, o) \/ Settle(i, o),
         settled[i] <=> promise[i] # Nothing
  PROVE  /\ settled'[i] /\ promise'[i] = IF settled[i] THEN promise[i] ELSE o
         /\ \A j \in Invocations : j # i => UNCHANGED <<settled[j], promise[j]>>
<1>1. CASE settled[i] /\ SettleUnlessSettled(i, o)
  BY <1>1 DEF SettleUnlessSettled, wrapper
<1>2. CASE Settle(i, o)
  BY <1>2 DEF Settle, Fulfil, TypeOK
<1> QED
  BY <1>1, <1>2 DEF SettleUnlessSettled

(* The user's code says something: it settles, or is not decisive. *)
LEMMA Word ==
  ASSUME TypeOK, NEW i \in Invocations, Agrees(i),
         NEW by \in Sources \ {"load"}, NEW o \in Results \cup Errors,
         Happens(i, by, o), UNCHANGED <<expects, answer>>,
         pc[i] \in {"inside", "called", "answered"},
         pc'[i] \in {"called", pc[i]}, pc[i] = "answered" => UNCHANGED pc,
         IF expects /\ o \in Results => by = "callback"
         THEN SettleUnlessSettled(i, o) \/ Settle(i, o)
         ELSE UNCHANGED wrapper
  PROVE  Agrees(i)'
<1> DEFINE D == expects /\ o \in Results => by = "callback"
<1>1. o \in Outcomes /\ o # Nothing
  BY HWAssumption DEF Outcomes
<1>2. (Spoken(i)' <=> Spoken(i) \/ D) /\ LoadFree(i)'
  BY <1>1, Speaks DEF Agrees
<1>3. \A x : First(i, x) => First(i, x)'
  BY <1>1, FirstStays
<1>4. (answer[i] \in Outcomes => First(i, answer[i]))'
  BY <1>3 DEF Agrees, First
<1>p. /\ pc'[i] \in {"inside", "called", "answered"}
      /\ pc'[i] # "answered" => answer'[i] = Nothing
  BY DEF Agrees
<1>5. CASE D
  <2>1. settled'[i] /\ promise'[i] = IF settled[i] THEN promise[i] ELSE o
    BY <1>5, Settled DEF Agrees
  <2>2. ~settled[i] => First(i, o)'
    <3>1. SUFFICES ASSUME ~settled[i] PROVE First(i, o)'
      OBVIOUS
    <3>2. \A k \in DOMAIN events[i] : ~Decisive(events[i][k])
      BY <3>1 DEF Agrees, Spoken, LoadFree
    <3> QED
      BY <3>2, <1>1, <1>5, FirstOfAll
  <2>3. promise'[i] # Nothing /\ First(i, promise[i])'
    <3>1. CASE settled[i]
      <4>1. promise'[i] = promise[i] /\ promise[i] # Nothing
        BY <2>1, <3>1 DEF Agrees
      <4> QED
        BY <4>1, <1>3, <3>1 DEF Agrees, First
    <3>2. CASE ~settled[i]
      <4>1. promise'[i] = o
        BY <2>1, <3>2
      <4> QED
        BY <4>1, <1>1, <2>2, <3>2 DEF First
    <3> QED
      BY <3>1, <3>2
  <2> QED
    BY <1>2, <1>4, <1>p, <1>5, <2>1, <2>3 DEF Agrees
<1>6. CASE ~D
  <2>1. settled'[i] = settled[i] /\ promise'[i] = promise[i]
    BY <1>6 DEF wrapper
  <2>2. (promise[i] # Nothing => First(i, promise[i]))'
    BY <1>3, <2>1 DEF Agrees, First
  <2> QED
    BY <1>2, <1>4, <1>p, <1>6, <2>1, <2>2 DEF Agrees
<1> QED
  BY <1>5, <1>6

LEMMA AgreesStep == HInv /\ [Next]_vars => \A j \in Invocations : Agrees(j)'
<1> SUFFICES ASSUME HInv, [Next]_vars, NEW j \in Invocations PROVE Agrees(j)'
  OBVIOUS
<1>0. TypeOK /\ Agrees(j)
  BY DEF HInv
<1>1. CASE UNCHANGED vars
  BY <1>0, <1>1, Elsewhere DEF vars, process, wrapper
<1>2. ASSUME NodeStep PROVE Agrees(j)'
  <2>1. CASE StartProcess \/ ImportEnds \/ WarmUpEnds
    BY <1>0, <2>1, Elsewhere DEF StartProcess, ImportEnds, WarmUpEnds, wrapper
  <2>2. CASE ProcessEnds
    <3>1. pc'[j] \in {"none", "gone"} /\ (pc'[j] = "none" => pc[j] = "none")
      BY <2>2 DEF ProcessEnds
    <3>2. answer'[j] = IF InProgress(j) THEN Lost ELSE answer[j]
      BY <2>2 DEF ProcessEnds
    <3>3. Lost \notin Outcomes
      BY HWAssumption
    <3> QED
      BY <1>0, <2>2, <3>1, <3>2, <3>3
      DEF ProcessEnds, wrapper, Agrees, First, Spoken, LoadFree, Decisive, InProgress
  <2> QED
    BY <1>2, <2>1, <2>2 DEF NodeStep, Exit, TimeOut
<1>3. ASSUME NEW i \in Invocations, Invoke(i) PROVE Agrees(j)'
  <2>1. CASE j = i
    <3>1. pc[i] = "none" /\ pc'[i] = "loading"
      BY <1>0, <1>3 DEF Invoke, TypeOK
    <3> QED
      BY <1>0, <1>3, <2>1, <3>1
      DEF Invoke, wrapper, Agrees, First, Spoken, LoadFree, Decisive
  <2>2. CASE j # i
    BY <1>0, <1>3, <2>2, Elsewhere DEF Invoke, TypeOK, wrapper
  <2> QED
    BY <2>1, <2>2
<1>4. ASSUME NEW i \in Invocations, LoadEnds(i) PROVE Agrees(j)'
  <2>1. CASE j = i /\ module = "loaded"
    <3>1. pc[i] = "loading" /\ pc'[i] = "inside" /\ UNCHANGED events
      BY <1>0, <1>4, <2>1 DEF LoadEnds, TypeOK
    <3> QED
      BY <1>0, <1>4, <2>1, <3>1
      DEF LoadEnds, wrapper, Agrees, First, Spoken, LoadFree, Decisive
  <2>2. CASE j = i /\ module # "loaded"
    <3>1. pc[i] = "loading" /\ pc'[i] = "rethrow" /\ Happens(i, "load", LoadError)
      BY <1>0, <1>4, <2>2 DEF LoadEnds, TypeOK
    <3>2. events[i] = <<>> /\ answer[i] = Nothing /\ ~settled[i] /\ promise[i] = Nothing
      BY <1>0, <2>2, <3>1 DEF Agrees, Spoken
    <3>3. "load" \in Sources /\ LoadError \in Outcomes /\ LoadError \notin Results /\ Nothing \notin Outcomes
      BY HWAssumption DEF Sources, Outcomes
    <3>4. First(i, LoadError)'
      BY <1>0, <1>4, <3>1, <3>2, <3>3, FirstOfAll DEF LoadEnds
    <3>5. ~Spoken(i)'
      <4>1. Len(events[i]) = 0
        BY <3>2
      <4>2. DOMAIN events'[i] = 1..1 /\ events'[i][1] = [by |-> "load", outcome |-> LoadError]
        BY <1>0, <3>1, <3>3, <4>1, HappensFacts
      <4>3. \A k \in DOMAIN events'[i] : events'[i][k].by = "load"
        <5>1. \A k \in 1..1 : k = 1
          OBVIOUS
        <5> QED
          BY <4>2, <5>1
      <4> QED
        BY <4>3 DEF Spoken
    <3> QED
      BY <1>4, <2>2, <3>1, <3>2, <3>3, <3>4, <3>5 DEF LoadEnds, wrapper, Agrees
  <2>3. CASE j # i
    <3>1. events'[j] = events[j]
      BY <1>0, <1>4, <2>3, HappensFacts DEF LoadEnds, Sources, Outcomes
    <3> QED
      BY <1>0, <1>4, <2>3, <3>1, Elsewhere DEF LoadEnds, TypeOK, wrapper
  <2> QED
    BY <2>1, <2>2, <2>3
<1>5. ASSUME NEW i \in Invocations, Answer(i) PROVE Agrees(j)'
  <2>1. CASE j = i /\ pc[i] = "rethrow"
    <3>1. pc'[i] = "failed" /\ answer'[i] = LoadError
      BY <1>0, <1>5, <2>1 DEF Answer, TypeOK
    <3> QED
      BY <1>0, <1>5, <2>1, <3>1
      DEF Answer, wrapper, Agrees, First, Spoken, LoadFree, Decisive
  <2>2. CASE j = i /\ pc[i] = "called"
    <3>1. pc'[i] = "answered" /\ answer'[i] = promise[i] /\ promise[i] # Nothing
      BY <1>0, <1>5, <2>2 DEF Answer, TypeOK
    <3> QED
      BY <1>0, <1>5, <2>2, <3>1
      DEF Answer, wrapper, Agrees, First, Spoken, LoadFree, Decisive
  <2>3. CASE j # i
    BY <1>0, <1>5, <2>3, Elsewhere DEF Answer, TypeOK, wrapper
  <2> QED
    BY <1>5, <2>1, <2>2, <2>3 DEF Answer
<1>6. ASSUME NEW i \in Invocations, NEW by \in Sources \ {"load"}, NEW o \in Results \cup Errors,
             Happens(i, by, o), UNCHANGED <<expects, answer>>,
             pc[i] \in {"inside", "called", "answered"},
             pc' = pc \/ (pc[i] = "inside" /\ pc' = [pc EXCEPT ![i] = "called"]),
             IF expects /\ o \in Results => by = "callback"
             THEN SettleUnlessSettled(i, o) \/ Settle(i, o)
             ELSE UNCHANGED wrapper
      PROVE  Agrees(j)'
  <2>1. CASE j = i
    <3>1. pc'[i] \in {"called", pc[i]} /\ (pc[i] = "answered" => UNCHANGED pc)
      BY <1>0, <1>6 DEF TypeOK
    <3> QED
      BY <1>0, <1>6, <2>1, <3>1, Word
  <2>2. CASE j # i
    <3>1. events'[j] = events[j]
      BY <1>0, <1>6, <2>2, HappensFacts DEF Outcomes
    <3>2. UNCHANGED <<settled[j], promise[j]>>
      <4>1. settled[i] <=> promise[i] # Nothing
        BY DEF HInv, Agrees
      <4> QED
        BY <1>0, <1>6, <2>2, <4>1, Settled DEF wrapper
    <3>3. pc'[j] = pc[j]
      BY <1>0, <1>6, <2>2 DEF TypeOK
    <3> QED
      BY <1>0, <1>6, <3>1, <3>2, <3>3, Elsewhere
  <2> QED
    BY <2>1, <2>2
<1>7. ASSUME NEW i \in Invocations, ReactionFulfilled(i) PROVE Agrees(j)'
  BY <1>6, <1>7 DEF ReactionFulfilled, Reacts, Sources
<1>8. ASSUME NEW i \in Invocations, ReactionRejected(i) PROVE Agrees(j)'
  <2>1. user[i] \notin Results
    BY <1>8, HWAssumption DEF ReactionRejected
  <2> QED
    BY <1>6, <1>8, <2>1 DEF ReactionRejected, Reacts, Sources
<1>9. ASSUME NEW i \in Invocations, NEW e \in Errors, HandlerThrows(i, e) PROVE Agrees(j)'
  <2>1. e \notin Results
    BY HWAssumption
  <2> QED
    BY <1>6, <1>9, <2>1 DEF HandlerThrows, HandlerReturned, Sources
<1>10. ASSUME NEW i \in Invocations, NEW o \in Results, HandlerReturnsValue(i, o) PROVE Agrees(j)'
  BY <1>6, <1>10 DEF HandlerReturnsValue, HandlerReturned, Sources
<1>11. ASSUME NEW i \in Invocations, HandlerReturnsPromise(i) PROVE Agrees(j)'
  <2>1. CASE j = i
    <3>1. pc[i] = "inside" /\ pc'[i] = "called"
      BY <1>0, <1>11 DEF HandlerReturnsPromise, HandlerReturned, TypeOK
    <3> QED
      BY <1>0, <1>11, <2>1, <3>1
      DEF HandlerReturnsPromise, HandlerReturned, wrapper, Agrees, First, Spoken, LoadFree, Decisive
  <2>2. CASE j # i
    BY <1>0, <1>11, <2>2, Elsewhere DEF HandlerReturnsPromise, HandlerReturned, TypeOK, wrapper
  <2> QED
    BY <2>1, <2>2
<1>12. ASSUME NEW i \in Invocations, NEW o \in Results \cup Errors, WrappedCallback(i, o)
       PROVE  Agrees(j)'
  BY <1>6, <1>12 DEF WrappedCallback, Sources
<1>13. ASSUME NEW i \in Invocations, NEW o \in Results \cup Errors, UserSettles(i, o)
       PROVE  Agrees(j)'
  BY <1>0, <1>13, Elsewhere DEF UserSettles, wrapper
<1> QED
  BY <1>1, <1>2, <1>3, <1>4, <1>5, <1>7, <1>8, <1>9, <1>10, <1>11, <1>12, <1>13
  DEF Next, WrapperStep, UserStep, HandlerEnds

(* The runtime waits for one invocation at a time. *)
LEMMA OneAtATimeStep == HInv /\ [Next]_vars => OneAtATime'
<1> SUFFICES ASSUME HInv, [Next]_vars PROVE OneAtATime'
  OBVIOUS
<1>1. CASE \A i \in Invocations : InProgress(i)' => InProgress(i)
  BY <1>1 DEF HInv, OneAtATime
<1>2. ASSUME NEW i \in Invocations, Invoke(i) PROVE OneAtATime'
  <2>1. \A j \in Invocations : InProgress(j)' => j = i
    BY <1>2 DEF HInv, TypeOK, Invoke, InProgress
  <2> QED
    BY <2>1 DEF OneAtATime
<1>3. CASE UNCHANGED pc
  BY <1>1, <1>3 DEF InProgress
<1>4. CASE ProcessEnds
  BY <1>1, <1>4 DEF ProcessEnds, InProgress
<1>5. ASSUME NEW i \in Invocations, LoadEnds(i) \/ Answer(i) \/ HandlerReturned(i) PROVE OneAtATime'
  BY <1>1, <1>5 DEF HInv, TypeOK, LoadEnds, Answer, HandlerReturned, InProgress
<1> QED
  BY <1>2, <1>3, <1>4, <1>5
  DEF Next, vars, NodeStep, StartProcess, ImportEnds, WarmUpEnds, Exit, TimeOut,
      WrapperStep, ReactionFulfilled, ReactionRejected, Reacts, UserStep, HandlerEnds,
      HandlerThrows, HandlerReturnsValue, HandlerReturnsPromise, WrappedCallback, UserSettles

LEMMA HInvInvariant == Safety => []HInv
<1>1. Init => HInv
  <2>1. ASSUME Init PROVE OneAtATime /\ \A i \in Invocations : Agrees(i)
    BY <2>1, HWAssumption
    DEF Init, OneAtATime, InProgress, Agrees, Spoken, LoadFree, First
  <2> QED
    BY <2>1, InitTypes DEF HInv
<1>2. HInv /\ [Next]_vars => HInv'
  BY TypesStep, AgreesStep, OneAtATimeStep DEF HInv
<1> QED
  BY <1>1, <1>2, PTL DEF Safety

(* The variables of the wrapper keep their types. *)
THEOREM WrapperTypes == Safety => []TypeOK
  BY HInvInvariant, PTL DEF HInv

(* Flag and promise of an invocation agree, and it is settled exactly when a *)
(* decisive word of the user's code was heard.                               *)
THEOREM FlagAgrees == Safety => []SettledMeansDecided
<1>1. HInv => SettledMeansDecided
  BY DEF HInv, Agrees, Spoken, SettledMeansDecided
<1> QED
  BY <1>1, HInvInvariant, PTL

(* An answered invocation got its own first decisive event, whatever came    *)
(* later and whichever way.                                                  *)
THEOREM FirstWord == Safety => []FirstWordCounts
<1>1. HInv => FirstWordCounts
  BY DEF HInv, Agrees, First, FirstWordCounts
<1> QED
  BY <1>1, HInvInvariant, PTL

-----------------------------------------------------------------------------
(* The refinement: what the user's code said decisively is what it offered. *)

LEMMA OfferedKept ==
  ASSUME NEW j \in Invocations, UNCHANGED <<expects, events[j]>>
  PROVE  Offered(j)' = Offered(j)
  BY DEF Offered, Decisive

LEMMA OfferedGrows ==
  ASSUME TypeOK, NEW i \in Invocations, NEW by \in Sources, NEW o \in Outcomes,
         Happens(i, by, o), UNCHANGED expects
  PROVE  Offered(i)' = IF expects /\ o \in Results => by = "callback"
                       THEN Offered(i) \cup {o} ELSE Offered(i)
<1>1. events[i] \in Seq(Event)
  BY DEF TypeOK
<1> PICK n \in Nat : n = Len(events[i]) + 1
  BY <1>1
<1>2. DOMAIN events[i] = 1..Len(events[i]) /\ Len(events[i]) \in Nat
  BY <1>1
<1>3. /\ DOMAIN events'[i] = DOMAIN events[i] \cup {n}
      /\ events'[i][n] = [by |-> by, outcome |-> o]
      /\ \A k \in DOMAIN events[i] : events'[i][k] = events[i][k]
  BY <1>2, HappensFacts
<1> DEFINE Counts(e) == expects /\ e.outcome \in Results => e.by = "callback"
<1>4. \A x : x \in Offered(i)' <=>
        \E k \in DOMAIN events'[i] : Counts(events'[i][k]) /\ events'[i][k].outcome = x
  BY DEF Offered, Decisive
<1>5. \A x : x \in Offered(i) <=>
        \E k \in DOMAIN events[i] : Counts(events[i][k]) /\ events[i][k].outcome = x
  BY DEF Offered, Decisive
<1>6. \A k \in DOMAIN events[i] : Counts(events'[i][k]) <=> Counts(events[i][k])
  BY <1>3
<1>7. /\ Counts(events'[i][n]) <=> (expects /\ o \in Results => by = "callback")
      /\ events'[i][n].outcome = o
  BY <1>3
<1>8. \A x : x \in Offered(i)' <=>
        x \in Offered(i) \/ ((expects /\ o \in Results => by = "callback") /\ x = o)
  <2> HIDE DEF Counts
  <2> QED
    BY <1>3, <1>4, <1>5, <1>6, <1>7
<1> QED
  BY <1>8

(* The first decisive outcome is one that was offered. *)
LEMMA FirstIsOffered ==
  ASSUME NEW i \in Invocations, NEW x, First(i, x)
  PROVE  x \in Offered(i)
  BY DEF First, Offered

Offers == [i \in Invocations |-> Offered(i)]

LEMMA OnceStutters ==
  ASSUME UNCHANGED <<expects, events, answer>>
  PROVE  UNCHANGED <<Offers, answer>>
  BY OfferedKept DEF Offers

LEMMA OnceOffers ==
  ASSUME TypeOK, NEW i \in Invocations, NEW by \in Sources, NEW o \in Outcomes,
         Happens(i, by, o), UNCHANGED <<expects, answer>>
  PROVE  Once!Offer(i, o) \/ UNCHANGED <<Offers, answer>>
<1>1. \A j \in Invocations : j # i => Offered(j)' = Offered(j)
  BY HappensFacts, OfferedKept
<1>2. CASE Offered(i)' = Offered(i) \cup {o}
  <2>1. Offers' = [Offers EXCEPT ![i] = Offers[i] \cup {o}]
    BY <1>1, <1>2 DEF Offers
  <2> QED
    BY <2>1 DEF Once!Offer, Offers
<1>3. CASE Offered(i)' = Offered(i)
  BY <1>1, <1>3 DEF Offers
<1> QED
  BY <1>2, <1>3, OfferedGrows

LEMMA OnceStep == HInv /\ [Next]_vars => Once!Next \/ UNCHANGED <<Offers, answer>>
<1> DEFINE Goal == Once!Next \/ UNCHANGED <<Offers, answer>>
<1> SUFFICES ASSUME HInv, [Next]_vars PROVE Goal
  OBVIOUS
<1>0. TypeOK
  BY DEF HInv
<1>1. CASE UNCHANGED <<expects, events, answer>>
  BY <1>1, OnceStutters
<1>2. ASSUME NEW i \in Invocations, NEW by \in Sources, NEW o \in Outcomes,
             Happens(i, by, o), UNCHANGED <<expects, answer>>
      PROVE  Goal
  BY <1>0, <1>2, OnceOffers DEF Once!Next
<1>3. CASE ProcessEnds
  <2>1. UNCHANGED Offers
    BY <1>3, OfferedKept DEF ProcessEnds, Offers
  <2>2. CASE \A i \in Invocations : ~InProgress(i)
    <3>1. answer' = answer
      BY <1>0, <1>3, <2>2 DEF ProcessEnds, TypeOK
    <3> QED
      BY <2>1, <3>1
  <2>3. ASSUME NEW i \in Invocations, InProgress(i) PROVE Goal
    <3>1. \A j \in Invocations : InProgress(j) <=> j = i
      BY <2>3 DEF HInv, OneAtATime
    <3>2. answer' = [answer EXCEPT ![i] = Lost]
      BY <1>0, <1>3, <3>1 DEF ProcessEnds, TypeOK
    <3>3. answer[i] = Nothing
      BY <2>3 DEF HInv, Agrees, InProgress
    <3> QED
      BY <2>1, <3>2, <3>3 DEF Once!Next, Once!Lose, Offers
  <2> QED
    BY <2>2, <2>3
<1>4. ASSUME NEW i \in Invocations, Answer(i) PROVE Goal
  <2>1. UNCHANGED Offers
    BY <1>4, OfferedKept DEF Answer, Offers
  <2>2. answer[i] = Nothing /\ answer' = [answer EXCEPT ![i] = answer'[i]]
    BY <1>0, <1>4 DEF Answer, HInv, Agrees, TypeOK
  <2>3. answer'[i] \in Outcomes /\ answer'[i] \in Offered(i)
    <3>1. CASE pc[i] = "rethrow"
      <4>1. answer'[i] = LoadError /\ First(i, LoadError)
        BY <1>0, <1>4, <3>1 DEF Answer, HInv, Agrees, TypeOK
      <4> QED
        BY <4>1, FirstIsOffered DEF Outcomes
    <3>2. CASE pc[i] = "called"
      <4>1. answer'[i] = promise[i] /\ promise[i] # Nothing /\ First(i, promise[i])
        BY <1>0, <1>4, <3>2 DEF Answer, HInv, Agrees, TypeOK
      <4>2. promise[i] \in Offered(i)
        BY <4>1 DEF First, Offered
      <4> QED
        BY <1>0, <4>1, <4>2 DEF TypeOK, Outcomes
    <3> QED
      BY <1>4, <3>1, <3>2 DEF Answer
  <2>4. PICK o \in Outcomes : o = answer'[i]
    BY <2>3
  <2>5. Once!Answer(i, o)
    BY <2>1, <2>2, <2>3, <2>4 DEF Once!Answer, Offers
  <2> QED
    BY <2>5 DEF Once!Next
<1>5. ASSUME NEW i \in Invocations, LoadEnds(i) PROVE Goal
  BY <1>1, <1>2, <1>5 DEF LoadEnds, Sources, Outcomes
<1>6. ASSUME NEW i \in Invocations, Reacts(i) PROVE Goal
  BY <1>2, <1>6 DEF Reacts, Sources, Outcomes
<1>7. ASSUME NEW i \in Invocations, HandlerEnds(i) PROVE Goal
  BY <1>1, <1>2, <1>7
  DEF HandlerEnds, HandlerThrows, HandlerReturnsValue, HandlerReturnsPromise,
      HandlerReturned, Sources, Outcomes
<1>8. ASSUME NEW i \in Invocations, NEW o \in Results \cup Errors,
             WrappedCallback(i, o) \/ UserSettles(i, o)
      PROVE  Goal
  BY <1>1, <1>2, <1>8 DEF WrappedCallback, UserSettles, Sources, Outcomes
<1>9. CASE UNCHANGED vars
  BY <1>1, <1>9 DEF vars
<1>10. ASSUME NodeStep PROVE Goal
  BY <1>1, <1>3, <1>10 DEF NodeStep, StartProcess, ImportEnds, WarmUpEnds, Exit, TimeOut
<1>11. ASSUME NEW i \in Invocations, Invoke(i) PROVE Goal
  BY <1>1, <1>11 DEF Invoke
<1> QED
  BY <1>4, <1>5, <1>6, <1>7, <1>8, <1>9, <1>10, <1>11
  DEF Next, WrapperStep, ReactionFulfilled, ReactionRejected, UserStep

(* The wrapper is an AnswerOnce: every invocation is answered once at most,  *)
(* with an outcome its own handler decided on, or lost with its process.     *)
THEOREM WrapperImplementsAnswerOnce == Safety => IsAnswerOnce
<1>1. Init => Once!Init
  <2> SUFFICES ASSUME Init PROVE Once!Init
    OBVIOUS
  <2>1. \A i \in Invocations : Offered(i) = {}
    BY DEF Init, Offered
  <2> QED
    BY <2>1 DEF Init, Once!Init
<1>2. HInv /\ [Next]_vars => [Once!Next]_(Once!vars)
  BY OnceStep DEF Offers, Once!vars
<1> QED
  BY <1>1, <1>2, HInvInvariant, PTL DEF Safety, IsAnswerOnce, Once!Spec
=============================================================================
