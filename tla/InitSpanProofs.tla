--------------------------- MODULE InitSpanProofs ---------------------------
(***************************************************************************)
(* What holds of the receiver and the coldstart processor for any number   *)
(* of handlers and of the function's goroutines, any events and any spans: *)
(* types, and what the processor's fields and batches promise as long as   *)
(* no two goroutines are in the pipeline at once.                          *)
(***************************************************************************)
EXTENDS InitSpan, FiniteSetTheorems, TLAPS

(* Where a goroutine looks at the head of its batch.                         *)
Working == {"keep", "hold", "fillheld", "join", "joined", "store", "fillexec", "attach",
            "attached", "drop"}

Batches ==
  /\ exported \in Seq(Items)
  /\ feed \in Seq(Events) /\ calls \subseteq Seq(Spans)
  /\ \A t \in Threads :
       /\ step[t] \in Working => td[t] # <<>>
       /\ step[t] = "join" => exec # None
       /\ step[t] = "out" => td[t] = <<>> /\ kept[t] = <<>>
       /\ step[t] = "next" => td[t] = <<>>

TInv == TypeOK /\ Batches

-----------------------------------------------------------------------------
(* Sequences that grow at the end and shrink at the front keep their type.   *)
LEMMA SeqFacts ==
  ASSUME NEW S, NEW q \in Seq(S)
  PROVE  /\ \A r \in Seq(S) : q \o r \in Seq(S)
         /\ \A s \in S : Append(q, s) = q \o <<s>> /\ Append(q, s) \in Seq(S)
         /\ q # <<>> => Head(q) \in S /\ Tail(q) \in Seq(S) /\ q = <<Head(q)>> \o Tail(q)
         /\ \A k \in 1..Len(q) : SubSeq(q, 1, k) \in Seq(S) /\ SubSeq(q, k + 1, Len(q)) \in Seq(S)
         /\ \A s \in S : <<s>> \in Seq(S)
  OBVIOUS

LEMMA Widened ==
  ASSUME NEW S, NEW T, S \subseteq T, NEW q \in Seq(S)
  PROVE  q \in Seq(T)
  OBVIOUS

LEMMA Joined ==
  ASSUME NEW S, NEW q \in Seq(S), NEW r \in Seq(S), q # <<>> \/ r # <<>>
  PROVE  q \o r \in Seq(S) /\ q \o r # <<>>
<1>1. Len(q) > 0 \/ Len(r) > 0
  OBVIOUS
<1>2. Len(q \o r) = Len(q) + Len(r) /\ q \o r \in Seq(S)
  OBVIOUS
<1>3. Len(q \o r) > 0
  BY <1>1, <1>2
<1> QED
  BY <1>2, <1>3

LEMMA EmptySeqs == <<>> \in Seq(Items)
  OBVIOUS

(* The items that a call begins with: each span in its own trace.            *)
Plain(batch) == [i \in 1..Len(batch) |-> [span |-> batch[i], trace |-> batch[i]]]

LEMMA PlainItems ==
  ASSUME NEW batch \in Seq(Spans)
  PROVE  /\ Plain(batch) \in Seq(Items) /\ Len(Plain(batch)) = Len(batch)
         /\ \A i \in 1..Len(batch) : Plain(batch)[i] = [span |-> batch[i], trace |-> batch[i]]
<1>1. PICK n \in Nat : n = Len(batch) /\ \A i \in 1..n : batch[i] \in Spans
  OBVIOUS
<1>2. \A i \in 1..n : [span |-> batch[i], trace |-> batch[i]] \in Items
  BY <1>1 DEF Items
<1>3. Plain(batch) = [i \in 1..n |-> [span |-> batch[i], trace |-> batch[i]]]
  BY <1>1 DEF Plain
<1> QED
  BY <1>1, <1>2, <1>3

LEMMA JoiningItem ==
  ASSUME NEW x \in Spans \cup {Blank}, NEW y \in Spans \cup {Blank}
  PROVE  InTrace(x, y) \in Seq(Items)
<1>1. [span |-> x, trace |-> y] \in Items
  BY DEF Items
<1> QED
  BY <1>1 DEF InTrace

LEMMA RecordCount ==
  ASSUME NEW events \in Seq(Events)
  PROVE  CreateLogs(events) \in Nat
<1> DEFINE R == {i \in 1..Len(events) : events[i].type = "log"}
<1>1. IsFiniteSet(1..Len(events))
  <2>1. Len(events) \in Nat
    OBVIOUS
  <2> QED
    BY <2>1, FS_Interval
<1>2. R \subseteq 1..Len(events)
  OBVIOUS
<1>3. Cardinality(R) \in Nat
  BY <1>1, <1>2, FS_Subset, FS_CardinalityType
<1> QED
  BY <1>3 DEF CreateLogs

(* There is room for the receiver of each signal.                            *)
LEMMA FreshExists ==
  ASSUME RTypeOK, NEW n \in Signals, inst[n] = 0
  PROVE  GetOrAdd \in Instances
<1>1. \E i \in Instances : \A m \in Signals : inst[m] # i
  <2>1. PICK o \in {"traces", "logs"} : \A m \in Signals : m = n \/ m = o
    BY SignalsAssumption
  <2>2. CASE o \in Signals
    <3>1. inst[o] \in {0, 1, 2}
      BY <2>2 DEF RTypeOK, Instances
    <3>2. PICK i \in {1, 2} : i # inst[o]
      BY <3>1
    <3> QED
      BY <2>1, <3>2 DEF Instances
  <2>3. CASE o \notin Signals
    BY <2>1, <2>3 DEF Instances
  <2> QED
    BY <2>2, <2>3
<1>2. Fresh \in Instances
  BY <1>1 DEF Fresh
<1> QED
  BY <1>2 DEF GetOrAdd, RTypeOK

LEMMA TypesInit == Init => TInv
<1> SUFFICES ASSUME Init PROVE TInv
  OBVIOUS
<1>1. RTypeOK
  <2>1. startFailed \in BOOLEAN
    BY DEF Init, RInit
  <2>2. /\ shared = 0 /\ server = 0 /\ startTime = 0 /\ endTime = 0 /\ up = {}
        /\ inst = [n \in Signals |-> 0] /\ next = [i \in Instances |-> {}]
        /\ at = [h \in Handlers |-> "idle"]
        /\ logs = [h \in Handlers |-> 0] /\ left = [h \in Handlers |-> <<>>]
        /\ logged = [h \in Handlers |-> 0] /\ posted = [h \in Handlers |-> 0]
    BY DEF Init, RInit
  <2>3. <<>> \in Seq(Events)
    OBVIOUS
  <2> QED
    BY <2>1, <2>2, <2>3 DEF RTypeOK
<1>2. CTypeOK
  <2>1. /\ td \in [Threads -> Seq(Items)] /\ kept \in [Threads -> Seq(Items)]
        /\ step \in [Threads -> {"out"}]
    BY EmptySeqs DEF Init, CInit
  <2> QED
    BY <2>1 DEF Init, CInit, CTypeOK
<1>3. TypeOK
  <2>1. failures = 0 /\ accepted = {} /\ refused = {} /\ overlapped = FALSE
    BY DEF Init
  <2>2. failures \in 0..Failures
    BY <2>1, FailuresAssumption
  <2>3. accepted \subseteq Nat \X Nat /\ refused \subseteq Spans
    BY <2>1
  <2> QED
    BY <1>1, <1>2, <2>1, <2>2, <2>3 DEF TypeOK
<1>4. Batches
  <2>1. \A t \in Threads : step[t] = "out"
    BY DEF Init, CInit
  <2>2. Calls \subseteq Seq(Spans)
    <3>1. {s \in Spans : s.kind # "init"} \subseteq Spans
      OBVIOUS
    <3> QED
      BY <3>1, CallsAssumption, Widened
  <2>3. exported = <<>> /\ feed = Feed /\ calls = Calls
        /\ \A t \in Threads : td[t] = <<>> /\ kept[t] = <<>>
    BY DEF Init, CInit
  <2> QED
    BY <2>1, <2>2, <2>3, EmptySeqs, FeedAssumption DEF Batches, Working
<1> QED
  BY <1>3, <1>4 DEF TInv

(* The steps of a call of processTraces.                                     *)
LEMMA ProcessorTypes ==
  ASSUME TInv, NEW t \in Threads, ProcessorStep(t)
  PROVE  /\ CTypeOK'
         /\ \A u \in Threads : (step[u] \in Working => td[u] # <<>>)'
         /\ \A u \in Threads : (step[u] = "join" => exec # None)'
         /\ \A u \in Threads : (step[u] = "out" => td[u] = <<>> /\ kept[u] = <<>>)'
         /\ \A u \in Threads : (step[u] = "next" => td[u] = <<>>)'
<1> USE DEF TInv, TypeOK, CTypeOK, Batches, Working, Goto
<1>0. /\ td[t] \in Seq(Items) /\ kept[t] \in Seq(Items)
      /\ td[t] # <<>> => /\ Head(td[t]) \in Items /\ Tail(td[t]) \in Seq(Items)
                         /\ Visited(t) \in Spans \cup {Blank}
                         /\ Append(kept[t], Head(td[t])) \in Seq(Items)
  <2>1. td[t] \in Seq(Items) /\ kept[t] \in Seq(Items)
    OBVIOUS
  <2>2. td[t] # <<>> => Head(td[t]) \in Items /\ Tail(td[t]) \in Seq(Items)
    BY <2>1, SeqFacts
  <2> QED
    BY <2>1, <2>2, SeqFacts DEF Visited, Items
<1>n. None \notin Spans \cup {Blank}
  BY DEF None, Blank, Spans, ColdStarts
<1>1. ASSUME step[t] \in Working, Keep(t)
      PROVE  /\ step' \in [Threads -> {step[u] : u \in Threads} \cup {"look"}]
             /\ td' \in [Threads -> Seq(Items)] /\ kept' \in [Threads -> Seq(Items)]
             /\ \A u \in Threads : u # t => step'[u] = step[u] /\ td'[u] = td[u] /\ kept'[u] = kept[u]
             /\ step'[t] = "look"
  BY <1>0, <1>1 DEF Keep, Advance
<1>2. CASE Look(t)
  <2>1. Decide(Visited(t)) \in {"keep", "hold", "join", "store", "attach"}
        /\ (Decide(Visited(t)) = "join" => exec # None)
    BY DEF Decide
  <2> QED
    BY <1>0, <1>2, <2>1 DEF Look
<1>3. CASE KeepSpan(t)
  <2>1. step[t] \in Working /\ Keep(t) /\ UNCHANGED <<reported, held, exec>>
    BY <1>3 DEF KeepSpan
  <2> QED
    BY <1>1, <2>1
<1>4. CASE Hold(t)
  BY <1>4 DEF Hold
<1>5. CASE FillHeld(t)
  BY <1>0, <1>5 DEF FillHeld, Advance
<1>6. CASE Join(t)
  <2>1. InTrace(Visited(t), exec) \o Tail(td[t]) \in Seq(Items)
        /\ InTrace(Visited(t), exec) \o Tail(td[t]) # <<>>
    <3>1. InTrace(Visited(t), exec) \in Seq(Items) /\ td[t] # <<>>
      BY <1>0, <1>6, JoiningItem DEF Join
    <3>2. InTrace(Visited(t), exec) # <<>>
      BY DEF InTrace
    <3> QED
      BY <1>0, <3>1, <3>2, Joined
  <2> QED
    BY <1>6, <2>1 DEF Join
<1>7. CASE Store(t)
  BY <1>7 DEF Store, Blank, None
<1>8. CASE FillExec(t)
  <2>1. step[t] \in Working /\ Keep(t) /\ UNCHANGED <<reported, held>> /\ exec' = Visited(t)
    BY <1>8 DEF FillExec
  <2>2. Visited(t) \in Spans \cup {Blank} /\ Visited(t) # None
    BY <1>0, <1>n, <2>1
  <2> QED
    BY <1>1, <2>1, <2>2
<1>9. CASE Attach(t)
  <2>1. td[t] \o InTrace(held, Visited(t)) \in Seq(Items)
        /\ td[t] \o InTrace(held, Visited(t)) # <<>>
    <3>1. InTrace(held, Visited(t)) \in Seq(Items)
      BY <1>0, <1>9, JoiningItem DEF Attach
    <3> QED
      BY <1>0, <1>9, <3>1, Joined DEF Attach
  <2> QED
    BY <1>9, <2>1 DEF Attach
<1>10. CASE NilDereference(t) \/ Report(t) \/ Processed(t)
  BY <1>10 DEF NilDereference, Report, Processed
<1>11. CASE DropHeld(t)
  <2>1. step[t] \in Working /\ Keep(t) /\ UNCHANGED <<reported, exec>> /\ held' = None
    BY <1>11 DEF DropHeld
  <2> QED
    BY <1>1, <2>1
<1> QED
  BY <1>2, <1>3, <1>4, <1>5, <1>6, <1>7, <1>8, <1>9, <1>10, <1>11 DEF ProcessorStep

LEMMA ReturnTypes ==
  ASSUME TInv, NEW t \in Threads, NEW ok \in BOOLEAN, Return(t, ok)
  PROVE  RTypeOK' /\ (accepted \subseteq Nat \X Nat)'
<1>1. CASE t \in Servers
  BY <1>1 DEF TInv, TypeOK, RTypeOK, Return, rvars
<1>2. CASE t \notin Servers
  <2>1. Consumed(t, ok) /\ t \in Handlers
    BY <1>2 DEF Return, Servers
  <2>2. RTypeOK'
    BY <2>1 DEF TInv, TypeOK, RTypeOK, Consumed, GotoHandler
  <2>3. <<startTime, endTime>> \in Nat \X Nat
    BY DEF TInv, TypeOK, RTypeOK
  <2>4. accepted' \subseteq accepted \cup {<<startTime, endTime>>}
    BY <1>2 DEF Return
  <2> QED
    BY <2>2, <2>3, <2>4 DEF TInv, TypeOK
<1> QED
  BY <1>1, <1>2

LEMMA TypesStep == TInv /\ [Next]_vars => TInv'
<1> SUFFICES ASSUME TInv, [Next]_vars PROVE TInv'
  OBVIOUS
<1>1. ASSUME NEW n \in Signals, Create(n) \/ Start(n) \/ Shutdown(n) PROVE TInv'
  <2>1. UNCHANGED <<cdvars, ivars>>
    BY <1>1 DEF Create, Start, Shutdown
  <2>2. RTypeOK'
    <3>1. CASE CreateReceiver(n)
      BY <3>1, FreshExists DEF CreateReceiver, RTypeOK, TInv, TypeOK
    <3>2. CASE (\E ok \in BOOLEAN : StartReceiver(n, ok)) \/ ShutdownReceiver(n)
      BY <3>2 DEF StartReceiver, ShutdownReceiver, RTypeOK, TInv, TypeOK
    <3> QED
      BY <1>1, <3>1, <3>2 DEF Create, Start, Shutdown
  <2> QED
    BY <2>1, <2>2 DEF TInv, TypeOK, CTypeOK, Batches, cdvars, ivars
<1>2. ASSUME NEW h \in Handlers, Post(h) PROVE TInv'
  <2>1. PICK k \in 1..Len(feed) : /\ HandlePost(h, SubSeq(feed, 1, k))
                                  /\ feed' = SubSeq(feed, k + 1, Len(feed))
    BY <1>2 DEF Post
  <2>2. SubSeq(feed, 1, k) \in Seq(Events) /\ feed' \in Seq(Events)
    BY <2>1, SeqFacts DEF TInv, Batches
  <2>3. CreateLogs(SubSeq(feed, 1, k)) \in Nat
    BY <2>2, RecordCount
  <2>4. RTypeOK'
    BY <2>1, <2>2, <2>3 DEF HandlePost, GotoHandler, TInv, TypeOK, RTypeOK
  <2> QED
    BY <1>2, <2>2, <2>4 DEF Post, Enter, TInv, TypeOK, CTypeOK, Batches, cdvars
<1>3. ASSUME NEW h \in Handlers, Handler(h) PROVE TInv'
  <2>1. UNCHANGED <<cdvars, ivars>>
    BY <1>3 DEF Handler
  <2>2. RTypeOK'
    <3>1. CASE RecordEvent(h)
      <4>1. Head(left[h]) \in Events /\ Tail(left[h]) \in Seq(Events)
        BY <3>1, SeqFacts DEF RecordEvent, TInv, TypeOK, RTypeOK
      <4>2. Head(left[h]).of \in Nat
        BY <4>1 DEF Events
      <4> QED
        BY <3>1, <4>1, <4>2 DEF RecordEvent, TInv, TypeOK, RTypeOK
    <3>2. CASE NoInitSpan(h) \/ TornRead(h) \/ ClearTimes(h)
      <4>1. /\ at' \in [Handlers -> {"idle", "record", "consume", "clear", "logs", "panicked"}]
            /\ startTime' \in Nat /\ endTime' \in Nat
            /\ UNCHANGED <<shared, inst, next, up, startFailed, server, logs, left, logged,
                           posted>>
        <5>1. CASE NoInitSpan(h)
          BY <5>1 DEF NoInitSpan, GotoHandler, TInv, TypeOK, RTypeOK
        <5>2. CASE TornRead(h)
          BY <5>2 DEF TornRead, GotoHandler, TInv, TypeOK, RTypeOK
        <5>3. CASE ClearTimes(h)
          BY <5>3 DEF ClearTimes, GotoHandler, TInv, TypeOK, RTypeOK
        <5> QED
          BY <3>2, <5>1, <5>2, <5>3
      <4> QED
        BY <4>1 DEF TInv, TypeOK, RTypeOK
    <3>3. CASE ConsumeLogs(h)
      BY <3>3 DEF ConsumeLogs, GotoHandler, TInv, TypeOK, RTypeOK
    <3> QED
      BY <1>3, <3>1, <3>2, <3>3 DEF Handler
  <2> QED
    BY <2>1, <2>2 DEF TInv, TypeOK, CTypeOK, Batches, cdvars, ivars
<1>4. ASSUME NEW h \in Handlers, SendInitSpan(h) PROVE TInv'
  <2>1. Plain(<<[kind |-> "init", of |-> startTime]>>) \in Seq(Items)
    <3>1. <<[kind |-> "init", of |-> startTime]>> \in Seq(Spans)
      BY DEF Spans, ColdStarts, TInv, TypeOK, RTypeOK
    <3> QED
      BY <3>1, PlainItems
  <2>2. RTypeOK' /\ UNCHANGED ivars
    BY <1>4 DEF SendInitSpan, CreatePlatformInitSpan, GotoHandler, TInv, TypeOK, RTypeOK
  <2>3. h \in Threads
    BY HandlersAssumption
  <2> QED
    BY <1>4, <2>1, <2>2, <2>3, EmptySeqs
    DEF SendInitSpan, ProcessTraces, Plain, Goto, TInv, TypeOK, CTypeOK, Batches, Working, ivars
<1>5. ASSUME NEW s \in Servers, Call(s) PROVE TInv'
  <2>1. PICK batch \in calls : ProcessTraces(s, batch) /\ calls' = calls \ {batch}
    BY <1>5 DEF Call
  <2>3. Plain(batch) \in Seq(Items) /\ calls' \subseteq Seq(Spans)
    BY <2>1, PlainItems DEF TInv, Batches
  <2>2. RTypeOK' /\ UNCHANGED <<feed, failures, exported, refused, accepted>>
    BY <1>5 DEF Call, rvars, TInv, TypeOK, RTypeOK
  <2> QED
    BY <1>5, <2>1, <2>2, <2>3, EmptySeqs
    DEF Call, Enter, ProcessTraces, Plain, Goto, Servers, TInv, TypeOK, CTypeOK, Batches, Working
<1>6. ASSUME NEW t \in Threads, Process(t) PROVE TInv'
  <2>1. RTypeOK' /\ (accepted \subseteq Nat \X Nat)'
    BY <1>6, ReturnTypes DEF Process, TInv, TypeOK, RTypeOK, rvars
  <2>2. (refused \subseteq Spans)'
    BY <1>6 DEF Process, Fails, TInv, TypeOK
  <2> QED
    BY <1>6, <2>1, <2>2, ProcessorTypes DEF Process, TInv, TypeOK, Batches
<1>7. ASSUME NEW t \in Threads, Export(t) \/ Refuse(t) PROVE TInv'
  <2>1. RTypeOK' /\ (accepted \subseteq Nat \X Nat)'
    BY <1>7, ReturnTypes DEF Export, Refuse
  <2>2. NextReturns(t) /\ UNCHANGED <<feed, calls, overlapped>>
    BY <1>7 DEF Export, Refuse
  <2>3. /\ step' \in [Threads -> {step[u] : u \in Threads} \cup {"out"}]
        /\ \A u \in Threads : step'[u] = step[u] \/ step'[u] = "out"
    BY <2>2 DEF NextReturns, Goto, TInv, TypeOK, CTypeOK
  <2>4. CTypeOK' /\ UNCHANGED <<exec, td>>
    <3>1. kept' \in [Threads -> Seq(Items)]
      BY <2>2, EmptySeqs DEF NextReturns, TInv, TypeOK, CTypeOK
    <3> QED
      BY <2>2, <3>1 DEF NextReturns, Goto, TInv, TypeOK, CTypeOK
  <2>5. exported' \in Seq(Items)
    <3>1. kept[t] \in Seq(Items) /\ exported \in Seq(Items)
      BY DEF TInv, TypeOK, CTypeOK, Batches
    <3>2. exported' = exported \o kept[t] \/ exported' = exported
      BY <1>7 DEF Export, Refuse
    <3>3. exported \o kept[t] \in Seq(Items)
      BY <3>1
    <3> QED
      BY <3>1, <3>2, <3>3
  <2>6. (failures \in 0..Failures)'
    <3>1. \/ failures' = failures
          \/ failures < Failures /\ failures' = failures + 1
      <4>1. CASE Export(t)
        BY <4>1 DEF Export
      <4>2. CASE Refuse(t)
        BY <4>2 DEF Refuse
      <4> QED
        BY <1>7, <4>1, <4>2
    <3>2. failures \in 0..Failures
      BY DEF TInv, TypeOK
    <3> QED
      BY <3>1, <3>2, FailuresAssumption
  <2>7. (refused \subseteq Spans)'
    <3>1. CASE Export(t)
      BY <3>1 DEF Export, TInv, TypeOK
    <3>2. CASE Refuse(t)
      BY <3>2 DEF Refuse, Fails, TInv, TypeOK
    <3> QED
      BY <1>7, <3>1, <3>2
  <2>8. Batches'
    <3>1. \A u \in Threads : /\ kept'[u] = kept[u] \/ kept'[u] = <<>>
                             /\ step'[u] = "out" => td'[u] = <<>> /\ kept'[u] = <<>>
      BY <2>2 DEF NextReturns, Goto, TInv, TypeOK, CTypeOK, Batches
    <3> QED
      BY <2>2, <2>3, <2>4, <2>5, <3>1 DEF TInv, Batches, Working
  <2>9. TypeOK'
    BY <2>1, <2>2, <2>4, <2>6, <2>7 DEF TInv, TypeOK
  <2> QED
    BY <2>8, <2>9 DEF TInv
<1>8. CASE UNCHANGED vars
  BY <1>8 DEF vars, rvars, cdvars, ivars, TInv, TypeOK, RTypeOK, CTypeOK, Batches
<1> QED
  BY <1>1, <1>2, <1>3, <1>4, <1>5, <1>6, <1>7, <1>8 DEF Next

LEMMA TypesInvariant == Spec => []TInv
  BY TypesInit, TypesStep, PTL DEF Spec

(* Receiver and processor keep their types, and no field that may be nil is  *)
(* copied into a batch.                                                      *)
THEOREM SpanTypes == Spec => []TypeOK
<1>1. TInv => TypeOK
  BY DEF TInv
<1> QED
  BY <1>1, TypesInvariant, PTL
-----------------------------------------------------------------------------
(* The second invariant: what the processor's fields, the batches that are   *)
(* processed and those that have left say, as long as no two goroutines have *)
(* overlapped.                                                               *)
NoLinks(q) == \A i \in 1..Len(q) : ~IsLinked(q[i])
OneLink(q) == \A i, j \in 1..Len(q) : IsLinked(q[i]) /\ IsLinked(q[j]) => i = j

(* A handler that is in the processor waits for ConsumeTraces.               *)
Waits == \A h \in Handlers : step[h] # "out" => at[h] = "consume"

Alone == \A t, u \in Active : t = u

(* No goroutine has panicked.                                                *)
Unhurt == (\A t \in Threads : step[t] # "panicked") /\ \A h \in Handlers : at[h] # "panicked"

(* Who is about to write a field or to report found the other field nil and  *)
(* nothing reported.                                                         *)
Writers == {"hold", "fillheld", "join", "joined", "store", "fillexec", "attach", "attached"}
Fields ==
  /\ ~reported => held = None \/ exec = None
  /\ \A t \in Threads :
       /\ step[t] \in Writers => ~reported
       /\ step[t] \in {"hold", "fillheld"} => exec = None
       /\ step[t] \in {"store", "fillexec"} => held = None
       /\ step[t] \in {"fillheld", "attach"} => held # None

(* There is one link at most, and before the processor has reported only     *)
(* where it is about to.                                                     *)
Links ==
  /\ OneLink(exported)
  /\ \A t \in Threads :
       /\ OneLink(kept[t]) /\ OneLink(td[t])
       /\ NoLinks(kept[t]) \/ NoLinks(td[t])
       /\ NoLinks(exported) \/ (NoLinks(kept[t]) /\ NoLinks(td[t]))
       /\ ~reported => /\ NoLinks(exported) /\ NoLinks(kept[t])
                       /\ NoLinks(td[t]) \/ step[t] \in {"joined", "attached"}

LInv == TInv /\ Waits /\ (~overlapped => Alone /\ Unhurt /\ Fields /\ Links)

LEMMA LinkFacts ==
  ASSUME NEW q \in Seq(Items), NEW r \in Seq(Items)
  PROVE  /\ NoLinks(q) => OneLink(q)
         /\ NoLinks(q) /\ NoLinks(r) => NoLinks(q \o r)
         /\ NoLinks(q) /\ OneLink(r) => OneLink(q \o r)
         /\ OneLink(q) /\ NoLinks(r) => OneLink(q \o r)
<1>1. /\ Len(q) \in Nat /\ Len(r) \in Nat /\ Len(q \o r) = Len(q) + Len(r)
      /\ \A i \in 1..Len(q \o r) :
           (q \o r)[i] = IF i <= Len(q) THEN q[i] ELSE r[i - Len(q)]
  OBVIOUS
<1>2. \A i \in 1..Len(q \o r) : i <= Len(q) => i \in 1..Len(q)
  BY <1>1
<1>3. \A i \in 1..Len(q \o r) : ~(i <= Len(q)) => i - Len(q) \in 1..Len(r)
  BY <1>1
<1>4. \A i \in 1..Len(q \o r) : i \in 1..Len(q) \/ i - Len(q) \in 1..Len(r)
  BY <1>2, <1>3
<1>5. ASSUME NoLinks(q), NoLinks(r) PROVE NoLinks(q \o r)
  BY <1>1, <1>2, <1>3, <1>5 DEF NoLinks
<1>6. ASSUME NoLinks(q), OneLink(r) PROVE OneLink(q \o r)
  <2>1. SUFFICES ASSUME NEW i \in 1..Len(q \o r), NEW j \in 1..Len(q \o r),
                        IsLinked((q \o r)[i]), IsLinked((q \o r)[j])
                 PROVE  i = j
    BY DEF OneLink
  <2>2. /\ ~(i <= Len(q)) /\ IsLinked(r[i - Len(q)])
        /\ ~(j <= Len(q)) /\ IsLinked(r[j - Len(q)])
    BY <1>1, <1>2, <1>6, <2>1 DEF NoLinks
  <2>3. i - Len(q) = j - Len(q)
    BY <1>3, <1>6, <2>2 DEF OneLink
  <2> QED
    BY <1>1, <2>3
<1>7. ASSUME OneLink(q), NoLinks(r) PROVE OneLink(q \o r)
  <2>1. SUFFICES ASSUME NEW i \in 1..Len(q \o r), NEW j \in 1..Len(q \o r),
                        IsLinked((q \o r)[i]), IsLinked((q \o r)[j])
                 PROVE  i = j
    BY DEF OneLink
  <2>2. i <= Len(q) /\ j <= Len(q) /\ IsLinked(q[i]) /\ IsLinked(q[j])
    BY <1>1, <1>3, <1>7, <2>1 DEF NoLinks
  <2> QED
    BY <1>2, <1>7, <2>2 DEF OneLink
<1>8. NoLinks(q) => OneLink(q)
  BY DEF NoLinks, OneLink
<1> QED
  BY <1>5, <1>6, <1>7, <1>8

LEMMA SingleLink ==
  /\ NoLinks(<<>>) /\ OneLink(<<>>)
  /\ \A x \in Items : OneLink(<<x>>) /\ (~IsLinked(x) => NoLinks(<<x>>))
<1>1. ASSUME NEW x \in Items PROVE OneLink(<<x>>)
  <2>1. Len(<<x>>) = 1
    OBVIOUS
  <2>2. \A i, j \in 1..1 : i = j
    OBVIOUS
  <2> QED
    BY <2>1, <2>2 DEF OneLink
<1>2. ASSUME NEW x \in Items, ~IsLinked(x) PROVE NoLinks(<<x>>)
  <2>1. Len(<<x>>) = 1 /\ \A i \in 1..1 : <<x>>[i] = x
    OBVIOUS
  <2> QED
    BY <1>2, <2>1 DEF NoLinks
<1>3. NoLinks(<<>>) /\ OneLink(<<>>)
  BY DEF NoLinks, OneLink
<1> QED
  BY <1>1, <1>2, <1>3

LEMMA HeadLinks ==
  ASSUME NEW q \in Seq(Items), q # <<>>
  PROVE  /\ NoLinks(q) => NoLinks(Tail(q)) /\ ~IsLinked(Head(q))
         /\ OneLink(q) => OneLink(Tail(q)) /\ (IsLinked(Head(q)) => NoLinks(Tail(q)))
<1>1. PICK n \in Nat : n = Len(q) /\ n > 0
  OBVIOUS
<1>2. /\ Head(q) = q[1] /\ Len(Tail(q)) = n - 1 /\ 1 \in 1..n
      /\ \A i \in 1..(n - 1) : Tail(q)[i] = q[i + 1] /\ i + 1 \in 1..n /\ i + 1 # 1
  BY <1>1
<1>3. ASSUME NoLinks(q) PROVE NoLinks(Tail(q)) /\ ~IsLinked(Head(q))
  BY <1>1, <1>2, <1>3 DEF NoLinks
<1>4. ASSUME OneLink(q) PROVE IsLinked(Head(q)) => NoLinks(Tail(q))
  BY <1>1, <1>2, <1>4 DEF NoLinks, OneLink
<1>5. ASSUME OneLink(q), NEW i \in 1..(n - 1), NEW j \in 1..(n - 1),
             IsLinked(Tail(q)[i]), IsLinked(Tail(q)[j])
      PROVE  i = j
  <2>1. i + 1 = j + 1
    BY <1>1, <1>2, <1>5 DEF OneLink
  <2> QED
    BY <2>1
<1>6. OneLink(q) => OneLink(Tail(q))
  BY <1>2, <1>5 DEF OneLink
<1> QED
  BY <1>3, <1>4, <1>6

(* Spans in their own traces.                                                *)
LEMMA PlainLinks ==
  ASSUME NEW batch \in Seq(Spans)
  PROVE  NoLinks(Plain(batch)) /\ OneLink(Plain(batch))
<1>1. ASSUME NEW i \in 1..Len(Plain(batch)) PROVE ~IsLinked(Plain(batch)[i])
  <2>1. Plain(batch)[i] = [span |-> batch[i], trace |-> batch[i]]
    BY <1>1, PlainItems
  <2> QED
    BY <2>1 DEF IsLinked
<1> QED
  BY <1>1 DEF NoLinks, OneLink

LEMMA SameLinks ==
  /\ (NoLinks(exported))' = NoLinks(exported') /\ (OneLink(exported))' = OneLink(exported')
  /\ \A t \in Threads : /\ (NoLinks(kept[t]))' = NoLinks(kept'[t])
                         /\ (OneLink(kept[t]))' = OneLink(kept'[t])
                         /\ (NoLinks(td[t]))' = NoLinks(td'[t])
                         /\ (OneLink(td[t]))' = OneLink(td'[t])
BY DEF NoLinks, OneLink, IsLinked

(* A step that moves no link.                                                *)
LEMMA NoNewLink ==
  ASSUME Links, UNCHANGED exported, reported' = reported \/ reported',
         \A u \in Threads :
           /\ kept'[u] = kept[u] \/ kept'[u] = <<>>
           /\ \/ td'[u] = td[u] /\ (step'[u] = step[u] \/ NoLinks(td[u]) \/ reported')
              \/ NoLinks(td'[u]) /\ OneLink(td'[u])
  PROVE  Links'
<1>1. \A u \in Threads : /\ OneLink(kept'[u]) /\ OneLink(td'[u])
                         /\ NoLinks(kept[u]) => NoLinks(kept'[u])
                         /\ NoLinks(td[u]) => NoLinks(td'[u])
  BY SingleLink DEF Links
<1>2. \A u \in Threads : ~reported' => NoLinks(td'[u]) \/ step'[u] \in {"joined", "attached"}
  BY DEF Links
<1> QED
  BY <1>1, <1>2, SameLinks DEF Links

(* The item that is visited stays.                                           *)
LEMMA KeepLinks ==
  ASSUME TInv, Links, NEW t \in Threads, td[t] # <<>>, Keep(t),
         step[t] \notin {"joined", "attached"}, UNCHANGED <<reported, exported>>
  PROVE  Links'
<1> DEFINE x == Head(td[t])
<1>1. /\ kept[t] \in Seq(Items) /\ td[t] \in Seq(Items)
      /\ x \in Items /\ <<x>> \in Seq(Items) /\ Append(kept[t], x) = kept[t] \o <<x>>
  <2>1. kept[t] \in Seq(Items) /\ td[t] \in Seq(Items)
    BY DEF TInv, TypeOK, CTypeOK
  <2>2. x \in Items
    BY <2>1, SeqFacts
  <2> QED
    BY <2>1, <2>2, SeqFacts
<1>2. /\ kept'[t] = kept[t] \o <<x>> /\ td'[t] = Tail(td[t])
      /\ \A u \in Threads : u # t => /\ kept'[u] = kept[u] /\ td'[u] = td[u]
                                     /\ step'[u] = step[u]
  BY <1>1 DEF Keep, Advance, Goto, TInv, TypeOK, CTypeOK
<1>3. /\ NoLinks(td[t]) => NoLinks(td'[t]) /\ ~IsLinked(x)
      /\ OneLink(td'[t]) /\ (IsLinked(x) => NoLinks(td'[t]))
  BY <1>1, <1>2, HeadLinks DEF Links
<1>4. OneLink(<<x>>) /\ (~IsLinked(x) => NoLinks(<<x>>))
  BY <1>1, SingleLink
<1> HIDE DEF x
<1>5. CASE IsLinked(x)
  <2>1. /\ reported /\ NoLinks(kept[t]) /\ NoLinks(exported)
        /\ NoLinks(td'[t]) /\ OneLink(kept'[t])
    BY <1>1, <1>2, <1>3, <1>4, <1>5, LinkFacts DEF Links
  <2> QED
    BY <1>2, <1>3, <2>1, SameLinks DEF Links
<1>6. CASE ~IsLinked(x)
  <2>1. /\ NoLinks(kept[t]) => NoLinks(kept'[t])
        /\ OneLink(kept'[t])
    BY <1>1, <1>2, <1>4, <1>6, LinkFacts DEF Links
  <2> QED
    BY <1>2, <1>3, <2>1, SameLinks DEF Links
<1> QED
  BY <1>5, <1>6

(* The one link: nothing was reported, so there is none yet.                 *)
LEMMA FirstLink ==
  ASSUME TInv, Links, ~reported, NEW t \in Threads, step[t] \in {"join", "attach"},
         OneLink(td'[t]), step'[t] \in {"joined", "attached"},
         \A u \in Threads : u # t => td'[u] = td[u] /\ step'[u] = step[u],
         UNCHANGED <<reported, kept, exported>>
  PROVE  Links'
BY SameLinks DEF Links

(* A step of the processor while no other call is in it.                     *)
LEMMA ProcessorOrder ==
  ASSUME TInv, Unhurt, Fields, Links, NEW t \in Threads, ProcessorStep(t), UNCHANGED exported,
         \A u \in Threads : u # t => step[u] = "out"
  PROVE  step'[t] # "panicked" /\ Fields' /\ Links'
<1>0. /\ \A u \in Threads : u # t => step'[u] = "out" /\ step'[u] = step[u]
      /\ step' = [step EXCEPT ![t] = step'[t]]
  <2>1. \E l : step' = [step EXCEPT ![t] = l]
    BY DEF ProcessorStep, Look, KeepSpan, Hold, FillHeld, Join, Store, FillExec, Attach, Report,
           DropHeld, NilDereference, Processed, Keep, Advance, Goto
  <2> QED
    BY <2>1 DEF TInv, TypeOK, CTypeOK
<1>1. /\ td[t] \in Seq(Items) /\ reported \in BOOLEAN
      /\ step[t] \in Working => td[t] # <<>>
      /\ DOMAIN td = Threads /\ DOMAIN step = Threads
      /\ held \in Spans \cup {None, Blank} /\ exec \in Spans \cup {None, Blank}
      /\ td[t] # <<>> => Visited(t) \in Spans \cup {Blank} /\ Tail(td[t]) \in Seq(Items)
  <2>1. td[t] \in Seq(Items)
    BY DEF TInv, TypeOK, CTypeOK
  <2>2. td[t] # <<>> => Head(td[t]) \in Items /\ Tail(td[t]) \in Seq(Items)
    BY <2>1, SeqFacts
  <2> QED
    BY <2>1, <2>2 DEF Visited, Items, TInv, TypeOK, CTypeOK, Batches
<1>n. None \notin Spans /\ Blank # None
  BY DEF None, Blank, Spans, ColdStarts
<1>2. ASSUME UNCHANGED <<kept, td>>, step[t] \notin {"joined", "attached"} \/ reported',
             reported' = reported \/ reported'
      PROVE  Links'
  <2>1. td'[t] = td[t] /\ (NoLinks(td[t]) \/ reported')
    BY <1>1, <1>2 DEF Links
  <2> QED
    BY <1>0, <1>2, <2>1, NoNewLink
<1>3. CASE Look(t)
  <2>1. UNCHANGED <<reported, held, exec, kept, td>> /\ step[t] = "look" /\ step'[t] = Decide(Visited(t))
    BY <1>3 DEF Look, Goto, TInv, TypeOK, CTypeOK
  <2>2. /\ Decide(Visited(t)) \in {"keep", "hold", "join", "store", "attach"}
        /\ Decide(Visited(t)) \in Writers => ~reported
        /\ Decide(Visited(t)) = "hold" => exec = None
        /\ Decide(Visited(t)) = "store" => held = None
        /\ Decide(Visited(t)) = "attach" => held # None
    BY DEF Decide, Writers
  <2> QED
    BY <1>0, <1>2, <2>1, <2>2 DEF Fields, Writers
<1>4. CASE KeepSpan(t) \/ DropHeld(t)
  <2>1. /\ step[t] \in {"keep", "drop"} /\ Keep(t) /\ td[t] # <<>>
        /\ UNCHANGED <<reported, exec>> /\ (held' = held \/ held' = None)
    BY <1>1, <1>4 DEF KeepSpan, DropHeld, Working
  <2>2. Links' /\ step'[t] = "look"
    BY <1>1, <2>1, KeepLinks DEF Keep, Advance, Goto
  <2> QED
    BY <1>0, <2>1, <2>2 DEF Fields, Writers
<1>5. CASE Hold(t)
  <2>1. /\ step[t] = "hold" /\ step'[t] = "fillheld" /\ held' = Blank
        /\ UNCHANGED <<reported, exec, kept, td>>
    BY <1>1, <1>5 DEF Hold, Goto
  <2> QED
    BY <1>0, <1>2, <1>n, <2>1 DEF Fields, Writers
<1>6. CASE FillHeld(t)
  <2>1. /\ step[t] = "fillheld" /\ step'[t] = "look" /\ td[t] # <<>> /\ td'[t] = Tail(td[t])
        /\ UNCHANGED <<reported, exec, kept>> /\ \A u \in Threads : u # t => td'[u] = td[u]
    BY <1>1, <1>6 DEF FillHeld, Advance, Goto, Working
  <2>2. ~reported /\ exec = None
    BY <2>1 DEF Fields, Writers
  <2>3. NoLinks(td[t]) /\ OneLink(td[t])
    BY <2>1, <2>2 DEF Links
  <2>4. NoLinks(td'[t]) /\ OneLink(td'[t])
    BY <1>1, <2>1, <2>3, HeadLinks
  <2>5. Links'
    BY <1>0, <2>1, <2>4, NoNewLink
  <2> QED
    BY <1>0, <2>1, <2>2, <2>5 DEF Fields, Writers
<1>7. CASE Join(t)
  <2>1. /\ step[t] = "join" /\ step'[t] = "joined" /\ td[t] # <<>> /\ exec # None
        /\ td'[t] = InTrace(Visited(t), exec) \o Tail(td[t])
        /\ UNCHANGED <<reported, held, exec, kept>> /\ \A u \in Threads : u # t => td'[u] = td[u]
    BY <1>1, <1>7 DEF Join, Goto, Working, TInv, Batches
  <2>2. ~reported /\ NoLinks(td[t])
    BY <2>1 DEF Fields, Writers, Links
  <2>3. OneLink(InTrace(Visited(t), exec)) /\ NoLinks(Tail(td[t]))
    <3>1. [span |-> Visited(t), trace |-> exec] \in Items
      BY <1>1, <2>1 DEF Items
    <3> QED
      BY <1>1, <2>1, <2>2, <3>1, HeadLinks, SingleLink DEF InTrace
  <2>4. OneLink(td'[t])
    BY <1>1, <2>1, <2>3, JoiningItem, LinkFacts
  <2>5. Links'
    BY <1>0, <2>1, <2>2, <2>4, FirstLink
  <2> QED
    BY <1>0, <2>1, <2>2, <2>5 DEF Fields, Writers
<1>8. CASE Store(t)
  <2>1. /\ step[t] = "store" /\ step'[t] = "fillexec" /\ UNCHANGED <<reported, held, kept, td>>
    BY <1>1, <1>8 DEF Store, Goto
  <2> QED
    BY <1>0, <1>2, <2>1 DEF Fields, Writers
<1>9. CASE FillExec(t)
  <2>1. /\ step[t] = "fillexec" /\ step'[t] = "look" /\ td[t] # <<>> /\ Keep(t)
        /\ UNCHANGED <<reported, held>>
    BY <1>1, <1>9 DEF FillExec, Keep, Advance, Goto, Working
  <2>2. Links'
    BY <2>1, KeepLinks
  <2> QED
    BY <1>0, <2>1, <2>2 DEF Fields, Writers
<1>10. CASE Attach(t)
  <2>1. /\ step[t] = "attach" /\ step'[t] = "attached" /\ td[t] # <<>> /\ held # None
        /\ td'[t] = td[t] \o InTrace(held, Visited(t))
        /\ UNCHANGED <<reported, held, exec, kept>> /\ \A u \in Threads : u # t => td'[u] = td[u]
    BY <1>1, <1>10 DEF Attach, Goto, Working
  <2>2. ~reported /\ NoLinks(td[t])
    BY <2>1 DEF Fields, Writers, Links
  <2>3. OneLink(InTrace(held, Visited(t)))
    <3>1. [span |-> held, trace |-> Visited(t)] \in Items
      BY <1>1, <2>1 DEF Items
    <3> QED
      BY <3>1, SingleLink DEF InTrace
  <2>4. OneLink(td'[t])
    BY <1>1, <2>1, <2>2, <2>3, JoiningItem, LinkFacts
  <2>5. Links'
    BY <1>0, <2>1, <2>2, <2>4, FirstLink
  <2> QED
    BY <1>0, <2>1, <2>2, <2>5 DEF Fields, Writers
<1>11. CASE Report(t)
  <2>1. reported' /\ step'[t] \in {"keep", "drop"} /\ UNCHANGED <<held, exec, kept, td>>
    BY <1>1, <1>11 DEF Report, Goto
  <2> QED
    BY <1>0, <1>2, <2>1 DEF Fields, Writers
<1>12. CASE Processed(t)
  <2>1. /\ UNCHANGED <<reported, held, exec, kept, td>> /\ step[t] = "look"
        /\ step'[t] \in {"out", "next"}
    BY <1>1, <1>12 DEF Processed, Goto
  <2> QED
    BY <1>0, <1>2, <2>1 DEF Fields, Writers
<1>13. ~NilDereference(t)
  BY DEF NilDereference, Fields
<1> QED
  BY <1>3, <1>4, <1>5, <1>6, <1>7, <1>8, <1>9, <1>10, <1>11, <1>12, <1>13 DEF ProcessorStep

(* A step that leaves the fields alone, and moves no link.                   *)
LEMMA QuietOrder ==
  ASSUME Fields, Links, UNCHANGED <<reported, held, exec, exported>>,
         \A t \in Threads : /\ step'[t] = step[t] \/ (step[t] \notin Writers /\ step'[t] \notin Writers)
                            /\ kept'[t] = kept[t] \/ kept'[t] = <<>>
                            /\ td'[t] = td[t] \/ (NoLinks(td'[t]) /\ OneLink(td'[t]))
  PROVE  Fields' /\ Links'
<1>1. Fields'
  BY DEF Fields, Writers
<1>2. \A u \in Threads :
        \/ td'[u] = td[u] /\ (step'[u] = step[u] \/ NoLinks(td[u]) \/ reported')
        \/ NoLinks(td'[u]) /\ OneLink(td'[u])
  BY DEF Links, Writers
<1> QED
  BY <1>1, <1>2, NoNewLink

LEMMA OrderInit == Init => LInv
<1> SUFFICES ASSUME Init PROVE LInv
  OBVIOUS
<1>1. /\ exported = <<>> /\ at = [h \in Handlers |-> "idle"]
      /\ \A t \in Threads : kept[t] = <<>> /\ td[t] = <<>> /\ step[t] = "out"
  BY DEF Init, CInit, RInit
<1>2. Waits /\ Alone /\ Unhurt
  BY <1>1, HandlersAssumption DEF Waits, Alone, Active, Servers, Unhurt
<1>3. Fields
  BY <1>1 DEF Init, CInit, Fields, Writers
<1>4. Links
  BY <1>1, SingleLink DEF Links
<1> QED
  BY <1>2, <1>3, <1>4, TypesInit DEF LInv

(* Who is in the pipeline alone: every other goroutine is outside.           *)
LEMMA AloneOutside ==
  ASSUME Waits, Alone, Unhurt, NEW t \in Active
  PROVE  /\ \A u \in Threads : u # t => step[u] = "out"
         /\ \A h \in Handlers : h # t => at[h] = "idle"
<1>1. ASSUME NEW u \in Threads, u # t
      PROVE  step[u] = "out" /\ (u \in Handlers => at[u] = "idle")
  <2>1. u \notin Active /\ step[u] # "panicked" /\ (u \in Handlers => at[u] # "panicked")
    BY <1>1 DEF Alone, Unhurt
  <2> QED
    BY <1>1, <2>1 DEF Active, Servers, Waits
<1> QED
  BY <1>1, HandlersAssumption

LEMMA OrderStep == LInv /\ [Next]_vars => LInv'
<1> SUFFICES ASSUME LInv, [Next]_vars PROVE LInv'
  OBVIOUS
<1>0. TInv /\ TInv' /\ Waits
  BY TypesStep DEF LInv
<1>a. /\ \A h \in Handlers : h \in Threads /\ h \notin Servers
      /\ \A t \in Threads : t \in Handlers \/ t \in Servers
  BY HandlersAssumption DEF Servers
<1>b. /\ at \in [Handlers -> {"idle", "record", "consume", "clear", "logs", "panicked"}]
      /\ DOMAIN step = Threads /\ DOMAIN kept = Threads /\ DOMAIN td = Threads
      /\ overlapped \in BOOLEAN /\ overlapped' \in BOOLEAN
  BY <1>0 DEF TInv, TypeOK, RTypeOK, CTypeOK
<1>c. ~overlapped => Alone /\ Unhurt /\ Fields /\ Links
  BY DEF LInv
<1>d. ASSUME UNCHANGED <<at, cdvars, exported, overlapped>> PROVE LInv'
  <2>1. Waits' /\ (Alone <=> Alone') /\ (Unhurt <=> Unhurt')
    BY <1>0, <1>d DEF Waits, Alone, Active, Unhurt, cdvars
  <2>2. Fields /\ Links => Fields' /\ Links'
    BY <1>d, QuietOrder DEF cdvars
  <2> QED
    BY <1>0, <1>c, <1>d, <2>1, <2>2 DEF LInv
<1>1. ASSUME NEW n \in Signals, Create(n) \/ Start(n) \/ Shutdown(n) PROVE LInv'
  <2>1. UNCHANGED <<at, cdvars, exported, overlapped>>
    BY <1>1 DEF Create, Start, Shutdown, CreateReceiver, StartReceiver, ShutdownReceiver, ivars
  <2> QED
    BY <1>d, <2>1
<1>2. ASSUME NEW h \in Handlers, Post(h) PROVE LInv'
  <2>1. /\ at[h] = "idle" /\ at' = [at EXCEPT ![h] = "record"]
        /\ UNCHANGED <<cdvars, exported>>
        /\ overlapped' = (overlapped \/ Active # {})
    BY <1>2 DEF Post, Enter, HandlePost, GotoHandler
  <2>2. Waits'
    BY <1>0, <1>b, <2>1 DEF Waits, cdvars
  <2>3. ASSUME ~overlapped' PROVE ~overlapped /\ Alone' /\ Unhurt'
    <3>1. ~overlapped /\ Active = {}
      BY <2>1, <2>3
    <3> QED
      BY <1>b, <1>c, <2>1, <3>1 DEF Alone, Active, Unhurt, cdvars
  <2>4. Fields /\ Links => Fields' /\ Links'
    BY <2>1, QuietOrder DEF cdvars
  <2> QED
    BY <1>0, <1>c, <2>2, <2>3, <2>4 DEF LInv
<1>3. ASSUME NEW h \in Handlers, Handler(h) PROVE LInv'
  <2>1. /\ UNCHANGED <<cdvars, exported, overlapped>>
        /\ at[h] \in {"record", "clear", "logs"}
        /\ \A g \in Handlers \ {h} : at'[g] = at[g]
    BY <1>3, <1>b DEF Handler, RecordEvent, NoInitSpan, TornRead, ClearTimes, ConsumeLogs,
                      GotoHandler, Recorded, LooksAt, ivars
  <2>2. step[h] = "out"
    BY <1>0, <2>1 DEF Waits
  <2>3. Waits'
    BY <1>0, <2>1, <2>2 DEF Waits, cdvars
  <2>4. h \in Active
    BY <2>1, <2>2 DEF Active
  <2>5. ASSUME Alone, Unhurt PROVE Alone' /\ Unhurt'
    <3>1. \A g \in Handlers \ {h} : at[g] = "idle"
      BY <1>0, <2>4, <2>5, AloneOutside
    <3>2. ~TornRead(h)
      BY <3>1 DEF TornRead, LooksAt, StartTears, EndTears
    <3>3. at'[h] # "panicked"
      BY <1>3, <1>b, <2>1, <3>2 DEF Handler, RecordEvent, NoInitSpan, ClearTimes, ConsumeLogs,
                                    GotoHandler
    <3> QED
      BY <2>1, <2>4, <2>5, <3>3 DEF Alone, Active, Unhurt, cdvars
  <2>6. Fields /\ Links => Fields' /\ Links'
    BY <2>1, QuietOrder DEF cdvars
  <2> QED
    BY <1>0, <1>c, <2>1, <2>3, <2>5, <2>6 DEF LInv
<1>4. ASSUME NEW h \in Handlers, SendInitSpan(h) PROVE LInv'
  <2> DEFINE batch == <<[kind |-> "init", of |-> startTime]>>
  <2>1. /\ at[h] = "record" /\ at' = [at EXCEPT ![h] = "consume"] /\ step[h] = "out"
        /\ step' = [step EXCEPT ![h] = "look"] /\ kept' = [kept EXCEPT ![h] = <<>>]
        /\ td' = [td EXCEPT ![h] = Plain(batch)]
        /\ UNCHANGED <<reported, held, exec, exported, overlapped>>
    BY <1>4 DEF SendInitSpan, CreatePlatformInitSpan, Recorded, GotoHandler, ProcessTraces,
                Goto, Plain, ivars
  <2>2. Waits'
    BY <1>0, <1>a, <1>b, <2>1 DEF Waits
  <2>3. Alone => Alone'
    BY <1>a, <1>b, <2>1 DEF Alone, Active, Servers
  <2>4. Unhurt => Unhurt'
    BY <1>a, <1>b, <2>1 DEF Unhurt
  <2>5. batch \in Seq(Spans)
    BY <1>0 DEF Spans, ColdStarts, TInv, TypeOK, RTypeOK
  <2>6. NoLinks(Plain(batch)) /\ OneLink(Plain(batch))
    BY <2>5, PlainLinks
  <2> HIDE DEF batch
  <2>7. ASSUME NEW t \in Threads
        PROVE  /\ step'[t] = step[t] \/ (step[t] \notin Writers /\ step'[t] \notin Writers)
               /\ kept'[t] = kept[t] \/ kept'[t] = <<>>
               /\ td'[t] = td[t] \/ (NoLinks(td'[t]) /\ OneLink(td'[t]))
    BY <1>a, <1>b, <2>1, <2>6 DEF Writers
  <2>8. Fields /\ Links => Fields' /\ Links'
    BY <2>1, <2>7, QuietOrder
  <2> QED
    BY <1>0, <1>c, <2>1, <2>2, <2>3, <2>4, <2>8 DEF LInv
<1>5. ASSUME NEW s \in Servers, Call(s) PROVE LInv'
  <2>1. PICK batch \in calls : ProcessTraces(s, batch)
    BY <1>5 DEF Call
  <2>2. /\ step[s] = "out"
        /\ step' = [step EXCEPT ![s] = "look"] /\ kept' = [kept EXCEPT ![s] = <<>>]
        /\ td' = [td EXCEPT ![s] = Plain(batch)]
        /\ UNCHANGED <<at, reported, held, exec, exported>>
        /\ overlapped' = (overlapped \/ Active # {})
    BY <1>5, <2>1 DEF Call, Enter, ProcessTraces, Goto, Plain, rvars
  <2>3. Waits'
    BY <1>0, <1>a, <1>b, <2>2 DEF Waits
  <2>4. ASSUME ~overlapped' PROVE ~overlapped /\ Alone' /\ Unhurt'
    <3>1. ~overlapped /\ Active = {}
      BY <2>2, <2>4
    <3> QED
      BY <1>a, <1>b, <1>c, <2>2, <3>1 DEF Alone, Active, Servers, Unhurt
  <2>5. NoLinks(Plain(batch)) /\ OneLink(Plain(batch))
    BY <1>0, PlainLinks DEF TInv, Batches
  <2>6. ASSUME NEW t \in Threads
        PROVE  /\ step'[t] = step[t] \/ (step[t] \notin Writers /\ step'[t] \notin Writers)
               /\ kept'[t] = kept[t] \/ kept'[t] = <<>>
               /\ td'[t] = td[t] \/ (NoLinks(td'[t]) /\ OneLink(td'[t]))
    BY <1>a, <1>b, <2>2, <2>5 DEF Writers
  <2>7. Fields /\ Links => Fields' /\ Links'
    BY <2>2, <2>6, QuietOrder
  <2> QED
    BY <1>0, <1>c, <2>3, <2>4, <2>7 DEF LInv
<1>6. ASSUME NEW t \in Threads, Process(t) \/ Export(t) \/ Refuse(t) PROVE LInv'
  <2>1. /\ step[t] \notin {"out", "panicked"} /\ \E l : step' = [step EXCEPT ![t] = l]
        /\ UNCHANGED overlapped
    BY <1>6 DEF Process, Export, Refuse, NextReturns, ProcessorStep, Look, KeepSpan, Hold,
                FillHeld, Join, Store, FillExec, Attach, Report, DropHeld, NilDereference,
                Processed, Keep, Advance, Goto
  <2>2. \/ step'[t] # "out" /\ UNCHANGED at
        \/ step'[t] = "out" /\ t \in Servers /\ UNCHANGED at
        \/ /\ step'[t] = "out" /\ t \notin Servers /\ at[t] = "consume"
           /\ at'[t] \in {"clear", "logs"} /\ \A g \in Handlers \ {t} : at'[g] = at[g]
    <3>1. ASSUME NEW ok \in BOOLEAN, Return(t, ok)
          PROVE  \/ t \in Servers /\ UNCHANGED at
                 \/ /\ t \notin Servers /\ at[t] = "consume" /\ at'[t] \in {"clear", "logs"}
                    /\ \A g \in Handlers \ {t} : at'[g] = at[g]
      BY <3>1, <1>a, <1>b DEF Return, Consumed, GotoHandler, rvars
    <3>2. ASSUME NextReturns(t) PROVE step'[t] = "out"
      BY <3>2, <1>b DEF NextReturns, Goto
    <3> QED
      BY <1>6, <3>1, <3>2 DEF Process, Export, Refuse, rvars
  <2>3. Waits'
    BY <1>0, <1>a, <1>b, <2>1, <2>2 DEF Waits
  <2>4. t \in Active
    BY <1>0, <1>a, <2>1 DEF Waits, Active
  <2>5. Alone => Alone'
    <3>1. Active' \subseteq Active
      BY <1>a, <1>b, <2>1, <2>2, <2>4 DEF Active, Servers
    <3> QED
      BY <3>1 DEF Alone
  <2>6. ASSUME Alone, Unhurt, Fields, Links
        PROVE  step'[t] # "panicked" /\ Fields' /\ Links'
    <3>1. \A u \in Threads : u # t => step[u] = "out"
      BY <1>0, <2>4, <2>6, AloneOutside
    <3>2. CASE Process(t)
      BY <1>0, <2>6, <3>1, <3>2, ProcessorOrder DEF Process
    <3>3. CASE Refuse(t)
      <4>1. /\ step[t] = "next" /\ step' = [step EXCEPT ![t] = "out"]
            /\ kept' = [kept EXCEPT ![t] = <<>>]
            /\ UNCHANGED <<reported, held, exec, td, exported>>
        BY <3>3 DEF Refuse, NextReturns, Goto
      <4> QED
        BY <1>b, <2>6, <4>1, QuietOrder DEF Writers
    <3>4. CASE Export(t)
      <4>1. /\ step[t] = "next" /\ td[t] = <<>>
            /\ step' = [step EXCEPT ![t] = "out"] /\ kept' = [kept EXCEPT ![t] = <<>>]
            /\ UNCHANGED <<reported, held, exec, td>> /\ exported' = exported \o kept[t]
        BY <1>0, <3>4 DEF Export, NextReturns, Goto, TInv, Batches
      <4>2. Fields'
        BY <1>b, <2>6, <4>1 DEF Fields, Writers
      <4>3. exported \in Seq(Items) /\ kept[t] \in Seq(Items)
        BY <1>0 DEF TInv, TypeOK, CTypeOK, Batches
      <4>4. (~reported => NoLinks(exported')) /\ OneLink(exported')
        BY <2>6, <4>1, <4>3, LinkFacts DEF Links
      <4>5. \A u \in Threads : kept'[u] = <<>> /\ td'[u] = <<>>
        BY <1>0, <1>b, <3>1, <4>1 DEF TInv, Batches
      <4> QED
        BY <4>1, <4>4, <4>2, <4>5, SingleLink, SameLinks DEF Links
    <3> QED
      BY <1>6, <3>2, <3>3, <3>4
  <2>7. ASSUME Unhurt, step'[t] # "panicked" PROVE Unhurt'
    BY <1>b, <2>1, <2>2, <2>7 DEF Unhurt
  <2> QED
    BY <1>0, <1>c, <2>1, <2>3, <2>5, <2>6, <2>7 DEF LInv
<1>7. CASE UNCHANGED vars
  BY <1>7, <1>d DEF vars, rvars, ivars
<1> QED
  BY <1>1, <1>2, <1>3, <1>4, <1>5, <1>6, <1>7 DEF Next

LEMMA OrderInvariant == Spec => []LInv
  BY OrderInit, OrderStep, PTL DEF Spec

(* Without an overlap the processor never holds an init span and an          *)
(* execution that wait for each other.                                       *)
THEOREM OneSideWaits == Spec => []NeverHoldsBoth
<1>1. LInv => NeverHoldsBoth
  BY DEF LInv, Fields, NeverHoldsBoth
<1> QED
  BY <1>1, OrderInvariant, PTL

(* Without an overlap one init span at most joins the trace of an            *)
(* invocation, however many init phases and invocations there are.           *)
THEOREM OneInitSpanJoins == Spec => []LinkedOnce
<1>1. ASSUME LInv, ~overlapped
      PROVE  Cardinality({i \in 1..Len(exported) : Linked(i)}) <= 1
  <2> DEFINE S == {i \in 1..Len(exported) : Linked(i)}
  <2>1. \A i, j \in S : i = j
    BY <1>1 DEF LInv, Links, OneLink, Linked
  <2>2. CASE S = {}
    BY <2>2, FS_EmptySet
  <2>3. CASE S # {}
    <3>1. PICK i \in S : S = {i}
      BY <2>1, <2>3
    <3>2. Cardinality({i}) = 1
      BY FS_Singleton
    <3>3. Cardinality(S) = 1
      BY <3>1, <3>2
    <3> QED
      BY <3>3
  <2> QED
    BY <2>2, <2>3
<1>2. LInv => LinkedOnce
  BY <1>1 DEF LinkedOnce
<1> QED
  BY <1>2, OrderInvariant, PTL
-----------------------------------------------------------------------------
(* The third invariant: how far the events have been looked at, and what has *)
(* become of the end of the last init phase among them.                      *)
Slice(m, n) == SubSeq(Feed, m + 1, n)

Ends(i) == Feed[i].type = "initRuntimeDone"

(* The platform posts the ends of init phases in the order they happen.      *)
Chronological ==
  \A i, j \in 1..Len(Feed) : i < j /\ Ends(i) /\ Ends(j) => Feed[i].of <= Feed[j].of

Latest(i, m) == Ends(i) /\ \A j \in 1..m : Ends(j) => Feed[j].of <= Feed[i].of

Kept(end) == endTime = end \/ \E a \in accepted : a[2] = end

(* n events have been posted and m of them looked at.                        *)
Progress(n, m) ==
  /\ feed = Slice(n, Len(Feed))
  /\ ~overlapped =>
       /\ \A h \in Handlers : left[h] = <<>> \/ (at[h] = "record" /\ left[h] = Slice(m, n))
       /\ m = n \/ \E h \in Handlers : left[h] # <<>>
       /\ \A i \in 1..m : Latest(i, m) => Kept(Feed[i].of)
       /\ \A h \in Handlers : at[h] = "clear" => \E a \in accepted : a[2] = endTime

KInv == LInv /\ \E n \in 0..Len(Feed) : \E m \in 0..n : Progress(n, m)

LEMMA SliceFacts ==
  ASSUME NEW n \in 0..Len(Feed), NEW m \in 0..n
  PROVE  /\ Len(Slice(m, n)) = n - m
         /\ m = n => Slice(m, n) = <<>>
         /\ m < n => /\ Slice(m, n) # <<>> /\ Head(Slice(m, n)) = Feed[m + 1]
                     /\ Tail(Slice(m, n)) = Slice(m + 1, n)
         /\ \A k \in 1..(n - m) : /\ SubSeq(Slice(m, n), 1, k) = Slice(m, m + k)
                                  /\ SubSeq(Slice(m, n), k + 1, n - m) = Slice(m + k, n)
<1>1. Feed \in Seq(Events) /\ n \in Nat /\ m \in Nat /\ n <= Len(Feed) /\ m <= n
  BY FeedAssumption
<1>2. Slice(m, n) \in Seq(Events) /\ Len(Slice(m, n)) = n - m
  BY <1>1 DEF Slice
<1>3. \A i \in 1..(n - m) : Slice(m, n)[i] = Feed[m + i]
  BY <1>1 DEF Slice
<1>4. m = n => Slice(m, n) = <<>>
  BY <1>1, <1>2
<1>5. ASSUME m < n
      PROVE  /\ Slice(m, n) # <<>> /\ Head(Slice(m, n)) = Feed[m + 1]
             /\ Tail(Slice(m, n)) = Slice(m + 1, n)
  BY <1>1, <1>5 DEF Slice
<1>6. ASSUME NEW k \in 1..(n - m)
      PROVE  /\ SubSeq(Slice(m, n), 1, k) = Slice(m, m + k)
             /\ SubSeq(Slice(m, n), k + 1, n - m) = Slice(m + k, n)
  BY <1>1, <1>6 DEF Slice
<1> QED
  BY <1>2, <1>4, <1>5, <1>6

LEMMA KeptInit == Init => KInv
<1> SUFFICES ASSUME Init PROVE KInv
  OBVIOUS
<1>1. Feed = Slice(0, Len(Feed))
  BY FeedAssumption DEF Slice
<1>2. Progress(0, 0)
  BY <1>1 DEF Init, RInit, Progress
<1>3. Len(Feed) \in Nat
  BY FeedAssumption
<1> QED
  BY <1>2, <1>3, OrderInit DEF KInv

(* A step that looks at no event.                                            *)
LEMMA NothingLookedAt ==
  ASSUME NEW n \in 0..Len(Feed), NEW m \in 0..n, Progress(n, m),
         UNCHANGED <<feed, left, overlapped>>,
         ~overlapped => /\ endTime' = endTime \/ \E a \in accepted : a[2] = endTime
                        /\ accepted \subseteq accepted'
                        /\ \A h \in Handlers : left[h] # <<>> => at'[h] = at[h]
                        /\ \A h \in Handlers : at'[h] = "clear" =>
                             \E a \in accepted' : a[2] = endTime'
  PROVE  Progress(n, m)'
<1>1. ASSUME ~overlapped, NEW end, Kept(end) PROVE Kept(end)'
  BY <1>1 DEF Kept
<1> QED
  BY <1>1 DEF Progress, Slice, Latest, Ends

LEMMA KeptStep ==
  ASSUME Chronological, KInv, [Next]_vars
  PROVE  KInv'
<1>0. LInv /\ LInv' /\ TInv
  BY OrderStep DEF KInv, LInv
<1>c. PICK n \in 0..Len(Feed) : \E m \in 0..n : Progress(n, m)
  BY DEF KInv
<1>1. PICK m \in 0..n : Progress(n, m)
  BY <1>c
<1>2. /\ Len(Feed) \in Nat /\ n \in Nat /\ m \in Nat /\ n <= Len(Feed) /\ m <= n
      /\ Feed \in Seq(Events)
  BY FeedAssumption
<1>3. SUFFICES \E k \in 0..Len(Feed) : \E l \in 0..k : Progress(k, l)'
  BY <1>0 DEF KInv
<1>a. /\ \A h \in Handlers : h \in Threads /\ h \notin Servers
      /\ \A t \in Threads : t \in Handlers \/ t \in Servers
      /\ at \in [Handlers -> {"idle", "record", "consume", "clear", "logs", "panicked"}]
      /\ DOMAIN left = Handlers
  BY <1>0, HandlersAssumption DEF Servers, TInv, TypeOK, RTypeOK
<1>b. ~overlapped => \A g, h \in Handlers : at[g] # "idle" /\ at[h] # "idle" => g = h
  <2>1. ASSUME ~overlapped, NEW g \in Handlers, at[g] # "idle" PROVE g \in Active
    BY <1>0, <1>a, <2>1 DEF LInv, Unhurt, Active
  <2> QED
    BY <1>0, <2>1 DEF LInv, Alone
<1>4. ASSUME NEW s \in Signals, Create(s) \/ Start(s) \/ Shutdown(s) PROVE Progress(n, m)'
  <2>1. UNCHANGED <<feed, left, overlapped, endTime, accepted, at>>
    BY <1>4 DEF Create, Start, Shutdown, CreateReceiver, StartReceiver, ShutdownReceiver, ivars
  <2> QED
    BY <1>1, <2>1, NothingLookedAt DEF Progress
<1>5. ASSUME NEW h \in Handlers, Post(h)
      PROVE  \E k \in 0..Len(Feed) : \E l \in 0..k : Progress(k, l)'
  <2>1. PICK k \in 1..Len(feed) :
          /\ at[h] = "idle" /\ at' = [at EXCEPT ![h] = "record"]
          /\ left' = [left EXCEPT ![h] = SubSeq(feed, 1, k)]
          /\ feed' = SubSeq(feed, k + 1, Len(feed))
          /\ UNCHANGED <<endTime, accepted>>
          /\ overlapped' = (overlapped \/ Active # {})
    BY <1>5 DEF Post, Enter, HandlePost, GotoHandler
  <2>2. feed = Slice(n, Len(Feed)) /\ Len(feed) = Len(Feed) - n
    <3>1. Len(Feed) \in 0..Len(Feed) /\ n \in 0..Len(Feed)
      BY <1>2
    <3>2. Len(Slice(n, Len(Feed))) = Len(Feed) - n
      BY <3>1, SliceFacts
    <3> QED
      BY <1>1, <3>2 DEF Progress
  <2>3. k \in 1..(Len(Feed) - n) /\ k \in Nat
    BY <1>2, <2>1, <2>2
  <2>4. SubSeq(feed, 1, k) = Slice(n, n + k) /\ feed' = Slice(n + k, Len(Feed))
    <3>1. Len(Feed) \in 0..Len(Feed) /\ n \in 0..Len(Feed)
      BY <1>2
    <3>2. /\ SubSeq(Slice(n, Len(Feed)), 1, k) = Slice(n, n + k)
          /\ SubSeq(Slice(n, Len(Feed)), k + 1, Len(Feed) - n) = Slice(n + k, Len(Feed))
      BY <2>3, <3>1, SliceFacts
    <3> QED
      BY <2>1, <2>2, <3>2
  <2>5. n + k \in 0..Len(Feed) /\ n \in 0..(n + k) /\ n < n + k
    BY <1>2, <2>3
  <2>6. ASSUME ~overlapped'
        PROVE  /\ m = n
               /\ \A g \in Handlers : left'[g] = <<>> \/ (at'[g] = "record" /\ left'[g] = Slice(n, n + k))
               /\ left'[h] # <<>>
               /\ \A i \in 1..n : Latest(i, n) => Kept(Feed[i].of)
               /\ \A g \in Handlers : at'[g] # "clear"
    <3>1. ~overlapped /\ \A g \in Handlers : at[g] = "idle"
      <4>1. ~overlapped /\ Active = {}
        BY <1>0, <2>1, <2>6 DEF TInv, TypeOK
      <4> QED
        BY <1>0, <1>a, <4>1 DEF LInv, Unhurt, Active
    <3>2. \A g \in Handlers : left[g] = <<>>
      BY <1>1, <3>1 DEF Progress
    <3>3. m = n /\ \A i \in 1..n : Latest(i, n) => Kept(Feed[i].of)
      BY <1>1, <3>1, <3>2 DEF Progress
    <3>4. Slice(n, n + k) # <<>>
      BY <2>5, SliceFacts
    <3> QED
      BY <1>a, <2>1, <2>4, <3>1, <3>2, <3>3, <3>4
  <2>7. Progress(n + k, n)'
    <3>1. \A end : Kept(end)' <=> Kept(end)
      BY <2>1 DEF Kept
    <3> QED
      BY <2>4, <2>6, <3>1 DEF Progress, Slice, Latest, Ends
  <2> QED
    BY <2>5, <2>7
<1>6. ASSUME NEW h \in Handlers, RecordEvent(h), UNCHANGED <<cdvars, ivars>>
      PROVE  \E k \in 0..Len(Feed) : \E l \in 0..k : Progress(k, l)'
  <2>1. /\ at[h] = "record" /\ left[h] # <<>> /\ left' = [left EXCEPT ![h] = Tail(left[h])]
        /\ endTime' = IF Head(left[h]).type = "initRuntimeDone" THEN Head(left[h]).of ELSE endTime
        /\ UNCHANGED <<at, feed, accepted, overlapped>>
    BY <1>6 DEF RecordEvent, ivars
  <2>2. CASE overlapped
    BY <1>1, <2>1, <2>2, NothingLookedAt DEF Progress, Slice
  <2>3. CASE ~overlapped
    <3>1. left[h] = Slice(m, n) /\ m < n
      BY <1>1, <1>2, <2>1, <2>3, SliceFacts DEF Progress
    <3>2. Head(left[h]) = Feed[m + 1] /\ Tail(left[h]) = Slice(m + 1, n)
      BY <3>1, SliceFacts
    <3>3. m + 1 \in 0..n /\ m + 1 \in 1..Len(Feed) /\ 1..(m + 1) = 1..m \cup {m + 1}
      BY <1>2, <3>1
    <3>4. \A g \in Handlers : g # h => at[g] = "idle" /\ left[g] = <<>>
      BY <1>1, <1>a, <1>b, <2>1, <2>3 DEF Progress
    <3>5. \A i \in 1..m : Latest(i, m) => Kept(Feed[i].of)
      BY <1>1, <2>3 DEF Progress
    <3>6. ASSUME NEW i \in 1..(m + 1), Latest(i, m + 1) PROVE Kept(Feed[i].of)'
      <4>1. CASE Ends(m + 1)
        <5>1. endTime' = Feed[m + 1].of
          BY <2>1, <3>2, <4>1 DEF Ends
        <5>2. i \in 1..Len(Feed) /\ Feed[i].of \in Nat /\ Feed[m + 1].of \in Nat
          <6>1. i \in 1..Len(Feed)
            BY <1>2, <3>3
          <6>2. Feed[i] \in Events /\ Feed[m + 1] \in Events
            BY <1>2, <3>3, <6>1
          <6> QED
            BY <6>1, <6>2 DEF Events
        <5>3. Feed[m + 1].of <= Feed[i].of
          BY <3>3, <3>6, <4>1 DEF Latest
        <5>4. Feed[i].of <= Feed[m + 1].of
          BY <1>2, <3>3, <3>6, <4>1, <5>2 DEF Latest, Chronological
        <5> QED
          BY <5>1, <5>2, <5>3, <5>4 DEF Kept
      <4>2. CASE ~Ends(m + 1)
        <5>1. i \in 1..m /\ Latest(i, m)
          BY <3>3, <3>6, <4>2 DEF Latest
        <5>2. endTime' = endTime
          BY <2>1, <3>2, <4>2 DEF Ends
        <5> QED
          BY <2>1, <3>5, <5>1, <5>2 DEF Kept
      <4> QED
        BY <4>1, <4>2
    <3>7. \A g \in Handlers : left'[g] = <<>> \/ (at'[g] = "record" /\ left'[g] = Slice(m + 1, n))
      BY <1>a, <2>1, <3>2, <3>4
    <3>8. m + 1 = n \/ left'[h] # <<>>
      <4>1. left'[h] = Slice(m + 1, n)
        BY <1>a, <2>1, <3>2
      <4>2. m + 1 < n => Slice(m + 1, n) # <<>>
        BY <3>3, SliceFacts
      <4> QED
        BY <1>2, <3>1, <4>1, <4>2
    <3>9. \A g \in Handlers : at'[g] # "clear"
      BY <2>1, <3>4
    <3>10. Progress(n, m + 1)'
      BY <1>1, <2>1, <3>6, <3>7, <3>8, <3>9 DEF Progress, Slice, Latest, Ends
    <3> QED
      BY <3>3, <3>10
  <2> QED
    BY <2>2, <2>3
<1>7. ASSUME NEW h \in Handlers, SendInitSpan(h) \/ (Handler(h) /\ ~RecordEvent(h))
      PROVE  Progress(n, m)'
  <2>1. UNCHANGED <<feed, left, overlapped, accepted>>
    BY <1>7 DEF SendInitSpan, CreatePlatformInitSpan, Handler, NoInitSpan, TornRead, ClearTimes,
                ConsumeLogs, ivars
  <2>2. ASSUME ~overlapped
        PROVE  /\ endTime' = endTime \/ at[h] = "clear"
               /\ at[h] # "idle" /\ left[h] = <<>>
               /\ \A g \in Handlers : g # h => at'[g] = at[g]
               /\ at'[h] # "clear"
    <3>1. ~TornRead(h)
      <4>1. ASSUME TornRead(h) PROVE FALSE
        <5>1. at[h] = "record" /\ \E g \in Handlers \ {h} : at[g] \in {"record", "clear"}
          BY <4>1 DEF TornRead, LooksAt, Recorded, StartTears, EndTears
        <5> QED
          BY <1>b, <2>2, <5>1
      <4> QED
        BY <4>1
    <3>2. CASE SendInitSpan(h)
      BY <1>a, <3>2 DEF SendInitSpan, CreatePlatformInitSpan, Recorded, GotoHandler
    <3>3. CASE NoInitSpan(h)
      BY <1>a, <3>3 DEF NoInitSpan, Recorded, GotoHandler
    <3>4. CASE ClearTimes(h)
      BY <1>1, <1>a, <2>2, <3>4 DEF ClearTimes, GotoHandler, Progress
    <3>5. CASE ConsumeLogs(h)
      BY <1>1, <1>a, <2>2, <3>5 DEF ConsumeLogs, GotoHandler, Progress
    <3> QED
      BY <1>7, <3>1, <3>2, <3>3, <3>4, <3>5 DEF Handler
  <2>3. ~overlapped => \A g \in Handlers : at'[g] # "clear"
    BY <1>a, <1>b, <2>2
  <2> QED
    BY <1>1, <2>1, <2>2, <2>3, NothingLookedAt DEF Progress
<1>8. ASSUME NEW s \in Servers, Call(s) PROVE Progress(n, m)'
  <2>1. /\ UNCHANGED <<feed, left, endTime, accepted, at>>
        /\ overlapped' = (overlapped \/ Active # {})
    BY <1>8 DEF Call, Enter, rvars
  <2>2. CASE overlapped' = overlapped
    BY <1>1, <2>1, <2>2, NothingLookedAt DEF Progress
  <2>3. CASE overlapped'
    BY <1>1, <2>1, <2>3 DEF Progress, Slice
  <2> QED
    BY <2>1, <2>2, <2>3, <1>0 DEF TInv, TypeOK
<1>9. ASSUME NEW t \in Threads, Process(t) \/ Export(t) \/ Refuse(t) PROVE Progress(n, m)'
  <2>1. UNCHANGED <<feed, overlapped>>
    BY <1>9 DEF Process, Export, Refuse
  <2>2. \/ UNCHANGED <<left, endTime, accepted, at>>
        \/ /\ UNCHANGED <<left, endTime>> /\ t \in Handlers /\ at[t] = "consume"
           /\ \/ at' = [at EXCEPT ![t] = "clear"] /\ accepted' = accepted \cup {<<startTime, endTime>>}
              \/ at' = [at EXCEPT ![t] = "logs"] /\ accepted' = accepted
    <3>1. ASSUME NEW ok \in BOOLEAN, Return(t, ok)
          PROVE  \/ UNCHANGED <<rvars, accepted>>
                 \/ /\ UNCHANGED <<left, endTime>> /\ t \in Handlers /\ at[t] = "consume"
                    /\ at' = [at EXCEPT ![t] = IF ok THEN "clear" ELSE "logs"]
                    /\ accepted' = IF ok THEN accepted \cup {<<startTime, endTime>>} ELSE accepted
      BY <1>a, <3>1 DEF Return, Consumed, GotoHandler
    <3>2. \/ UNCHANGED <<rvars, accepted>>
          \/ Return(t, TRUE) \/ Return(t, FALSE)
      BY <1>9 DEF Process, Export, Refuse
    <3> QED
      BY <3>1, <3>2 DEF rvars
  <2>3. CASE UNCHANGED <<left, endTime, accepted, at>>
    BY <1>1, <2>1, <2>3, NothingLookedAt DEF Progress
  <2>4. CASE ~UNCHANGED <<left, endTime, accepted, at>>
    <3>1. ASSUME ~overlapped
          PROVE  /\ \A g \in Handlers : left[g] # <<>> => at'[g] = at[g]
                 /\ \A g \in Handlers : at'[g] = "clear" => \E a \in accepted' : a[2] = endTime'
      <4>1. t \in Handlers /\ at[t] = "consume" /\ left[t] = <<>>
        BY <1>1, <2>2, <2>4, <3>1 DEF Progress
      <4>2. \A g \in Handlers : g # t => at'[g] = at[g] /\ at[g] = "idle"
        BY <1>a, <1>b, <2>2, <2>4, <3>1, <4>1
      <4>3. at'[t] = "clear" => <<startTime, endTime>> \in accepted'
        BY <1>a, <2>2, <2>4, <4>1
      <4> QED
        BY <2>2, <2>4, <4>1, <4>2, <4>3
    <3>2. UNCHANGED <<left, endTime>> /\ accepted \subseteq accepted'
      BY <2>2, <2>4
    <3> QED
      BY <1>1, <2>1, <3>1, <3>2, NothingLookedAt
  <2> QED
    BY <2>3, <2>4
<1>10. CASE UNCHANGED vars
  <2>1. UNCHANGED <<feed, left, overlapped, endTime, accepted, at>>
    BY <1>10 DEF vars, rvars, ivars
  <2> QED
    BY <1>1, <2>1, NothingLookedAt DEF Progress
<1> QED
  BY <1>4, <1>5, <1>6, <1>7, <1>8, <1>9, <1>10 DEF Next, Handler

(* As long as goroutines do not overlap and the ends of init phases are      *)
(* posted in order, the end of the last one is not lost, for any number of   *)
(* init phases, however they are split into POSTs and however often the      *)
(* pipeline refuses a span.                                                  *)
THEOREM LastInitSpanKept ==
  ASSUME Chronological
  PROVE  Spec => []InitSpanKept
<1>1. KInv /\ [Next]_vars => KInv'
  BY KeptStep
<1>2. KInv => InitSpanKept
  <2> SUFFICES ASSUME KInv, Quiet, ~overlapped, NEW e \in Posted,
                      e.type = "initRuntimeDone",
                      \A f \in Posted : f.type = "initRuntimeDone" => f.of <= e.of
               PROVE  Kept(e.of)
    BY DEF InitSpanKept, Kept
  <2>a. PICK n \in 0..Len(Feed) : \E m \in 0..n : Progress(n, m)
    BY DEF KInv
  <2>1. PICK m \in 0..n : Progress(n, m)
    BY <2>a
  <2>2. m = n
    <3>1. \A h \in Handlers : at[h] = "idle"
      BY HandlersAssumption DEF KInv, LInv, Unhurt, Quiet, Active
    <3> QED
      BY <2>1, <3>1 DEF Progress
  <2>3. Len(feed) = Len(Feed) - n
    <3>1. Len(Feed) \in 0..Len(Feed) /\ n \in 0..Len(Feed)
      BY FeedAssumption
    <3>2. Len(Slice(n, Len(Feed))) = Len(Feed) - n
      BY <3>1, SliceFacts
    <3> QED
      BY <2>1, <3>2 DEF Progress
  <2>4. Posted = {Feed[i] : i \in 1..n}
    <3>1. Len(Feed) - Len(feed) = n /\ Feed \in Seq(Events)
      BY <2>3, FeedAssumption
    <3>2. /\ DOMAIN SubSeq(Feed, 1, n) = 1..n
          /\ \A i \in 1..n : SubSeq(Feed, 1, n)[i] = Feed[i]
      BY <3>1
    <3> QED
      BY <3>1, <3>2 DEF Posted, ToSet
  <2>5. PICK i \in 1..n : e = Feed[i]
    BY <2>4
  <2>6. Latest(i, n)
    BY <2>4, <2>5 DEF Latest, Ends
  <2> QED
    BY <2>1, <2>2, <2>5, <2>6 DEF Progress
<1> QED
  BY <1>1, <1>2, KeptInit, PTL DEF Spec
=============================================================================
