--------------------------- MODULE SpanPathProofs ---------------------------
(***************************************************************************)
(* What becomes of everything that enters: the log records of a POST, the  *)
(* function's own spans, and an init span and an execution that are both   *)
(* there, for any number of goroutines and any events and spans.           *)
(***************************************************************************)
EXTENDS InitSpanProofs

(* The receivers that are created for the signals of a configuration are     *)
(* one, and the server that has got the port is that one's.                  *)
OneReceiver ==
  /\ \A m, n \in Signals : inst[m] # 0 /\ inst[n] # 0 => inst[m] = inst[n]
  /\ shared = 0 => (\A n \in Signals : inst[n] = 0) \/ (\A n \in Signals : inst[n] # 0)
  /\ shared # 0 => \A n \in Signals : inst[n] # 0 => inst[n] = shared
  /\ \A n \in Signals : inst[n] # 0 => n \in next[inst[n]]
  /\ up # {} \/ startFailed => \A n \in Signals : inst[n] # 0
  /\ server # 0 => \A n \in Signals : inst[n] = server

(* What a handler has handed over and still has to hand over is what it got. *)
Records ==
  "logs" \in Signals =>
    \A h \in Handlers :
      /\ at[h] = "idle" => logs[h] = 0
      /\ at[h] # "idle" => server # 0
      /\ logged[h] + logs[h] = posted[h]

RInv == TInv /\ OneReceiver /\ Records

LEMMA ReceiverInit == Init => RInv
<1> SUFFICES ASSUME Init PROVE RInv
  OBVIOUS
<1>1. OneReceiver
  BY DEF Init, RInit, OneReceiver
<1>2. Records
  BY DEF Init, RInit, Records
<1> QED
  BY <1>1, <1>2, TypesInit DEF RInv

(* A receiver that is created is the one that is there.                      *)
LEMMA CreatedIsShared ==
  ASSUME RInv, NEW n \in Signals, CreateReceiver(n)
  PROVE  OneReceiver'
<1>1. /\ inst[n] = 0 /\ shared' = GetOrAdd /\ inst' = [inst EXCEPT ![n] = GetOrAdd]
      /\ next' = [next EXCEPT ![GetOrAdd] = @ \cup {n}] /\ UNCHANGED <<up, startFailed, server>>
  BY DEF CreateReceiver
<1>2. GetOrAdd \in Instances /\ GetOrAdd # 0
  BY <1>1, FreshExists DEF RInv, TInv, TypeOK, Instances
<1>3. \A m \in Signals : inst[m] # 0 => inst[m] = GetOrAdd
  BY <1>1 DEF RInv, OneReceiver, GetOrAdd
<1>4. /\ inst'[n] = GetOrAdd /\ \A m \in Signals : m # n => inst'[m] = inst[m]
      /\ next'[GetOrAdd] = next[GetOrAdd] \cup {n}
  BY <1>1, <1>2 DEF RInv, TInv, TypeOK, RTypeOK
<1>5. \A m \in Signals : inst'[m] # 0 => inst'[m] = GetOrAdd /\ m \in next'[GetOrAdd]
  BY <1>3, <1>4 DEF RInv, OneReceiver
<1>6. up = {} /\ ~startFailed /\ server = 0
  BY <1>1 DEF RInv, OneReceiver, TInv, TypeOK, RTypeOK, Instances
<1> QED
  BY <1>1, <1>2, <1>5, <1>6 DEF OneReceiver

(* A step that leaves the receivers and the records alone.                   *)
LEMMA SameRecords ==
  ASSUME OneReceiver, Records,
         UNCHANGED <<shared, inst, next, up, startFailed, server, logs, logged, posted>>,
         \A h \in Handlers : at'[h] = at[h] \/ (at[h] # "idle" /\ at'[h] # "idle")
  PROVE  OneReceiver' /\ Records'
BY DEF OneReceiver, Records

LEMMA ReceiverStep == RInv /\ [Next]_vars => RInv'
<1> SUFFICES ASSUME RInv, [Next]_vars PROVE RInv'
  OBVIOUS
<1>0. /\ TInv /\ TInv' /\ OneReceiver /\ Records
      /\ at \in [Handlers -> {"idle", "record", "consume", "clear", "logs", "panicked"}]
      /\ logs \in [Handlers -> Nat] /\ logged \in [Handlers -> Nat] /\ posted \in [Handlers -> Nat]
  BY TypesStep DEF RInv, TInv, TypeOK, RTypeOK
<1>1. ASSUME NEW n \in Signals, Create(n) PROVE RInv'
  <2>1. OneReceiver' /\ UNCHANGED <<server, at, logs, logged, posted>>
    BY <1>1, CreatedIsShared DEF Create, CreateReceiver
  <2> QED
    BY <1>0, <2>1 DEF RInv, Records
<1>2. ASSUME NEW n \in Signals, Start(n) PROVE RInv'
  <2>1. /\ \A m \in Signals : inst[m] # 0
        /\ server' = IF server = 0 THEN inst[n] ELSE server
        /\ UNCHANGED <<shared, inst, next, at, logs, logged, posted>>
    BY <1>2 DEF Start, StartReceiver
  <2>2. OneReceiver'
    BY <1>0, <2>1 DEF OneReceiver
  <2>3. Records'
    BY <1>0, <2>1 DEF Records
  <2> QED
    BY <1>0, <2>2, <2>3 DEF RInv
<1>3. ASSUME NEW n \in Signals, Shutdown(n) PROVE RInv'
  <2>1. /\ Signals \subseteq up \/ startFailed
        /\ shared' = 0
        /\ UNCHANGED <<inst, next, up, startFailed, server, at, logs, logged, posted>>
    BY <1>3 DEF Shutdown, ShutdownReceiver
  <2>2. \A m \in Signals : inst[m] # 0
    BY <1>0, <2>1 DEF OneReceiver
  <2>3. OneReceiver'
    BY <1>0, <2>1, <2>2 DEF OneReceiver
  <2> QED
    BY <1>0, <2>1, <2>3 DEF RInv, Records
<1>4. ASSUME NEW h \in Handlers, Post(h) PROVE RInv'
  <2>1. PICK k \in 1..Len(feed) : HandlePost(h, SubSeq(feed, 1, k))
    BY <1>4 DEF Post
  <2> DEFINE c == CreateLogs(SubSeq(feed, 1, k))
  <2>2. /\ server # 0 /\ at[h] = "idle" /\ at' = [at EXCEPT ![h] = "record"]
        /\ logs' = [logs EXCEPT ![h] = c] /\ posted' = [posted EXCEPT ![h] = @ + c]
        /\ UNCHANGED <<shared, inst, next, up, startFailed, server, logged>>
    BY <2>1 DEF HandlePost, GotoHandler
  <2>3. c \in Nat
    BY SeqFacts, RecordCount DEF RInv, TInv, Batches
  <2> HIDE DEF c
  <2>4. OneReceiver'
    BY <1>0, <2>2 DEF OneReceiver
  <2>5. Records'
    BY <1>0, <2>2, <2>3 DEF Records
  <2> QED
    BY <1>0, <2>4, <2>5 DEF RInv
<1>5. ASSUME NEW h \in Handlers, Handler(h) PROVE RInv'
  <2>1. CASE RecordEvent(h)
    BY <1>0, <2>1, SameRecords DEF RecordEvent, RInv
  <2>2. CASE NoInitSpan(h) \/ TornRead(h) \/ ClearTimes(h)
    <3>1. /\ UNCHANGED <<shared, inst, next, up, startFailed, server, logs, logged, posted>>
          /\ at[h] # "idle" /\ \E l \in {"logs", "panicked"} : at' = [at EXCEPT ![h] = l]
      BY <2>2 DEF NoInitSpan, TornRead, ClearTimes, GotoHandler, Recorded, LooksAt
    <3>2. \A g \in Handlers : at'[g] = at[g] \/ (at[g] # "idle" /\ at'[g] # "idle")
      BY <1>0, <3>1
    <3> QED
      BY <1>0, <3>1, <3>2, SameRecords DEF RInv
  <2>3. CASE ConsumeLogs(h)
    <3>1. /\ at[h] = "logs" /\ at' = [at EXCEPT ![h] = "idle"]
          /\ logged' = IF "logs" \in next[server] THEN [logged EXCEPT ![h] = @ + logs[h]] ELSE logged
          /\ logs' = [logs EXCEPT ![h] = 0]
          /\ UNCHANGED <<shared, inst, next, up, startFailed, server, posted>>
      BY <2>3 DEF ConsumeLogs, GotoHandler
    <3>2. OneReceiver'
      BY <1>0, <3>1 DEF OneReceiver
    <3>3. ASSUME "logs" \in Signals
          PROVE  logged' = [logged EXCEPT ![h] = @ + logs[h]]
      <4>1. server # 0
        BY <1>0, <3>1, <3>3 DEF Records
      <4>2. inst["logs"] = server /\ "logs" \in next[server]
        BY <1>0, <3>3, <4>1 DEF OneReceiver
      <4> QED
        BY <3>1, <4>2
    <3>4. Records'
      BY <1>0, <3>1, <3>3 DEF Records
    <3> QED
      BY <1>0, <3>2, <3>4 DEF RInv
  <2> QED
    BY <1>5, <2>1, <2>2, <2>3 DEF Handler
<1>6. ASSUME NEW h \in Handlers, SendInitSpan(h) PROVE RInv'
  <2>1. /\ UNCHANGED <<shared, inst, next, up, startFailed, server, logs, logged, posted>>
        /\ at[h] # "idle" /\ at' = [at EXCEPT ![h] = "consume"]
    BY <1>6 DEF SendInitSpan, CreatePlatformInitSpan, Recorded, GotoHandler
  <2>2. \A g \in Handlers : at'[g] = at[g] \/ (at[g] # "idle" /\ at'[g] # "idle")
    BY <1>0, <2>1
  <2> QED
    BY <1>0, <2>1, <2>2, SameRecords DEF RInv
<1>7. ASSUME NEW t \in Threads, Process(t) \/ Export(t) \/ Refuse(t) PROVE RInv'
  <2>1. UNCHANGED rvars \/ Return(t, TRUE) \/ Return(t, FALSE)
    BY <1>7 DEF Process, Export, Refuse
  <2>2. ASSUME NEW ok \in BOOLEAN, Return(t, ok)
        PROVE  \/ UNCHANGED rvars
               \/ /\ UNCHANGED <<shared, inst, next, up, startFailed, server, logs, logged, posted>>
                  /\ at[t] # "idle" /\ \E l \in {"clear", "logs"} : at' = [at EXCEPT ![t] = l]
    BY <2>2 DEF Return, Consumed, GotoHandler
  <2>3. /\ UNCHANGED <<shared, inst, next, up, startFailed, server, logs, logged, posted>>
        /\ \A g \in Handlers : at'[g] = at[g] \/ (at[g] # "idle" /\ at'[g] # "idle")
    BY <1>0, <2>1, <2>2 DEF rvars
  <2> QED
    BY <1>0, <2>3, SameRecords DEF RInv
<1>8. CASE UNCHANGED rvars
  BY <1>0, <1>8, SameRecords DEF rvars, RInv
<1> QED
  BY <1>1, <1>2, <1>3, <1>4, <1>5, <1>6, <1>7, <1>8 DEF Next, Call, vars

LEMMA ReceiverInvariant == Spec => []RInv
  BY ReceiverInit, ReceiverStep, PTL DEF Spec

(* Whatever handlers overlap and whatever becomes of the init span, the log  *)
(* records of a POST have been handed to the logs pipeline, once, when it is *)
(* answered: in whatever order the receivers of the signals are created and  *)
(* started, the server's is the one with the logs consumer.                  *)
THEOREM RecordsHandedOver == Spec => []LogsComplete
<1>1. RInv => LogsComplete
  <2> SUFFICES ASSUME RInv, "logs" \in Signals, NEW h \in Handlers, at[h] = "idle"
               PROVE  logged[h] = posted[h]
    BY DEF LogsComplete
  <2>1. logs[h] = 0 /\ logged[h] + logs[h] = posted[h] /\ logged[h] \in Nat
    BY DEF RInv, Records, TInv, TypeOK, RTypeOK
  <2> QED
    BY <2>1
<1> QED
  BY <1>1, ReceiverInvariant, PTL
-----------------------------------------------------------------------------
(* Where the function's spans are.  A span is told from the others: the      *)
(* function exports each once.  The unmarked ones, without faas.coldstart,   *)
(* are never taken out of their batch.                                       *)
FunctionSpans == SpansOf(Calls)
Unmarked == {s \in FunctionSpans : s.kind # "marked"}

NoRepeats(q) == \A i, j \in 1..Len(q) : q[i] = q[j] => i = j

Distinct(batches) ==
  /\ \A b \in batches : NoRepeats(b)
  /\ \A b, c \in batches : b # c => ToSet(b) \cap ToSet(c) = {}

(* The unmarked spans among the items are there once, in their own traces.   *)
Pass(items) ==
  /\ \A i, j \in 1..Len(items) :
       items[i].span = items[j].span /\ items[i].span \in Unmarked => i = j
  /\ \A i \in 1..Len(items) : items[i].span \in Unmarked => items[i].trace = items[i].span

(* The items of a goroutine's call, as long as it has not ended in a panic.  *)
Batch(t) == kept[t] \o td[t]
Holds(t) == IF step[t] = "panicked" THEN {} ELSE SpansIn(Batch(t)) \cap Unmarked

(* What is held is a cold start span, and a goroutine is at the step of the  *)
(* span that it visits.                                                      *)
Kinds ==
  /\ held \in {None, Blank} \/ held.kind \in ColdStarts
  /\ \A t \in Threads :
       /\ \A s \in SpansIn(td[t]) : s.kind \in ColdStarts \cup {"blank"} \/ s \in FunctionSpans
       /\ step[t] \in {"hold", "fillheld", "join"} => Visited(t).kind \in ColdStarts
       /\ step[t] \in {"store", "fillexec", "attach"} => Visited(t).kind = "execution"
       /\ step[t] = "keep" => reported \/ Visited(t).kind \in {"other", "blank"}
       /\ step[t] = "drop" => reported
       /\ t \in Handlers => \A s \in SpansIn(Batch(t)) : s.kind = "init"

(* An unmarked span is still to be exported, is in the batch of one          *)
(* goroutine, has left or was refused.                                       *)
Placed ==
  /\ \A s \in Unmarked : \/ s \in SpansOf(calls) \/ s \in SpansIn(exported) \/ s \in refused
                         \/ \E t \in Threads : s \in Holds(t)
  /\ SpansOf(calls) \cap SpansIn(exported) \cap Unmarked = {}
  /\ \A t \in Threads : /\ Holds(t) \cap SpansOf(calls) = {} /\ Holds(t) \cap SpansIn(exported) = {}
                        /\ \A u \in Threads : u # t => Holds(t) \cap Holds(u) = {}

Orderly ==
  /\ calls \subseteq Calls
  /\ Pass(exported) /\ \A t \in Threads : Pass(Batch(t))

PInv == TInv /\ Kinds /\ Orderly /\ Placed

LEMMA FunctionKinds ==
  FunctionSpans \subseteq Spans /\ \A s \in FunctionSpans : s.kind \in {"marked", "execution", "other"}
<1> SUFFICES ASSUME NEW s \in FunctionSpans
             PROVE  s \in Spans /\ s.kind \in {"marked", "execution", "other"}
  OBVIOUS
<1>1. PICK b \in Calls : s \in ToSet(b)
  BY DEF FunctionSpans, SpansOf
<1>2. b \in Seq({x \in Spans : x.kind # "init"})
  BY <1>1, CallsAssumption
<1>3. s \in {x \in Spans : x.kind # "init"}
  BY <1>1, <1>2 DEF ToSet
<1> QED
  BY <1>3 DEF Spans, ColdStarts

LEMMA EmptyFacts ==
  ToSet(<<>>) = {} /\ SpansIn(<<>>) = {} /\ Pass(<<>>) /\ <<>> \o <<>> = <<>>
BY DEF ToSet, SpansIn, Pass

LEMMA Associative ==
  ASSUME NEW p \in Seq(Items), NEW q \in Seq(Items), NEW r \in Seq(Items)
  PROVE  (p \o q) \o r = p \o (q \o r) /\ <<>> \o p = p /\ p \o <<>> = p
  OBVIOUS

(* Items that follow others.                                                 *)
LEMMA PassFacts ==
  ASSUME NEW q \in Seq(Items), NEW r \in Seq(Items)
  PROVE  /\ SpansIn(q \o r) = SpansIn(q) \cup SpansIn(r)
         /\ Pass(q \o r) <=> Pass(q) /\ Pass(r) /\ SpansIn(q) \cap SpansIn(r) \cap Unmarked = {}
<1>1. PICK m \in Nat, n \in Nat : m = Len(q) /\ n = Len(r)
  OBVIOUS
<1>2. /\ Len(q \o r) = m + n
      /\ \A i \in 1..m : (q \o r)[i] = q[i]
      /\ \A i \in 1..n : (q \o r)[m + i] = r[i]
  BY <1>1
<1>3. \A i \in 1..(m + n) : i \in 1..m \/ \E j \in 1..n : i = m + j
  <2> TAKE i \in 1..(m + n)
  <2>1. i \in 1..m \/ (i - m \in 1..n /\ i = m + (i - m))
    OBVIOUS
  <2> QED
    BY <2>1
<1>4. (\A i \in 1..m : i \in 1..(m + n)) /\ (\A i \in 1..n : m + i \in 1..(m + n))
  OBVIOUS
<1>5. SpansIn(q \o r) = SpansIn(q) \cup SpansIn(r)
  <2>1. SpansIn(q \o r) \subseteq SpansIn(q) \cup SpansIn(r)
    BY <1>1, <1>2, <1>3 DEF SpansIn
  <2>2. SpansIn(q) \subseteq SpansIn(q \o r) /\ SpansIn(r) \subseteq SpansIn(q \o r)
    BY <1>1, <1>2, <1>4 DEF SpansIn
  <2> QED
    BY <2>1, <2>2
<1>6. ASSUME Pass(q), Pass(r), SpansIn(q) \cap SpansIn(r) \cap Unmarked = {}
      PROVE  Pass(q \o r)
  <2>1. ASSUME NEW i \in 1..(m + n), (q \o r)[i].span \in Unmarked
        PROVE  (q \o r)[i].trace = (q \o r)[i].span
    BY <1>1, <1>2, <1>3, <1>6, <2>1 DEF Pass
  <2>2. ASSUME NEW i \in 1..(m + n), NEW j \in 1..(m + n),
               (q \o r)[i].span = (q \o r)[j].span, (q \o r)[i].span \in Unmarked
        PROVE  i = j
    <3>1. CASE i \in 1..m /\ j \in 1..m
      BY <1>1, <1>2, <1>6, <2>2, <3>1 DEF Pass
    <3>2. ASSUME NEW k \in 1..m, NEW l \in 1..n,
                 (q \o r)[k].span = (q \o r)[m + l].span, (q \o r)[k].span \in Unmarked
          PROVE  FALSE
      <4>1. q[k].span \in SpansIn(q) /\ r[l].span \in SpansIn(r)
        BY <1>1 DEF SpansIn
      <4>2. q[k].span = r[l].span /\ q[k].span \in Unmarked
        BY <1>2, <3>2
      <4> QED
        BY <1>6, <4>1, <4>2
    <3>3. ASSUME NEW k \in 1..n, NEW l \in 1..n, i = m + k, j = m + l
          PROVE  k = l
      BY <1>1, <1>2, <1>6, <2>2, <3>3 DEF Pass
    <3> QED
      BY <1>3, <2>2, <3>1, <3>2, <3>3
  <2> QED
    BY <1>1, <1>2, <2>1, <2>2 DEF Pass
<1>7. ASSUME Pass(q \o r) PROVE Pass(q) /\ Pass(r)
  <2>1. Pass(q)
    BY <1>1, <1>2, <1>4, <1>7 DEF Pass
  <2>2. \A i \in 1..n : r[i].span \in Unmarked => r[i].trace = r[i].span
    BY <1>2, <1>4, <1>7 DEF Pass
  <2>3. ASSUME NEW i \in 1..n, NEW j \in 1..n, r[i].span = r[j].span, r[i].span \in Unmarked
        PROVE  i = j
    <3>1. m + i = m + j
      BY <1>2, <1>4, <1>7, <2>3 DEF Pass
    <3> QED
      BY <3>1
  <2> QED
    BY <1>1, <2>1, <2>2, <2>3 DEF Pass
<1>8. ASSUME Pass(q \o r), NEW s \in Unmarked, s \in SpansIn(q), s \in SpansIn(r) PROVE FALSE
  <2>1. PICK i \in 1..m, j \in 1..n : q[i].span = s /\ r[j].span = s
    BY <1>1, <1>8 DEF SpansIn
  <2>2. i = m + j
    BY <1>2, <1>4, <1>8, <2>1 DEF Pass
  <2> QED
    BY <2>2
<1> QED
  BY <1>5, <1>6, <1>7, <1>8

LEMMA SingleItem ==
  ASSUME NEW x \in Items
  PROVE  /\ <<x>> \in Seq(Items) /\ SpansIn(<<x>>) = {x.span}
         /\ x.span \notin Unmarked => Pass(<<x>>)
<1>1. Len(<<x>>) = 1 /\ <<x>>[1] = x /\ 1..1 = {1}
  OBVIOUS
<1> QED
  BY <1>1 DEF SpansIn, Pass

(* A batch in which items have taken the place of others, none of them with  *)
(* an unmarked span.                                                         *)
Reworked(b, c) ==
  \E p, m, n, r \in Seq(Items) :
    /\ b = p \o (m \o r) /\ c = p \o (n \o r)
    /\ SpansIn(m) \cap Unmarked = {} /\ SpansIn(n) \cap Unmarked = {} /\ Pass(n)

LEMMA ReworkedPasses ==
  ASSUME NEW b, NEW c, Reworked(b, c)
  PROVE  /\ SpansIn(b) \cap Unmarked = SpansIn(c) \cap Unmarked
         /\ Pass(b) => Pass(c)
<1>1. PICK p \in Seq(Items), m \in Seq(Items), n \in Seq(Items), r \in Seq(Items) :
        /\ b = p \o (m \o r) /\ c = p \o (n \o r)
        /\ SpansIn(m) \cap Unmarked = {} /\ SpansIn(n) \cap Unmarked = {} /\ Pass(n)
  BY DEF Reworked
<1>2. m \o r \in Seq(Items) /\ n \o r \in Seq(Items)
  BY SeqFacts
<1>3. /\ SpansIn(b) = SpansIn(p) \cup SpansIn(m) \cup SpansIn(r)
      /\ SpansIn(c) = SpansIn(p) \cup SpansIn(n) \cup SpansIn(r)
      /\ SpansIn(n \o r) = SpansIn(n) \cup SpansIn(r)
      /\ SpansIn(m \o r) = SpansIn(m) \cup SpansIn(r)
  <2>1. SpansIn(n \o r) = SpansIn(n) \cup SpansIn(r) /\ SpansIn(m \o r) = SpansIn(m) \cup SpansIn(r)
    BY <1>1, PassFacts
  <2>2. SpansIn(b) = SpansIn(p) \cup SpansIn(m \o r) /\ SpansIn(c) = SpansIn(p) \cup SpansIn(n \o r)
    BY <1>1, <1>2, PassFacts
  <2> QED
    BY <2>1, <2>2
<1>4. ASSUME Pass(b) PROVE Pass(c)
  <2>1. Pass(p) /\ Pass(m \o r) /\ SpansIn(p) \cap SpansIn(m \o r) \cap Unmarked = {}
    BY <1>1, <1>2, <1>4, PassFacts
  <2>2. Pass(r)
    BY <2>1, PassFacts
  <2>3. Pass(n \o r)
    BY <1>1, <2>2, PassFacts
  <2>4. SpansIn(p) \cap SpansIn(n \o r) \cap Unmarked = {}
    BY <1>1, <1>3, <2>1
  <2> QED
    BY <1>1, <1>2, <2>1, <2>3, <2>4, PassFacts
<1> QED
  BY <1>1, <1>3, <1>4

LEMMA ReworkedSame ==
  ASSUME NEW b \in Seq(Items)
  PROVE  Reworked(b, b)
<1>1. <<>> \in Seq(Items) /\ b = b \o (<<>> \o <<>>)
  BY EmptySeqs, EmptyFacts, Associative
<1> QED
  BY <1>1, EmptyFacts DEF Reworked

LEMMA NotUnmarked ==
  ASSUME NEW s, s.kind \in ColdStarts \cup {"blank"}
  PROVE  s \notin Unmarked
BY FunctionKinds DEF Unmarked, ColdStarts

LEMMA VisitedFacts ==
  ASSUME TInv, NEW t \in Threads, td[t] # <<>>
  PROVE  /\ Visited(t) \in Spans \cup {Blank} /\ Head(td[t]) \in Items
         /\ Tail(td[t]) \in Seq(Items) /\ <<Head(td[t])>> \in Seq(Items)
         /\ td[t] = <<Head(td[t])>> \o Tail(td[t])
         /\ SpansIn(<<Head(td[t])>>) = {Visited(t)}
         /\ SpansIn(td[t]) = {Visited(t)} \cup SpansIn(Tail(td[t]))
<1>1. td[t] \in Seq(Items)
  BY DEF TInv, TypeOK, CTypeOK
<1>2. /\ Head(td[t]) \in Items /\ Tail(td[t]) \in Seq(Items)
      /\ td[t] = <<Head(td[t])>> \o Tail(td[t])
  BY <1>1, SeqFacts
<1>3. Visited(t) \in Spans \cup {Blank}
  BY <1>2 DEF Visited, Items
<1>4. <<Head(td[t])>> \in Seq(Items) /\ SpansIn(<<Head(td[t])>>) = {Visited(t)}
  BY <1>2, SingleItem DEF Visited
<1>5. SpansIn(td[t]) = SpansIn(<<Head(td[t])>>) \cup SpansIn(Tail(td[t]))
  BY <1>2, <1>4, PassFacts
<1> QED
  BY <1>2, <1>3, <1>4, <1>5

LEMMA JoiningFacts ==
  ASSUME NEW x \in Spans \cup {Blank}, NEW y \in Spans \cup {Blank}
  PROVE  /\ InTrace(x, y) \in Seq(Items) /\ SpansIn(InTrace(x, y)) = {x}
         /\ x \notin Unmarked => Pass(InTrace(x, y))
<1> DEFINE i == [span |-> x, trace |-> y]
<1>1. i \in Items /\ i.span = x /\ InTrace(x, y) = <<i>>
  BY DEF Items, InTrace
<1> HIDE DEF i
<1> QED
  BY <1>1, SingleItem

(* The visited item moves from one part of the batch to the other.           *)
LEMMA KeptBatch ==
  ASSUME TInv, NEW t \in Threads, td[t] # <<>>, Keep(t)
  PROVE  Batch(t)' = Batch(t)
<1>1. /\ kept[t] \in Seq(Items) /\ DOMAIN kept = Threads /\ DOMAIN td = Threads
  BY DEF TInv, TypeOK, CTypeOK
<1>2. /\ <<Head(td[t])>> \in Seq(Items) /\ Tail(td[t]) \in Seq(Items) /\ Head(td[t]) \in Items
      /\ td[t] = <<Head(td[t])>> \o Tail(td[t])
  BY VisitedFacts
<1>3. kept'[t] = kept[t] \o <<Head(td[t])>> /\ td'[t] = Tail(td[t])
  BY <1>1, <1>2, SeqFacts DEF Keep, Advance
<1> QED
  BY <1>1, <1>2, <1>3, Associative DEF Batch

(* What a step of the processor does with the batch.                         *)
LEMMA ProcessorBatch ==
  ASSUME TInv, Kinds, NEW t \in Threads, ProcessorStep(t)
  PROVE  /\ Reworked(Batch(t), Batch(t)')
         /\ \E l : step' = [step EXCEPT ![t] = l]
         /\ \A u \in Threads : u # t => /\ step'[u] = step[u] /\ td'[u] = td[u]
                                        /\ kept'[u] = kept[u]
<1>0. /\ kept[t] \in Seq(Items) /\ td[t] \in Seq(Items) /\ Batch(t) \in Seq(Items)
      /\ DOMAIN kept = Threads /\ DOMAIN td = Threads /\ DOMAIN step = Threads
      /\ step[t] \in Working => td[t] # <<>>
      /\ exec \in Spans \cup {None, Blank} /\ held \in Spans \cup {None, Blank}
  BY SeqFacts DEF TInv, TypeOK, CTypeOK, Batches, Batch
<1>1. /\ \E l : step' = [step EXCEPT ![t] = l]
      /\ \A u \in Threads : u # t => /\ step'[u] = step[u] /\ td'[u] = td[u]
                                     /\ kept'[u] = kept[u]
  <2>1. /\ \E l : step' = [step EXCEPT ![t] = l]
        /\ td' = td \/ \E q : td' = [td EXCEPT ![t] = q]
        /\ kept' = kept \/ \E q : kept' = [kept EXCEPT ![t] = q]
    BY DEF ProcessorStep, Look, KeepSpan, Hold, FillHeld, Join, Store, FillExec, Attach,
           NilDereference, Report, DropHeld, Processed, Keep, Advance, Goto
  <2> QED
    BY <1>0, <2>1
<1>2. ASSUME Batch(t)' = Batch(t) PROVE Reworked(Batch(t), Batch(t)')
  BY <1>0, <1>2, ReworkedSame
<1>3. CASE Look(t) \/ Hold(t) \/ Store(t) \/ NilDereference(t) \/ Report(t) \/ Processed(t)
  <2>1. UNCHANGED <<td, kept>>
    BY <1>3 DEF Look, Hold, Store, NilDereference, Report, Processed
  <2> QED
    BY <1>1, <1>2, <2>1 DEF Batch
<1>4. CASE KeepSpan(t) \/ FillExec(t) \/ DropHeld(t)
  <2>1. Keep(t) /\ step[t] \in Working
    BY <1>4 DEF KeepSpan, FillExec, DropHeld, Working
  <2> QED
    BY <1>0, <1>1, <1>2, <2>1, KeptBatch
<1>5. CASE FillHeld(t)
  <2>1. /\ td[t] # <<>> /\ Visited(t).kind \in ColdStarts
        /\ td'[t] = Tail(td[t]) /\ kept'[t] = kept[t]
    BY <1>0, <1>5 DEF FillHeld, Advance, Working, Kinds
  <2>2. /\ <<Head(td[t])>> \in Seq(Items) /\ Tail(td[t]) \in Seq(Items)
        /\ SpansIn(<<Head(td[t])>>) \cap Unmarked = {}
        /\ Batch(t) = kept[t] \o (<<Head(td[t])>> \o Tail(td[t]))
    BY <2>1, VisitedFacts, NotUnmarked DEF Batch
  <2>3. Batch(t)' = kept[t] \o (<<>> \o Tail(td[t])) /\ <<>> \in Seq(Items)
    BY <2>1, <2>2, Associative, EmptySeqs DEF Batch
  <2> QED
    BY <1>0, <1>1, <2>2, <2>3, EmptyFacts DEF Reworked
<1>6. CASE Join(t)
  <2> DEFINE n == InTrace(Visited(t), exec)
  <2>1. /\ td[t] # <<>> /\ Visited(t).kind \in ColdStarts /\ exec # None
        /\ td'[t] = n \o Tail(td[t]) /\ kept'[t] = kept[t]
    BY <1>0, <1>6 DEF Join, Working, Kinds, TInv, Batches
  <2>2. /\ <<Head(td[t])>> \in Seq(Items) /\ Tail(td[t]) \in Seq(Items)
        /\ SpansIn(<<Head(td[t])>>) \cap Unmarked = {}
        /\ Batch(t) = kept[t] \o (<<Head(td[t])>> \o Tail(td[t]))
    BY <2>1, VisitedFacts, NotUnmarked DEF Batch
  <2>3. n \in Seq(Items) /\ SpansIn(n) \cap Unmarked = {} /\ Pass(n)
    BY <1>0, <2>1, VisitedFacts, JoiningFacts, NotUnmarked
  <2> HIDE DEF n
  <2>4. Batch(t)' = kept[t] \o (n \o Tail(td[t]))
    BY <2>1 DEF Batch
  <2> QED
    BY <1>0, <1>1, <2>2, <2>3, <2>4 DEF Reworked
<1>7. CASE Attach(t)
  <2> DEFINE n == InTrace(held, Visited(t))
  <2>1. /\ td[t] # <<>> /\ held # None /\ held.kind \in ColdStarts \cup {"blank"}
        /\ td'[t] = td[t] \o n /\ kept'[t] = kept[t]
    BY <1>0, <1>7 DEF Attach, Working, Kinds, Blank
  <2>2. n \in Seq(Items) /\ SpansIn(n) \cap Unmarked = {} /\ Pass(n)
    <3>1. held \in Spans \cup {Blank} /\ Visited(t) \in Spans \cup {Blank}
      BY <1>0, <2>1, VisitedFacts
    <3>2. held \notin Unmarked
      BY <2>1, NotUnmarked
    <3> QED
      BY <3>1, <3>2, JoiningFacts
  <2> HIDE DEF n
  <2>3. Batch(t)' = Batch(t) \o (n \o <<>>) /\ Batch(t) = Batch(t) \o (<<>> \o <<>>)
    BY <1>0, <2>1, <2>2, Associative, EmptySeqs DEF Batch
  <2> QED
    BY <1>0, <1>1, <2>2, <2>3, EmptySeqs, EmptyFacts DEF Reworked
<1> QED
  BY <1>3, <1>4, <1>5, <1>6, <1>7 DEF ProcessorStep

(* The spans that are in a batch after a step of the processor.              *)
LEMMA ProcessorSpans ==
  ASSUME TInv, NEW t \in Threads, ProcessorStep(t)
  PROVE  \E S : /\ S = {} \/ (S = {held} /\ held # None /\ step[t] = "attach")
                /\ SpansIn(td'[t]) \subseteq SpansIn(td[t]) \cup S
                /\ SpansIn(Batch(t)') \subseteq SpansIn(Batch(t)) \cup S
<1>0. /\ kept[t] \in Seq(Items) /\ td[t] \in Seq(Items)
      /\ DOMAIN kept = Threads /\ DOMAIN td = Threads
      /\ step[t] \in Working => td[t] # <<>>
      /\ exec \in Spans \cup {None, Blank} /\ held \in Spans \cup {None, Blank}
      /\ SpansIn(Batch(t)) = SpansIn(kept[t]) \cup SpansIn(td[t])
  BY PassFacts DEF TInv, TypeOK, CTypeOK, Batches, Batch
<1>1. CASE Look(t) \/ Hold(t) \/ Store(t) \/ NilDereference(t) \/ Report(t) \/ Processed(t)
  <2>1. UNCHANGED <<td, kept>>
    BY <1>1 DEF Look, Hold, Store, NilDereference, Report, Processed
  <2> QED
    BY <2>1 DEF Batch
<1>2. CASE KeepSpan(t) \/ FillExec(t) \/ DropHeld(t)
  <2>1. Keep(t) /\ td[t] # <<>>
    BY <1>0, <1>2 DEF KeepSpan, FillExec, DropHeld, Working
  <2>2. td'[t] = Tail(td[t]) /\ Batch(t)' = Batch(t)
    BY <1>0, <2>1, KeptBatch DEF Keep, Advance
  <2>3. SpansIn(td'[t]) \subseteq SpansIn(td[t])
    BY <2>1, <2>2, VisitedFacts
  <2> QED
    BY <2>2, <2>3
<1>3. CASE FillHeld(t)
  <2>1. td[t] # <<>> /\ td'[t] = Tail(td[t]) /\ kept'[t] = kept[t]
    BY <1>0, <1>3 DEF FillHeld, Advance, Working
  <2>2. Tail(td[t]) \in Seq(Items) /\ SpansIn(td'[t]) \subseteq SpansIn(td[t])
    BY <2>1, VisitedFacts
  <2>3. SpansIn(Batch(t)') = SpansIn(kept[t]) \cup SpansIn(td'[t])
    BY <1>0, <2>1, <2>2, PassFacts DEF Batch
  <2> QED
    BY <1>0, <2>2, <2>3
<1>4. CASE Join(t)
  <2> DEFINE n == InTrace(Visited(t), exec)
  <2>1. td[t] # <<>> /\ exec # None /\ td'[t] = n \o Tail(td[t]) /\ kept'[t] = kept[t]
    BY <1>0, <1>4 DEF Join, Working, TInv, Batches
  <2>2. n \in Seq(Items) /\ SpansIn(n) = {Visited(t)} /\ Tail(td[t]) \in Seq(Items)
    BY <1>0, <2>1, VisitedFacts, JoiningFacts
  <2> HIDE DEF n
  <2>3. SpansIn(td'[t]) = SpansIn(td[t]) /\ td'[t] \in Seq(Items)
    <3>1. SpansIn(td'[t]) = {Visited(t)} \cup SpansIn(Tail(td[t])) /\ td'[t] \in Seq(Items)
      <4>1. SpansIn(n \o Tail(td[t])) = SpansIn(n) \cup SpansIn(Tail(td[t]))
        BY <2>2, PassFacts
      <4>2. n \o Tail(td[t]) \in Seq(Items)
        BY <2>2, SeqFacts
      <4> QED
        BY <2>1, <2>2, <4>1, <4>2
    <3>2. SpansIn(td[t]) = {Visited(t)} \cup SpansIn(Tail(td[t]))
      BY <2>1, VisitedFacts
    <3> QED
      BY <3>1, <3>2
  <2>4. SpansIn(Batch(t)') = SpansIn(kept[t]) \cup SpansIn(td'[t])
    BY <1>0, <2>1, <2>3, PassFacts DEF Batch
  <2> QED
    BY <1>0, <2>3, <2>4
<1>5. CASE Attach(t)
  <2> DEFINE n == InTrace(held, Visited(t))
  <2>1. /\ td[t] # <<>> /\ step[t] = "attach" /\ held # None
        /\ td'[t] = td[t] \o n /\ kept'[t] = kept[t]
    BY <1>0, <1>5 DEF Attach, Working
  <2>2. n \in Seq(Items) /\ SpansIn(n) = {held}
    BY <1>0, <2>1, VisitedFacts, JoiningFacts
  <2> HIDE DEF n
  <2>3. SpansIn(td'[t]) = SpansIn(td[t]) \cup {held} /\ td'[t] \in Seq(Items)
    BY <1>0, <2>1, <2>2, PassFacts, SeqFacts
  <2>4. SpansIn(Batch(t)') = SpansIn(kept[t]) \cup SpansIn(td'[t])
    BY <1>0, <2>1, <2>3, PassFacts DEF Batch
  <2> QED
    BY <1>0, <2>1, <2>3, <2>4
<1> QED
  BY <1>1, <1>2, <1>3, <1>4, <1>5 DEF ProcessorStep

(* The step of a goroutine after a step of the processor.                    *)
LEMMA ProcessorKinds ==
  ASSUME TInv, Kinds, NEW t \in Threads, ProcessorStep(t)
  PROVE  Kinds'
<1>0. /\ DOMAIN step = Threads /\ DOMAIN td = Threads /\ reported \in BOOLEAN
      /\ step[t] \in Working => td[t] # <<>>
      /\ held \in Spans \cup {None, Blank}
  BY DEF TInv, TypeOK, CTypeOK, Batches
<1>1. /\ \A u \in Threads : u # t => /\ step'[u] = step[u] /\ td'[u] = td[u]
                                     /\ Visited(u)' = Visited(u) /\ Batch(u)' = Batch(u)
      /\ reported => reported'
  <2>1. reported' = reported \/ reported' = TRUE
    BY DEF ProcessorStep, Look, KeepSpan, Hold, FillHeld, Join, Store, FillExec, Attach,
           NilDereference, Report, DropHeld, Processed
  <2> QED
    BY <1>0, <2>1, ProcessorBatch DEF Visited, Batch
<1>2. held' \in {None, Blank} \/ held'.kind \in ColdStarts
  <2>1. \/ held' \in {held, Blank, None}
        \/ step[t] = "fillheld" /\ held' = Visited(t)
    BY DEF ProcessorStep, Look, KeepSpan, Hold, FillHeld, Join, Store, FillExec, Attach,
           NilDereference, Report, DropHeld, Processed
  <2> QED
    BY <2>1 DEF Kinds
<1>3. PICK S : /\ S = {} \/ (S = {held} /\ held # None /\ step[t] = "attach")
               /\ SpansIn(td'[t]) \subseteq SpansIn(td[t]) \cup S
               /\ SpansIn(Batch(t)') \subseteq SpansIn(Batch(t)) \cup S
  BY ProcessorSpans
<1>4. \A s \in SpansIn(td'[t]) : s.kind \in ColdStarts \cup {"blank"} \/ s \in FunctionSpans
  <2>1. \A s \in S : s.kind \in ColdStarts \cup {"blank"}
    BY <1>0, <1>3 DEF Kinds, Blank
  <2> QED
    BY <1>3, <2>1 DEF Kinds
<1>5. t \in Handlers => \A s \in SpansIn(Batch(t)') : s.kind = "init"
  <2>1. ASSUME t \in Handlers PROVE step[t] # "attach"
    <3>1. ASSUME td[t] # <<>> PROVE Visited(t).kind = "init"
      <4>1. Visited(t) \in SpansIn(td[t])
        BY <3>1, VisitedFacts
      <4>2. SpansIn(td[t]) \subseteq SpansIn(Batch(t))
        BY PassFacts DEF Batch, TInv, TypeOK, CTypeOK
      <4> QED
        BY <2>1, <4>1, <4>2 DEF Kinds
    <3> QED
      BY <1>0, <3>1 DEF Kinds, Working
  <2> QED
    BY <1>3, <2>1 DEF Kinds
<1>6. /\ step'[t] \in {"hold", "fillheld", "join"} => (Visited(t)').kind \in ColdStarts
      /\ step'[t] \in {"store", "fillexec", "attach"} => (Visited(t)').kind = "execution"
      /\ step'[t] = "keep" => reported' \/ (Visited(t)').kind \in {"other", "blank"}
      /\ step'[t] = "drop" => reported'
  <2>1. CASE Look(t)
    <3>1. step'[t] = Decide(Visited(t)) /\ Visited(t)' = Visited(t) /\ reported' = reported
      BY <1>0, <2>1 DEF Look, Goto, Visited
    <3>2. Visited(t).kind \in ColdStarts \cup {"execution", "other", "blank"}
      <4>1. Visited(t) \in Spans \cup {Blank}
        BY <2>1, VisitedFacts DEF Look
      <4> QED
        BY <4>1 DEF Spans, Blank
    <3>3. /\ Decide(Visited(t)) \in {"keep", "hold", "join", "store", "attach"}
          /\ Decide(Visited(t)) \in {"hold", "join"} => Visited(t).kind \in ColdStarts
          /\ Decide(Visited(t)) \in {"store", "attach"} => Visited(t).kind = "execution"
          /\ Decide(Visited(t)) = "keep" => reported \/ Visited(t).kind \in {"other", "blank"}
      BY <1>0, <3>2 DEF Decide
    <3> QED
      BY <3>1, <3>3
  <2>2. CASE Hold(t) \/ Store(t)
    <3>1. /\ Visited(t)' = Visited(t)
          /\ \/ step[t] = "hold" /\ step'[t] = "fillheld"
             \/ step[t] = "store" /\ step'[t] = "fillexec"
      BY <1>0, <2>2 DEF Hold, Store, Goto, Visited
    <3> QED
      BY <3>1 DEF Kinds
  <2>3. CASE KeepSpan(t) \/ FillHeld(t) \/ FillExec(t) \/ DropHeld(t)
    BY <1>0, <2>3 DEF KeepSpan, FillHeld, FillExec, DropHeld, Keep, Advance, Goto
  <2>4. CASE NilDereference(t) \/ Join(t) \/ Attach(t) \/ Processed(t)
    BY <1>0, <2>4 DEF NilDereference, Join, Attach, Processed, Goto
  <2>5. CASE Report(t)
    BY <1>0, <2>5 DEF Report, Goto
  <2> QED
    BY <2>1, <2>2, <2>3, <2>4, <2>5 DEF ProcessorStep
<1> QED
  BY <1>1, <1>2, <1>4, <1>5, <1>6 DEF Kinds

LEMMA PathInit == Init => PInv
<1> SUFFICES ASSUME Init PROVE PInv
  OBVIOUS
<1>1. /\ held = None /\ calls = Calls /\ exported = <<>>
      /\ \A t \in Threads : step[t] = "out" /\ td[t] = <<>> /\ kept[t] = <<>>
  BY DEF Init, CInit
<1>2. /\ SpansIn(exported) = {} /\ Pass(exported) /\ SpansOf(calls) = FunctionSpans
      /\ \A t \in Threads : /\ SpansIn(td[t]) = {} /\ SpansIn(Batch(t)) = {}
                            /\ Pass(Batch(t)) /\ Holds(t) = {}
  BY <1>1, EmptyFacts DEF Batch, Holds, FunctionSpans
<1>3. Kinds
  BY <1>1, <1>2 DEF Kinds
<1>4. Orderly
  BY <1>1, <1>2 DEF Orderly
<1>5. Placed
  BY <1>1, <1>2 DEF Placed, Unmarked
<1> QED
  BY <1>3, <1>4, <1>5, TypesInit DEF PInv

LEMMA PathSame ==
  ASSUME PInv, TInv', UNCHANGED <<cdvars, calls, exported, refused>>
  PROVE  PInv'
<1>1. /\ \A t \in Threads : /\ Visited(t)' = Visited(t) /\ Batch(t)' = Batch(t)
                            /\ Holds(t)' = Holds(t)
      /\ SpansOf(calls)' = SpansOf(calls)
  BY DEF cdvars, Batch, Holds, Visited, SpansOf
<1>2. Kinds'
  BY <1>1 DEF PInv, Kinds, cdvars
<1>3. Orderly'
  BY <1>1 DEF PInv, Orderly
<1>4. Placed'
  BY <1>1 DEF PInv, Placed
<1> QED
  BY <1>2, <1>3, <1>4 DEF PInv

LEMMA PlainPasses ==
  ASSUME NEW batch \in Seq(Spans)
  PROVE  /\ SpansIn(Plain(batch)) = ToSet(batch)
         /\ NoRepeats(batch) => Pass(Plain(batch))
<1>1. PICK n \in Nat : n = Len(batch) /\ Len(Plain(batch)) = n /\ DOMAIN batch = 1..n
  BY PlainItems
<1>2. \A i \in 1..n : Plain(batch)[i].span = batch[i] /\ Plain(batch)[i].trace = batch[i]
  <2> TAKE i \in 1..n
  <2>1. Plain(batch)[i] = [span |-> batch[i], trace |-> batch[i]]
    BY <1>1, PlainItems
  <2> QED
    BY <2>1
<1>3. SpansIn(Plain(batch)) = ToSet(batch)
  BY <1>1, <1>2 DEF SpansIn, ToSet
<1>4. ASSUME NoRepeats(batch) PROVE Pass(Plain(batch))
  BY <1>1, <1>2, <1>4 DEF Pass, NoRepeats
<1> QED
  BY <1>3, <1>4

(* A batch enters the processor: one of the function's, which is then no     *)
(* longer to come, or an init span.                                          *)
LEMMA BatchEnters ==
  ASSUME PInv, NEW t \in Threads, NEW batch \in Seq(Spans), ProcessTraces(t, batch),
         NoRepeats(batch), UNCHANGED <<exported, refused>>, calls' \subseteq calls,
         SpansOf(calls) \cap Unmarked = (SpansOf(calls') \cup ToSet(batch)) \cap Unmarked,
         SpansOf(calls') \cap ToSet(batch) \cap Unmarked = {},
         IF t \in Handlers THEN \A s \in ToSet(batch) : s.kind = "init"
                           ELSE ToSet(batch) \subseteq FunctionSpans
  PROVE  Kinds' /\ Orderly' /\ Placed'
<1>0. /\ step[t] = "out" /\ td[t] = <<>> /\ kept[t] = <<>>
      /\ DOMAIN step = Threads /\ DOMAIN td = Threads /\ DOMAIN kept = Threads
  BY DEF PInv, ProcessTraces, TInv, TypeOK, CTypeOK, Batches
<1>1. /\ step'[t] = "look" /\ td'[t] = Plain(batch) /\ kept'[t] = <<>>
      /\ \A u \in Threads : u # t => step'[u] = step[u] /\ td'[u] = td[u] /\ kept'[u] = kept[u]
      /\ UNCHANGED <<reported, held, exec>>
  BY <1>0 DEF ProcessTraces, Plain, Goto
<1>2. /\ Batch(t)' = Plain(batch) /\ SpansIn(Plain(batch)) = ToSet(batch) /\ Pass(Plain(batch))
      /\ \A u \in Threads : u # t => Batch(u)' = Batch(u) /\ Visited(u)' = Visited(u)
  BY <1>1, PlainItems, PlainPasses, Associative DEF Batch, Visited
<1>3. /\ Holds(t) = {} /\ Holds(t)' = ToSet(batch) \cap Unmarked
      /\ \A u \in Threads : u # t => Holds(u)' = Holds(u)
  BY <1>0, <1>1, <1>2, EmptyFacts DEF Holds, Batch
<1>4. Kinds'
  <2>1. \A s \in ToSet(batch) : s.kind \in ColdStarts \cup {"blank"} \/ s \in FunctionSpans
    BY DEF ColdStarts
  <2> QED
    BY <1>0, <1>1, <1>2, <2>1 DEF PInv, Kinds
<1>5. Orderly'
  BY <1>2 DEF PInv, Orderly
<1>6. Placed'
  <2>1. SpansOf(calls)' = SpansOf(calls')
    BY DEF SpansOf
  <2>2. Placed
    BY DEF PInv
  <2>3. /\ SpansOf(calls') \cap Unmarked \subseteq SpansOf(calls)
        /\ Holds(t)' \subseteq SpansOf(calls) \cap Unmarked
        /\ Holds(t)' \cap SpansOf(calls') = {}
        /\ SpansOf(calls) \cap Unmarked \subseteq SpansOf(calls') \cup Holds(t)'
    BY <1>3
  <2>4. \A u \in Threads : Holds(u) \subseteq Unmarked
    BY DEF Holds
  <2> QED
    BY <1>3, <2>1, <2>2, <2>3, <2>4 DEF Placed
<1> QED
  BY <1>4, <1>5, <1>6

(* The handlers' spans are no spans of the function.                         *)
LEMMA HandlersHoldNone ==
  ASSUME Kinds, NEW h \in Handlers
  PROVE  Holds(h) = {}
<1>1. \A s \in SpansIn(Batch(h)) : s.kind \in ColdStarts \cup {"blank"}
  BY HandlersAssumption DEF Kinds, ColdStarts
<1> QED
  BY <1>1, NotUnmarked DEF Holds

(* A call ends, and its spans have left or are refused, or they stay where   *)
(* they are.                                                                 *)
LEMMA SpansMove ==
  ASSUME Placed, NEW t \in Threads, UNCHANGED calls, refused \subseteq refused',
         \A u \in Threads : u # t => Holds(u)' = Holds(u),
         \/ Holds(t)' = Holds(t) /\ exported' = exported
         \/ Holds(t)' = {} /\ exported' = exported /\ Holds(t) \subseteq refused'
         \/ /\ Holds(t)' = {}
            /\ SpansIn(exported') \cap Unmarked = (SpansIn(exported) \cap Unmarked) \cup Holds(t)
  PROVE  Placed'
<1>1. SpansOf(calls)' = SpansOf(calls) /\ SpansIn(exported)' = SpansIn(exported')
  BY DEF SpansOf, SpansIn
<1>2. \A u \in Threads : Holds(u) \subseteq Unmarked
  BY DEF Holds
<1>3. CASE Holds(t)' = Holds(t) /\ exported' = exported
  BY <1>1, <1>3 DEF Placed
<1>4. CASE Holds(t)' = {} /\ exported' = exported /\ Holds(t) \subseteq refused'
  BY <1>1, <1>4 DEF Placed
<1>5. CASE /\ Holds(t)' = {}
           /\ SpansIn(exported') \cap Unmarked = (SpansIn(exported) \cap Unmarked) \cup Holds(t)
  BY <1>1, <1>2, <1>5 DEF Placed
<1> QED
  BY <1>3, <1>4, <1>5

LEMMA PathStep == Distinct(Calls) /\ PInv /\ [Next]_vars => PInv'
<1> SUFFICES ASSUME Distinct(Calls), PInv, [Next]_vars PROVE PInv'
  OBVIOUS
<1>0. TInv /\ TInv' /\ Kinds /\ Orderly /\ Placed
  BY TypesStep DEF PInv
<1>1. ASSUME NEW n \in Signals, Create(n) \/ Start(n) \/ Shutdown(n) PROVE PInv'
  BY <1>0, <1>1, PathSame DEF Create, Start, Shutdown, ivars
<1>2. ASSUME NEW h \in Handlers, Post(h) PROVE PInv'
  BY <1>0, <1>2, PathSame DEF Post
<1>3. ASSUME NEW h \in Handlers, Handler(h) PROVE PInv'
  BY <1>0, <1>3, PathSame DEF Handler, ivars
<1>4. ASSUME NEW h \in Handlers, SendInitSpan(h) PROVE PInv'
  <2> DEFINE c == [kind |-> "init", of |-> startTime]
  <2>1. /\ ProcessTraces(h, <<c>>) /\ UNCHANGED <<calls, exported, refused>>
        /\ h \in Threads
    BY <1>4, HandlersAssumption DEF SendInitSpan, ivars
  <2>2. c \in Spans /\ c.kind = "init"
    BY <1>0 DEF TInv, TypeOK, RTypeOK, Spans, ColdStarts
  <2> HIDE DEF c
  <2>3. c \notin Unmarked
    BY <2>2, NotUnmarked DEF ColdStarts
  <2>4. <<c>> \in Seq(Spans) /\ ToSet(<<c>>) = {c} /\ NoRepeats(<<c>>)
    <3>1. Len(<<c>>) = 1 /\ <<c>>[1] = c /\ DOMAIN <<c>> = {1} /\ \A i, j \in 1..1 : i = j
      OBVIOUS
    <3> QED
      BY <2>2, <3>1 DEF ToSet, NoRepeats
  <2>5. Kinds' /\ Orderly' /\ Placed'
    BY <2>1, <2>2, <2>3, <2>4, BatchEnters
  <2> QED
    BY <1>0, <2>5 DEF PInv
<1>5. ASSUME NEW s \in Servers, Call(s) PROVE PInv'
  <2>1. PICK batch \in calls : ProcessTraces(s, batch) /\ calls' = calls \ {batch}
    BY <1>5 DEF Call
  <2>2. batch \in Seq(Spans) /\ calls \subseteq Calls /\ s \in Threads /\ s \notin Handlers
        /\ UNCHANGED <<exported, refused>>
    BY <1>0, <1>5, <2>1 DEF TInv, Batches, Orderly, Call, Servers
  <2>3. NoRepeats(batch) /\ ToSet(batch) \subseteq FunctionSpans
    BY <2>1, <2>2 DEF Distinct, FunctionSpans, SpansOf
  <2>4. SpansOf(calls) = SpansOf(calls') \cup ToSet(batch)
    BY <2>1 DEF SpansOf
  <2>5. SpansOf(calls') \cap ToSet(batch) = {}
    BY <2>1, <2>2 DEF Distinct, SpansOf
  <2>6. Kinds' /\ Orderly' /\ Placed'
    BY <2>1, <2>2, <2>3, <2>4, <2>5, BatchEnters
  <2> QED
    BY <1>0, <2>6 DEF PInv
<1>6. ASSUME NEW t \in Threads, Process(t) PROVE PInv'
  <2>1. ProcessorStep(t) /\ UNCHANGED <<calls, exported>> /\ refused \subseteq refused'
    BY <1>6 DEF Process, Fails
  <2>2. Kinds'
    BY <1>0, <2>1, ProcessorKinds
  <2>3. /\ \A u \in Threads : u # t => Batch(u)' = Batch(u) /\ step'[u] = step[u]
        /\ Reworked(Batch(t), Batch(t)') /\ step[t] # "panicked"
    <3>1. step[t] # "panicked"
      BY <2>1 DEF ProcessorStep, Look, KeepSpan, Hold, FillHeld, Join, Store, FillExec, Attach,
                  NilDereference, Report, DropHeld, Processed
    <3> QED
      BY <1>0, <2>1, <3>1, ProcessorBatch DEF Batch
  <2>4. SpansIn(Batch(t)) \cap Unmarked = SpansIn(Batch(t)') \cap Unmarked
        /\ (Pass(Batch(t)) => Pass(Batch(t)'))
    BY <2>3, ReworkedPasses
  <2>5. Orderly'
    BY <1>0, <2>1, <2>3, <2>4 DEF Orderly
  <2>6. CASE step'[t] # "panicked"
    <3>1. Holds(t)' = Holds(t) /\ \A u \in Threads : u # t => Holds(u)' = Holds(u)
      BY <2>3, <2>4, <2>6 DEF Holds
    <3> QED
      BY <1>0, <2>1, <2>2, <2>5, <3>1, SpansMove DEF PInv
  <2>7. CASE step'[t] = "panicked"
    <3>1. Holds(t)' = {} /\ \A u \in Threads : u # t => Holds(u)' = Holds(u)
      BY <2>3, <2>7 DEF Holds
    <3>2. Holds(t) \subseteq refused'
      <4>1. CASE t \in Servers
        <5>1. refused' = refused \cup ((SpansIn(td[t]) \cup SpansIn(kept[t])) \cap Spans)
          BY <1>6, <2>7, <4>1 DEF Process, Fails
        <5>2. SpansIn(Batch(t)) = SpansIn(kept[t]) \cup SpansIn(td[t])
          BY <1>0, PassFacts DEF Batch, TInv, TypeOK, CTypeOK
        <5> QED
          BY <5>1, <5>2, FunctionKinds DEF Holds, Unmarked
      <4>2. CASE t \in Handlers
        BY <1>0, <4>2, HandlersHoldNone
      <4> QED
        BY <4>1, <4>2 DEF Servers
    <3> QED
      BY <1>0, <2>1, <2>2, <2>5, <3>1, <3>2, SpansMove DEF PInv
  <2> QED
    BY <2>6, <2>7
<1>7. ASSUME NEW t \in Threads, Export(t) \/ Refuse(t) PROVE PInv'
  <2>1. /\ step[t] = "next" /\ step'[t] = "out" /\ kept'[t] = <<>> /\ td[t] = <<>>
        /\ \A u \in Threads : u # t => step'[u] = step[u] /\ kept'[u] = kept[u]
        /\ UNCHANGED <<reported, held, exec, td, calls>>
        /\ kept[t] \in Seq(Items) /\ exported \in Seq(Items)
    BY <1>0, <1>7 DEF Export, Refuse, NextReturns, Goto, TInv, TypeOK, CTypeOK, Batches
  <2>2. /\ Batch(t) = kept[t] /\ Batch(t)' = <<>> /\ SpansIn(<<>>) = {} /\ Pass(<<>>)
        /\ \A u \in Threads : u # t => Batch(u)' = Batch(u)
        /\ \A u \in Threads : Visited(u)' = Visited(u)
    BY <2>1, Associative, EmptyFacts DEF Batch, Visited
  <2>3. Kinds'
    BY <1>0, <2>1, <2>2 DEF Kinds
  <2>4. /\ Holds(t)' = {} /\ Holds(t) = SpansIn(kept[t]) \cap Unmarked
        /\ \A u \in Threads : u # t => Holds(u)' = Holds(u)
    BY <2>1, <2>2 DEF Holds
  <2>5. CASE Export(t)
    <3>1. exported' = exported \o kept[t] /\ refused' = refused
      BY <2>5 DEF Export
    <3>2. SpansIn(exported') = SpansIn(exported) \cup SpansIn(kept[t])
      BY <2>1, <3>1, PassFacts
    <3>3. Pass(exported')
      <4>1. Pass(exported) /\ Pass(kept[t])
        BY <1>0, <2>2 DEF Orderly
      <4>2. SpansIn(exported) \cap SpansIn(kept[t]) \cap Unmarked = {}
        BY <1>0, <2>4 DEF Placed
      <4> QED
        BY <2>1, <3>1, <4>1, <4>2, PassFacts
    <3>4. Orderly'
      BY <1>0, <2>1, <2>2, <3>3 DEF Orderly
    <3>5. Placed'
      BY <1>0, <2>1, <2>4, <3>1, <3>2, SpansMove
    <3> QED
      BY <1>0, <2>3, <3>4, <3>5 DEF PInv
  <2>6. CASE Refuse(t)
    <3>1. exported' = exported /\ refused \subseteq refused'
      BY <2>6 DEF Refuse, Fails
    <3>2. Holds(t) \subseteq refused'
      <4>1. CASE t \in Servers
        <5>1. SpansIn(kept[t]) \cap Spans \subseteq refused'
          BY <2>6, <4>1 DEF Refuse, Fails
        <5> QED
          BY <2>4, <5>1, FunctionKinds DEF Unmarked
      <4>2. CASE t \in Handlers
        BY <1>0, <4>2, HandlersHoldNone
      <4> QED
        BY <4>1, <4>2 DEF Servers
    <3>3. Orderly'
      BY <1>0, <2>1, <2>2, <3>1 DEF Orderly
    <3>4. Placed'
      BY <1>0, <2>1, <2>4, <3>1, <3>2, SpansMove
    <3> QED
      BY <1>0, <2>3, <3>3, <3>4 DEF PInv
  <2> QED
    BY <1>7, <2>5, <2>6
<1>8. CASE UNCHANGED vars
  BY <1>0, <1>8, PathSame DEF vars, ivars
<1> QED
  BY <1>1, <1>2, <1>3, <1>4, <1>5, <1>6, <1>7, <1>8 DEF Next

(* No call is in the processor when nobody is in the pipeline, but for those *)
(* that have panicked.                                                       *)
LEMMA QuietHoldsNothing ==
  ASSUME PInv, Waits, Quiet, NEW t \in Threads
  PROVE  Holds(t) = {}
<1>1. step[t] \in {"out", "panicked"}
  <2>1. step[t] # "out" /\ t \in Handlers => at[t] = "consume"
    BY DEF Waits
  <2> QED
    BY <2>1 DEF Quiet, Active, Servers
<1>2. step[t] = "out" => td[t] = <<>> /\ kept[t] = <<>>
  BY DEF PInv, TInv, Batches
<1> QED
  BY <1>1, <1>2, EmptyFacts DEF Holds, Batch

(* A span of the function without faas.coldstart has left the processor      *)
(* once, in its own trace, when nobody is in the pipeline and its batch did  *)
(* not end in an error: no call loses it, doubles it or puts it into another *)
(* trace, also when calls overlap and some of them panic, and whatever other *)
(* spans of the function are marked as a cold start.                         *)
THEOREM FunctionSpansLeave ==
  ASSUME Distinct(Calls)
  PROVE  Spec => []FunctionSpansPass
<1>1. PInv /\ [Next]_vars => PInv'
  BY PathStep
<1>2. Init => PInv
  BY PathInit
<1>3. PInv /\ LInv => FunctionSpansPass
  <2> SUFFICES ASSUME PInv, LInv, Quiet, NEW s \in Sent \ refused, s.kind # "marked"
               PROVE  /\ Copies(s) = 1
                      /\ \A i \in 1..Len(exported) : exported[i].span = s => exported[i].trace = s
    BY DEF FunctionSpansPass
  <2>1. s \in Unmarked /\ s \notin SpansOf(calls) /\ s \notin refused
    BY DEF Sent, FunctionSpans, Unmarked
  <2>2. \A t \in Threads : Holds(t) = {}
    BY QuietHoldsNothing DEF LInv
  <2>3. s \in SpansIn(exported)
    BY <2>1, <2>2 DEF PInv, Placed
  <2>4. Pass(exported)
    BY DEF PInv, Orderly
  <2>5. PICK i \in 1..Len(exported) : exported[i].span = s
    BY <2>3 DEF SpansIn
  <2>6. {j \in 1..Len(exported) : exported[j].span = s} = {i}
    BY <2>1, <2>4, <2>5 DEF Pass
  <2>7. Copies(s) = 1
    BY <2>6, FS_Singleton DEF Copies
  <2> QED
    BY <2>1, <2>4, <2>7 DEF Pass
<1> QED
  BY <1>1, <1>2, <1>3, OrderInvariant, PTL DEF Spec
-----------------------------------------------------------------------------
(* An init span and an execution that have both been there.  Once one of     *)
(* them has been visited it is held or stored, or the processor has          *)
(* reported.                                                                 *)
Seen ==
  /\ \A h \in Handlers :
       step[h] \in {"look", "next"} /\ td[h] = <<>> => reported \/ held # None
  /\ accepted # {} => reported \/ held # None
  /\ \A s \in FunctionSpans :
       /\ s.kind = "execution" /\ s \notin SpansOf(calls)
       /\ \A t \in Threads : s \notin SpansIn(td[t])
       => reported \/ exec # None

(* A cold start span among the items has joined the trace of one of the      *)
(* spans.                                                                    *)
HasLink(items, spans) ==
  \E i \in 1..Len(items) : IsLinked(items[i]) /\ items[i].trace \in spans

(* Without an overlap and without an error, a field is blank only while it   *)
(* is written, what is stored was exported by the function, and a processor  *)
(* that has reported, or is about to, has linked a cold start span to such   *)
(* an execution.                                                             *)
Joins ==
  /\ held = Blank => \E t \in Threads : step[t] = "fillheld"
  /\ exec = Blank => \E t \in Threads : step[t] = "fillexec"
  /\ exec \notin {None, Blank} => exec \in Sent /\ exec.kind = "execution"
  /\ \A t \in Threads : step[t] \in {"joined", "attached"} => HasLink(Batch(t), Sent)
  /\ reported => HasLink(exported, Sent) \/ \E t \in Threads : HasLink(Batch(t), Sent)

JInv == PInv /\ LInv /\ Seen /\ (~overlapped /\ failures = 0 => Joins)

LEMMA LinkIn ==
  ASSUME NEW q \in Seq(Items), NEW r \in Seq(Items), NEW S
  PROVE  HasLink(q, S) \/ HasLink(r, S) => HasLink(q \o r, S)
<1>1. PICK m \in Nat, n \in Nat : m = Len(q) /\ n = Len(r)
  OBVIOUS
<1>2. /\ Len(q \o r) = m + n
      /\ \A i \in 1..m : (q \o r)[i] = q[i] /\ i \in 1..(m + n)
      /\ \A i \in 1..n : (q \o r)[m + i] = r[i] /\ m + i \in 1..(m + n)
  BY <1>1
<1>3. HasLink(q, S) => HasLink(q \o r, S)
  BY <1>1, <1>2 DEF HasLink
<1>4. HasLink(r, S) => HasLink(q \o r, S)
  BY <1>1, <1>2 DEF HasLink
<1> QED
  BY <1>3, <1>4

LEMMA LinkedItem ==
  ASSUME NEW S, NEW x \in Spans, NEW y \in Spans, x.kind \in ColdStarts, y # x, y \in S
  PROVE  InTrace(x, y) \in Seq(Items) /\ HasLink(InTrace(x, y), S)
<1> DEFINE i == [span |-> x, trace |-> y]
<1>1. i \in Items /\ InTrace(x, y) = <<i>> /\ IsLinked(i) /\ i.trace \in S
  BY DEF Items, InTrace, IsLinked
<1> HIDE DEF i
<1>2. <<i>> \in Seq(Items) /\ 1 \in 1..Len(<<i>>) /\ <<i>>[1] = i
  BY <1>1
<1> QED
  BY <1>1, <1>2 DEF HasLink

LEMMA MoreSpans ==
  ASSUME NEW items, NEW S, NEW T, S \subseteq T, HasLink(items, S)
  PROVE  HasLink(items, T)
BY DEF HasLink

(* What a step of the processor has seen.                                    *)
LEMMA ProcessorSees ==
  ASSUME TInv, Kinds, Seen, NEW t \in Threads, ProcessorStep(t)
  PROVE  /\ reported \/ held # None => reported' \/ held' # None
         /\ reported \/ exec # None => reported' \/ exec' # None
         /\ t \in Handlers /\ step'[t] \in {"look", "next"} /\ td'[t] = <<>>
            => reported' \/ held' # None
         /\ step'[t] = "out" => step[t] = "look" /\ td[t] = <<>>
         /\ \A u \in Threads : u # t => step'[u] = step[u] /\ td'[u] = td[u]
         /\ \A s \in SpansIn(td[t]) \ SpansIn(td'[t]) :
              s.kind = "execution" => reported' \/ exec' # None
<1>0. /\ DOMAIN step = Threads /\ DOMAIN td = Threads /\ td[t] \in Seq(Items)
      /\ kept[t] \in Seq(Items) /\ reported \in BOOLEAN
      /\ held \in Spans \cup {None, Blank} /\ exec \in Spans \cup {None, Blank}
      /\ step[t] \in Working => td[t] # <<>>
      /\ step[t] = "join" => exec # None
  BY DEF TInv, TypeOK, CTypeOK, Batches
<1>n. None \notin Spans \cup {Blank}
  BY DEF None, Spans, Blank, ColdStarts
<1>1. ASSUME td[t] # <<>>
      PROVE  /\ Visited(t) # None /\ Visited(t) \in Spans \cup {Blank}
             /\ SpansIn(td[t]) = {Visited(t)} \cup SpansIn(Tail(td[t]))
             /\ t \in Handlers => Visited(t).kind = "init"
  <2>1. Visited(t) \in Spans \cup {Blank} /\ SpansIn(td[t]) = {Visited(t)} \cup SpansIn(Tail(td[t]))
    BY <1>1, VisitedFacts
  <2>2. SpansIn(td[t]) \subseteq SpansIn(Batch(t))
    BY <1>0, PassFacts DEF Batch
  <2> QED
    BY <1>n, <2>1, <2>2 DEF Kinds
<1>2. \A u \in Threads : u # t => step'[u] = step[u] /\ td'[u] = td[u]
  BY ProcessorBatch
<1>3. CASE Look(t) \/ Hold(t) \/ Store(t) \/ NilDereference(t) \/ Report(t)
  <2>1. /\ td' = td /\ (reported' = reported \/ reported' = TRUE)
        /\ held' \in {held, Blank} /\ exec' \in {exec, Blank}
        /\ step'[t] \notin {"look", "next", "out"}
    <3>1. CASE Look(t)
      <4>1. UNCHANGED <<reported, held, exec, td>> /\ step'[t] = Decide(Visited(t))
        BY <1>0, <3>1 DEF Look, Goto
      <4>2. Decide(Visited(t)) \in {"keep", "hold", "join", "store", "attach"}
        BY DEF Decide
      <4> QED
        BY <4>1, <4>2
    <3>2. CASE Hold(t) \/ Store(t) \/ NilDereference(t) \/ Report(t)
      BY <1>0, <3>2 DEF Hold, Store, NilDereference, Report, Goto
    <3> QED
      BY <1>3, <3>1, <3>2
  <2> QED
    BY <1>2, <1>n, <2>1
<1>4. CASE Processed(t)
  <2>1. step[t] = "look" /\ td[t] = <<>> /\ UNCHANGED <<reported, held, exec, td>>
    BY <1>4 DEF Processed
  <2> QED
    BY <1>2, <2>1 DEF Seen
<1>5. CASE KeepSpan(t) \/ FillHeld(t) \/ FillExec(t) \/ DropHeld(t)
  <2>1. /\ td[t] # <<>> /\ td'[t] = Tail(td[t]) /\ step'[t] = "look"
    <3>1. step[t] \in Working /\ Advance(t)
      BY <1>5 DEF KeepSpan, FillHeld, FillExec, DropHeld, Keep, Working
    <3> QED
      BY <1>0, <3>1 DEF Advance, Goto
  <2>2. /\ SpansIn(td[t]) \ SpansIn(td'[t]) \subseteq {Visited(t)} /\ Visited(t) # None
        /\ t \in Handlers => Visited(t).kind = "init"
    BY <1>1, <2>1
  <2>3. \/ step[t] = "keep" /\ UNCHANGED <<reported, held, exec>>
        \/ step[t] = "fillheld" /\ held' = Visited(t) /\ UNCHANGED <<reported, exec>>
        \/ step[t] = "fillexec" /\ exec' = Visited(t) /\ UNCHANGED <<reported, held>>
        \/ step[t] = "drop" /\ reported' = reported /\ exec' = exec
    BY <1>5 DEF KeepSpan, FillHeld, FillExec, DropHeld
  <2>4. /\ step[t] = "fillheld" => Visited(t).kind \in {"init", "marked"}
        /\ step[t] = "fillexec" => Visited(t).kind = "execution"
        /\ step[t] = "keep" => reported \/ Visited(t).kind \in {"other", "blank"}
        /\ step[t] = "drop" => reported
    BY DEF Kinds, ColdStarts
  <2> QED
    BY <1>2, <2>1, <2>2, <2>3, <2>4
<1>6. CASE Join(t) \/ Attach(t)
  <2>1. /\ UNCHANGED <<reported, held, exec>> /\ step'[t] \in {"joined", "attached"}
    BY <1>0, <1>6 DEF Join, Attach, Goto
  <2>2. SpansIn(td[t]) \subseteq SpansIn(td'[t])
    <3>1. CASE Join(t)
      <4>1. /\ td[t] # <<>> /\ exec \in Spans \cup {Blank}
            /\ td'[t] = InTrace(Visited(t), exec) \o Tail(td[t])
        BY <1>0, <3>1 DEF Join, Working
      <4>2. /\ InTrace(Visited(t), exec) \in Seq(Items) /\ Tail(td[t]) \in Seq(Items)
            /\ SpansIn(InTrace(Visited(t), exec)) = {Visited(t)}
        BY <4>1, VisitedFacts, JoiningFacts
      <4>3. SpansIn(td'[t]) = {Visited(t)} \cup SpansIn(Tail(td[t]))
        BY <4>1, <4>2, PassFacts
      <4> QED
        BY <1>1, <4>1, <4>3
    <3>2. CASE Attach(t)
      <4>1. /\ td[t] # <<>> /\ held \in Spans \cup {Blank}
            /\ td'[t] = td[t] \o InTrace(held, Visited(t))
        BY <1>0, <3>2 DEF Attach, Working
      <4>2. InTrace(held, Visited(t)) \in Seq(Items)
        BY <4>1, VisitedFacts, JoiningFacts
      <4> QED
        BY <1>0, <4>1, <4>2, PassFacts
    <3> QED
      BY <1>6, <3>1, <3>2
  <2> QED
    BY <1>2, <2>1, <2>2
<1> QED
  BY <1>3, <1>4, <1>5, <1>6 DEF ProcessorStep

LEMMA SeenStep ==
  ASSUME PInv, Seen, [Next]_vars
  PROVE  Seen'
<1>0. TInv /\ Kinds /\ DOMAIN step = Threads /\ DOMAIN td = Threads
  BY DEF PInv, TInv, TypeOK, CTypeOK
<1>a. \A h \in Handlers : h \in Threads /\ h \notin Servers
  BY HandlersAssumption DEF Servers
<1>1. ASSUME UNCHANGED <<cdvars, calls, accepted>> PROVE Seen'
  <2>1. (\A t \in Threads : SpansIn(td[t])' = SpansIn(td[t])) /\ SpansOf(calls)' = SpansOf(calls)
    BY <1>1 DEF cdvars, SpansIn, SpansOf
  <2> QED
    BY <1>1, <2>1 DEF Seen, cdvars
<1>2. ASSUME NEW h \in Handlers, SendInitSpan(h) PROVE Seen'
  <2> DEFINE batch == <<[kind |-> "init", of |-> startTime]>>
  <2>1. /\ step[h] = "out" /\ step' = [step EXCEPT ![h] = "look"]
        /\ td' = [td EXCEPT ![h] = Plain(batch)]
        /\ UNCHANGED <<reported, held, exec, calls, accepted>> /\ h \in Threads
    BY <1>2, HandlersAssumption DEF SendInitSpan, ProcessTraces, Plain, Goto, ivars
  <2>2. Plain(batch) # <<>>
    <3>1. batch \in Seq(Spans) /\ Len(batch) = 1
      BY <1>0 DEF Spans, ColdStarts, TInv, TypeOK, RTypeOK
    <3>2. Len(Plain(batch)) = 1
      BY <3>1, PlainItems
    <3> QED
      BY <3>2
  <2> HIDE DEF batch
  <2>3. \A t \in Threads : SpansIn(td[t]) \subseteq SpansIn(td'[t])
    <3>1. SpansIn(td[h]) = {}
      BY <1>0, <2>1, EmptyFacts DEF TInv, Batches
    <3>2. \A t \in Threads : t # h => td'[t] = td[t]
      BY <1>0, <2>1
    <3> QED
      BY <3>1, <3>2
  <2>4. /\ SpansOf(calls)' = SpansOf(calls)
        /\ \A t \in Threads : SpansIn(td[t])' = SpansIn(td'[t])
    BY <2>1 DEF SpansOf, SpansIn
  <2>5. \A g \in Handlers : step'[g] \in {"look", "next"} /\ td'[g] = <<>> =>
          step[g] \in {"look", "next"} /\ td[g] = <<>>
    BY <1>0, <1>a, <2>1, <2>2
  <2> QED
    BY <2>1, <2>3, <2>4, <2>5 DEF Seen
<1>3. ASSUME NEW s \in Servers, Call(s) PROVE Seen'
  <2>1. PICK batch \in calls :
          /\ step[s] = "out" /\ step' = [step EXCEPT ![s] = "look"]
          /\ td' = [td EXCEPT ![s] = Plain(batch)] /\ calls' = calls \ {batch}
          /\ UNCHANGED <<reported, held, exec, accepted>> /\ s \in Threads
    BY <1>3 DEF Call, ProcessTraces, Plain, Goto, Servers
  <2>2. \A h \in Handlers : step'[h] = step[h] /\ td'[h] = td[h]
    BY <1>0, <1>a, <2>1
  <2>3. SpansOf(calls) \subseteq SpansIn(td'[s]) \cup SpansOf(calls')
    <3>1. batch \in Seq(Spans) /\ td'[s] = Plain(batch)
      BY <1>0, <2>1 DEF TInv, Batches
    <3>2. SpansIn(td'[s]) = ToSet(batch)
      BY <3>1, PlainPasses
    <3>3. SpansOf(calls) \subseteq ToSet(batch) \cup SpansOf(calls')
      BY <2>1 DEF SpansOf
    <3> QED
      BY <3>2, <3>3
  <2>4. \A t \in Threads : SpansIn(td[t]) \subseteq SpansIn(td'[t])
    <3>1. SpansIn(td[s]) = {}
      BY <1>0, <2>1, EmptyFacts DEF TInv, Batches
    <3>2. \A t \in Threads : t # s => td'[t] = td[t]
      BY <1>0, <2>1
    <3> QED
      BY <3>1, <3>2
  <2>5. SpansOf(calls)' = SpansOf(calls') /\ \A t \in Threads : SpansIn(td[t])' = SpansIn(td'[t])
    BY DEF SpansOf, SpansIn
  <2>6. ASSUME NEW x \in FunctionSpans, x.kind = "execution", x \notin SpansOf(calls'),
               \A t \in Threads : x \notin SpansIn(td'[t])
        PROVE  reported' \/ exec' # None
    <3>1. x \notin SpansOf(calls) /\ \A t \in Threads : x \notin SpansIn(td[t])
      BY <2>1, <2>3, <2>4, <2>6
    <3> QED
      BY <2>1, <2>6, <3>1 DEF Seen
  <2> QED
    BY <2>1, <2>2, <2>5, <2>6 DEF Seen
<1>4. ASSUME NEW t \in Threads, Process(t) PROVE Seen'
  <2>1. ProcessorStep(t) /\ UNCHANGED calls
    BY <1>4 DEF Process
  <2>2. accepted' # {} => accepted # {} \/ (t \in Handlers /\ step'[t] = "out")
    BY <1>4, HandlersAssumption DEF Process, Return, Servers
  <2>3. accepted' # {} => reported' \/ held' # None
    BY <1>0, <2>1, <2>2, ProcessorSees DEF Seen
  <2>4. \A h \in Handlers :
          step'[h] \in {"look", "next"} /\ td'[h] = <<>> => reported' \/ held' # None
    BY <1>0, <1>a, <2>1, ProcessorSees DEF Seen
  <2>5. ASSUME NEW s \in FunctionSpans, s.kind = "execution", s \notin SpansOf(calls),
               \A u \in Threads : s \notin SpansIn(td'[u])
        PROVE  reported' \/ exec' # None
    <3>1. \A u \in Threads : u # t => s \notin SpansIn(td[u])
      BY <1>0, <2>1, <2>5, ProcessorSees
    <3>2. CASE s \in SpansIn(td[t])
      BY <1>0, <2>1, <2>5, <3>2, ProcessorSees
    <3>3. CASE s \notin SpansIn(td[t])
      BY <1>0, <2>1, <2>5, <3>1, <3>3, ProcessorSees DEF Seen
    <3> QED
      BY <3>2, <3>3
  <2>6. SpansOf(calls)' = SpansOf(calls) /\ \A u \in Threads : SpansIn(td[u])' = SpansIn(td'[u])
    BY <2>1 DEF SpansOf, SpansIn
  <2> QED
    BY <2>3, <2>4, <2>5, <2>6 DEF Seen
<1>5. ASSUME NEW t \in Threads, Export(t) \/ Refuse(t) PROVE Seen'
  <2>1. /\ step[t] = "next" /\ step' = [step EXCEPT ![t] = "out"]
        /\ UNCHANGED <<reported, held, exec, td, calls>>
    BY <1>5 DEF Export, Refuse, NextReturns, Goto
  <2>2. accepted' # {} => accepted # {} \/ t \in Handlers
    BY <1>5, HandlersAssumption DEF Export, Refuse, Return, Servers
  <2>3. accepted' # {} => reported \/ held # None
    BY <1>0, <2>1, <2>2 DEF Seen, TInv, Batches
  <2>4. (\A u \in Threads : SpansIn(td[u])' = SpansIn(td[u])) /\ SpansOf(calls)' = SpansOf(calls)
    BY <2>1 DEF SpansIn, SpansOf
  <2>5. \A h \in Handlers : step'[h] \in {"look", "next"} => step[h] \in {"look", "next"}
    BY <1>0, <1>a, <2>1
  <2> QED
    BY <2>1, <2>3, <2>4, <2>5 DEF Seen
<1>6. ASSUME NEW n \in Signals, Create(n) \/ Start(n) \/ Shutdown(n) PROVE Seen'
  BY <1>1, <1>6 DEF Create, Start, Shutdown, ivars
<1>7. ASSUME NEW h \in Handlers, Post(h) \/ Handler(h) PROVE Seen'
  BY <1>1, <1>7 DEF Post, Handler, ivars
<1>8. CASE UNCHANGED vars
  BY <1>1, <1>8 DEF vars, ivars
<1> QED
  BY <1>2, <1>3, <1>4, <1>5, <1>6, <1>7, <1>8 DEF Next


(* What is visited in an execution's step was exported by the function.      *)
LEMMA VisitedSent ==
  ASSUME PInv, NEW t \in Threads, step[t] \in {"store", "fillexec", "attach"}
  PROVE  /\ td[t] # <<>> /\ Visited(t) \in Spans
         /\ Visited(t).kind = "execution" /\ Visited(t) \in Sent
<1>1. TInv /\ Kinds /\ td[t] # <<>> /\ td[t] \in Seq(Items) /\ kept[t] \in Seq(Items)
  BY DEF PInv, TInv, TypeOK, CTypeOK, Batches, Working
<1>2. /\ Visited(t) \in Spans \cup {Blank} /\ Visited(t) \in SpansIn(td[t])
      /\ SpansIn(td[t]) \subseteq SpansIn(Batch(t))
  BY <1>1, VisitedFacts, PassFacts DEF Batch
<1>3. Visited(t).kind = "execution" /\ Visited(t) \in FunctionSpans
  BY <1>1, <1>2 DEF Kinds, ColdStarts
<1>4. Visited(t) \in Holds(t)
  BY <1>2, <1>3 DEF Holds, Unmarked
<1>5. Visited(t) \notin SpansOf(calls)
  BY <1>4 DEF PInv, Placed
<1> QED
  BY <1>1, <1>2, <1>3, <1>5 DEF Sent, FunctionSpans, Blank

(* A step of the processor while no other call is in it.                     *)
LEMMA ProcessorJoins ==
  ASSUME PInv, Fields, Joins, NEW t \in Threads, ProcessorStep(t),
         UNCHANGED <<calls, exported>>, \A u \in Threads : u # t => step[u] = "out"
  PROVE  Joins'
<1>0. /\ DOMAIN step = Threads /\ TInv /\ Kinds /\ reported \in BOOLEAN
      /\ kept[t] \in Seq(Items) /\ td[t] \in Seq(Items) /\ DOMAIN td = Threads
      /\ exec \in Spans \cup {None, Blank} /\ held \in Spans \cup {None, Blank}
      /\ step[t] \in Working => td[t] # <<>>
      /\ step[t] = "join" => exec # None
  BY DEF PInv, TInv, TypeOK, CTypeOK, Batches
<1>1. Sent' = Sent /\ HasLink(exported, Sent)' = HasLink(exported, Sent)
  BY DEF Sent, SpansOf, HasLink
<1>2. /\ (held = Blank => step[t] = "fillheld") /\ (exec = Blank => step[t] = "fillexec")
      /\ exec \notin {None, Blank} => exec \in Sent /\ exec.kind = "execution"
  BY DEF Joins
<1>3. \A u \in Threads : u # t => step'[u] = "out" /\ Batch(u)' = Batch(u)
  BY <1>0, ProcessorBatch DEF Batch
<1>n. /\ None \notin Spans /\ Blank \notin Spans /\ Blank # None
  BY DEF None, Blank, Spans, ColdStarts
<1>4. \A u \in Threads : HasLink(Batch(u), Sent)' = HasLink(Batch(u)', Sent)
  BY <1>1 DEF HasLink
<1>5. ASSUME Batch(t)' = Batch(t), step'[t] \notin {"joined", "attached"},
             reported' = reported \/ step[t] \in {"joined", "attached"}
      PROVE  /\ \A u \in Threads : step'[u] \in {"joined", "attached"} => HasLink(Batch(u), Sent)'
             /\ reported' =>
                  HasLink(exported, Sent)' \/ \E u \in Threads : HasLink(Batch(u), Sent)'
  BY <1>1, <1>3, <1>4, <1>5 DEF Joins
<1>6. ASSUME ~reported' PROVE
        reported' => HasLink(exported, Sent)' \/ \E u \in Threads : HasLink(Batch(u), Sent)'
  BY <1>6
<1>7. CASE Look(t) \/ NilDereference(t) \/ Processed(t)
  <2>1. /\ UNCHANGED <<held, exec, kept, td, reported>>
        /\ step[t] \in {"look", "attach"} \/ (step[t] = "fillheld" /\ held = None)
        /\ step'[t] \notin {"joined", "attached"}
    <3>1. CASE Look(t)
      <4>1. UNCHANGED <<held, exec, kept, td, reported>> /\ step'[t] = Decide(Visited(t))
            /\ step[t] = "look"
        BY <1>0, <3>1 DEF Look, Goto
      <4>2. Decide(Visited(t)) \in {"keep", "hold", "join", "store", "attach"}
        BY DEF Decide
      <4> QED
        BY <4>1, <4>2
    <3>2. CASE NilDereference(t) \/ Processed(t)
      BY <1>0, <3>2 DEF NilDereference, Processed, Goto
    <3> QED
      BY <1>7, <3>1, <3>2
  <2>2. held' # Blank /\ exec' # Blank /\ exec' = exec /\ Batch(t)' = Batch(t)
    BY <1>2, <1>n, <2>1 DEF Batch
  <2> QED
    BY <1>1, <1>2, <1>5, <2>1, <2>2 DEF Joins
<1>8. CASE Hold(t)
  <2>1. /\ step[t] = "hold" /\ step'[t] = "fillheld" /\ held' = Blank
        /\ UNCHANGED <<reported, exec, kept, td>>
    BY <1>0, <1>8 DEF Hold, Goto
  <2>2. Batch(t)' = Batch(t) /\ exec' # Blank /\ exec' = exec
    BY <1>2, <2>1 DEF Batch
  <2> QED
    BY <1>1, <1>2, <1>5, <2>1, <2>2 DEF Joins
<1>9. CASE Store(t)
  <2>1. /\ step[t] = "store" /\ step'[t] = "fillexec" /\ exec' = Blank
        /\ UNCHANGED <<reported, held, kept, td>>
    BY <1>0, <1>9 DEF Store, Goto
  <2>2. Batch(t)' = Batch(t) /\ held' # Blank
    BY <1>2, <2>1 DEF Batch
  <2> QED
    BY <1>1, <1>5, <2>1, <2>2 DEF Joins
<1>10. CASE FillHeld(t)
  <2>1. /\ step[t] = "fillheld" /\ held' = Visited(t) /\ UNCHANGED <<reported, exec>>
        /\ step'[t] = "look" /\ ~reported
    BY <1>0, <1>10 DEF FillHeld, Advance, Goto, Fields, Writers
  <2>2. Visited(t).kind \in ColdStarts
    BY <1>0, <2>1 DEF Kinds
  <2>3. held' # Blank /\ exec' # Blank /\ exec' = exec
    BY <1>2, <2>1, <2>2 DEF Blank, ColdStarts
  <2> QED
    BY <1>1, <1>2, <1>3, <1>6, <2>1, <2>3 DEF Joins
<1>11. CASE KeepSpan(t)
  <2>1. /\ step[t] = "keep" /\ Keep(t) /\ UNCHANGED <<reported, held, exec>>
        /\ step'[t] = "look" /\ td[t] # <<>>
    BY <1>0, <1>11 DEF KeepSpan, Keep, Advance, Goto, Working
  <2>2. held' # Blank /\ exec' # Blank /\ exec' = exec /\ Batch(t)' = Batch(t)
    BY <1>0, <1>2, <2>1, KeptBatch
  <2> QED
    BY <1>1, <1>2, <1>5, <2>1, <2>2 DEF Joins
<1>12. CASE FillExec(t)
  <2>1. /\ step[t] = "fillexec" /\ exec' = Visited(t) /\ Keep(t) /\ UNCHANGED <<reported, held>>
        /\ step'[t] = "look" /\ td[t] # <<>>
    BY <1>0, <1>12 DEF FillExec, Keep, Advance, Goto, Working
  <2>2. /\ held' # Blank /\ exec' # Blank /\ Batch(t)' = Batch(t)
        /\ exec' \in Sent /\ exec'.kind = "execution"
    BY <1>0, <1>2, <1>n, <2>1, KeptBatch, VisitedSent
  <2> QED
    BY <1>1, <1>5, <2>1, <2>2 DEF Joins
<1>13. CASE Join(t)
  <2>1. /\ step[t] = "join" /\ step'[t] = "joined" /\ UNCHANGED <<reported, held, exec, kept>>
        /\ td'[t] = InTrace(Visited(t), exec) \o Tail(td[t]) /\ td[t] # <<>>
    BY <1>0, <1>13 DEF Join, Goto, Working
  <2>2. /\ exec \in Spans /\ exec \in Sent /\ exec.kind = "execution" /\ ~reported
        /\ Visited(t) \in Spans /\ Visited(t).kind \in ColdStarts /\ Tail(td[t]) \in Seq(Items)
    <3>1. Visited(t).kind \in ColdStarts /\ ~reported
      BY <1>0, <2>1 DEF Kinds, Fields, Writers
    <3>2. Visited(t) \in Spans \cup {Blank} /\ Tail(td[t]) \in Seq(Items)
      BY <1>0, <2>1, VisitedFacts
    <3>3. Blank.kind \notin ColdStarts
      BY DEF Blank, ColdStarts
    <3>4. exec \in Spans /\ exec \in Sent /\ exec.kind = "execution"
      BY <1>0, <1>2, <2>1
    <3> QED
      BY <3>1, <3>2, <3>3, <3>4
  <2>3. InTrace(Visited(t), exec) \in Seq(Items) /\ HasLink(InTrace(Visited(t), exec), Sent)
    BY <2>2, LinkedItem DEF ColdStarts
  <2>4. td'[t] \in Seq(Items) /\ HasLink(td'[t], Sent)
    <3> DEFINE n == InTrace(Visited(t), exec)
    <3>1. n \in Seq(Items) /\ HasLink(n, Sent) /\ td'[t] = n \o Tail(td[t])
      BY <2>1, <2>3
    <3> HIDE DEF n
    <3>2. n \o Tail(td[t]) \in Seq(Items) /\ HasLink(n \o Tail(td[t]), Sent)
      BY <2>2, <3>1, LinkIn, SeqFacts
    <3> QED
      BY <3>1, <3>2
  <2>5. Batch(t)' = kept[t] \o td'[t]
    BY <2>1 DEF Batch
  <2>6. HasLink(Batch(t)', Sent)
    BY <1>0, <2>4, <2>5, LinkIn
  <2> QED
    BY <1>1, <1>2, <1>3, <1>4, <1>6, <2>1, <2>2, <2>6 DEF Joins
<1>14. CASE Attach(t)
  <2>1. /\ step[t] = "attach" /\ step'[t] = "attached" /\ UNCHANGED <<reported, held, exec, kept>>
        /\ td'[t] = td[t] \o InTrace(held, Visited(t)) /\ held # None
    BY <1>0, <1>14 DEF Attach, Goto
  <2>2. /\ Visited(t) \in Spans /\ Visited(t) \in Sent /\ Visited(t).kind = "execution" /\ ~reported
        /\ held \in Spans /\ held.kind \in ColdStarts
    BY <1>0, <1>2, <2>1, VisitedSent DEF Kinds, Fields, Writers
  <2>3. InTrace(held, Visited(t)) \in Seq(Items) /\ HasLink(InTrace(held, Visited(t)), Sent)
    BY <2>2, LinkedItem DEF ColdStarts
  <2>4. td'[t] \in Seq(Items) /\ HasLink(td'[t], Sent)
    BY <1>0, <2>1, <2>3, LinkIn, SeqFacts
  <2>5. Batch(t)' = kept[t] \o td'[t]
    BY <2>1 DEF Batch
  <2>6. HasLink(Batch(t)', Sent)
    BY <1>0, <2>4, <2>5, LinkIn
  <2> QED
    BY <1>1, <1>2, <1>3, <1>4, <1>6, <2>1, <2>2, <2>6 DEF Joins
<1>15. CASE Report(t)
  <2>1. /\ step[t] \in {"joined", "attached"} /\ step'[t] \in {"keep", "drop"}
        /\ UNCHANGED <<held, exec, td, kept>>
    BY <1>0, <1>15 DEF Report, Goto
  <2>2. Batch(t)' = Batch(t) /\ exec' # Blank /\ exec' = exec /\ held' # Blank
    BY <1>2, <2>1 DEF Batch
  <2>3. HasLink(Batch(t), Sent)'
    BY <1>4, <2>1, <2>2 DEF Joins
  <2> QED
    BY <1>1, <1>2, <1>3, <2>1, <2>2, <2>3 DEF Joins
<1>16. CASE DropHeld(t)
  <2>1. /\ step[t] = "drop" /\ held' = None /\ Keep(t) /\ UNCHANGED <<reported, exec>>
        /\ step'[t] = "look" /\ td[t] # <<>>
    BY <1>0, <1>16 DEF DropHeld, Keep, Advance, Goto, Working
  <2>2. held' # Blank /\ exec' # Blank /\ exec' = exec /\ Batch(t)' = Batch(t)
    BY <1>0, <1>2, <1>n, <2>1, KeptBatch
  <2> QED
    BY <1>1, <1>2, <1>5, <2>1, <2>2 DEF Joins
<1> QED
  BY <1>7, <1>8, <1>9, <1>10, <1>11, <1>12, <1>13, <1>14, <1>15, <1>16 DEF ProcessorStep

(* A step that changes no field and takes no link away.                      *)
LEMMA StillJoined ==
  ASSUME Joins, UNCHANGED <<reported, held, exec>>, Sent \subseteq Sent',
         \A t \in Threads : step[t] \in {"fillheld", "fillexec"} => step'[t] = step[t],
         \A t \in Threads : step'[t] \in {"joined", "attached"} =>
           step[t] = step'[t] /\ Batch(t)' = Batch(t),
         HasLink(exported, Sent) => HasLink(exported', Sent'),
         \A t \in Threads : HasLink(Batch(t), Sent) =>
           HasLink(Batch(t)', Sent') \/ HasLink(exported', Sent')
  PROVE  Joins'
<1>1. /\ HasLink(exported, Sent)' = HasLink(exported', Sent')
      /\ \A t \in Threads : HasLink(Batch(t), Sent)' = HasLink(Batch(t)', Sent')
  BY DEF HasLink
<1>2. \A t \in Threads : step'[t] \in {"joined", "attached"} => HasLink(Batch(t)', Sent')
  BY MoreSpans DEF Joins
<1> QED
  BY <1>1, <1>2 DEF Joins

LEMMA JoinedStep ==
  ASSUME PInv, PInv', LInv, Joins, [Next]_vars, ~overlapped, ~overlapped', failures' = 0
  PROVE  Joins'
<1>0. /\ TInv /\ Kinds /\ Waits /\ Alone /\ Unhurt /\ Fields
      /\ DOMAIN step = Threads /\ DOMAIN kept = Threads /\ DOMAIN td = Threads
  BY DEF PInv, LInv, TInv, TypeOK, CTypeOK
<1>a. /\ \A h \in Handlers : h \in Threads /\ h \notin Servers
      /\ \A t \in Threads : t \in Handlers \/ t \in Servers
  BY HandlersAssumption DEF Servers
<1>1. ASSUME UNCHANGED <<cdvars, calls, exported>> PROVE Joins'
  <2>1. Sent' = Sent /\ \A t \in Threads : Batch(t)' = Batch(t)
    BY <1>1 DEF Sent, SpansOf, Batch, cdvars
  <2> QED
    BY <1>1, <2>1, StillJoined DEF cdvars
<1>2. ASSUME NEW t \in Threads, NEW batch, ProcessTraces(t, batch), UNCHANGED exported,
             calls' \subseteq calls
      PROVE  Joins'
  <2>1. Sent \subseteq Sent'
    BY <1>2 DEF Sent, SpansOf
  <2>2. /\ step[t] = "out" /\ step'[t] = "look" /\ ~HasLink(Batch(t), Sent)
        /\ \A u \in Threads : u # t => step'[u] = step[u] /\ Batch(u)' = Batch(u)
        /\ UNCHANGED <<reported, held, exec>>
    BY <1>0, <1>2, EmptyFacts DEF ProcessTraces, Goto, Batch, HasLink, TInv, Batches
  <2>3. /\ HasLink(exported, Sent) => HasLink(exported, Sent')
        /\ \A u \in Threads : HasLink(Batch(u), Sent) => HasLink(Batch(u), Sent')
    BY <2>1, MoreSpans
  <2>4. \A u \in Threads : HasLink(Batch(u), Sent) => HasLink(Batch(u)', Sent')
    BY <2>2, <2>3
  <2> QED
    BY <1>2, <2>1, <2>2, <2>3, <2>4, StillJoined
<1>3. ASSUME NEW h \in Handlers, SendInitSpan(h) PROVE Joins'
  <2>1. UNCHANGED <<calls, exported>>
    BY <1>3 DEF SendInitSpan, ivars
  <2> QED
    BY <1>2, <1>3, <1>a, <2>1 DEF SendInitSpan
<1>4. ASSUME NEW s \in Servers, Call(s) PROVE Joins'
  <2>1. PICK batch \in calls : ProcessTraces(s, batch) /\ calls' = calls \ {batch}
    BY <1>4 DEF Call
  <2>2. UNCHANGED exported /\ s \in Threads
    BY <1>4 DEF Call, Servers
  <2> QED
    BY <1>2, <2>1, <2>2
<1>5. ASSUME NEW t \in Threads, Process(t) PROVE Joins'
  <2>1. ProcessorStep(t) /\ UNCHANGED <<calls, exported>>
    BY <1>5 DEF Process
  <2>2. step[t] # "out" /\ step[t] # "panicked"
    BY <2>1 DEF ProcessorStep, Look, KeepSpan, Hold, FillHeld, Join, Store, FillExec, Attach,
                NilDereference, Report, DropHeld, Processed
  <2>3. t \in Active
    BY <1>0, <1>a, <2>2 DEF Active, Waits
  <2>4. \A u \in Threads : u # t => step[u] = "out"
    BY <1>0, <2>3, AloneOutside
  <2> QED
    BY <1>0, <2>1, <2>4, ProcessorJoins
<1>6. ASSUME NEW t \in Threads, Export(t) PROVE Joins'
  <2>1. /\ step[t] = "next" /\ step' = [step EXCEPT ![t] = "out"] /\ td[t] = <<>>
        /\ kept' = [kept EXCEPT ![t] = <<>>] /\ exported' = exported \o kept[t]
        /\ UNCHANGED <<reported, held, exec, td, calls>>
        /\ kept[t] \in Seq(Items) /\ exported \in Seq(Items)
    BY <1>0, <1>6 DEF Export, NextReturns, Goto, TInv, TypeOK, CTypeOK, Batches
  <2>2. Sent' = Sent /\ Batch(t) = kept[t]
    BY <2>1, Associative DEF Sent, SpansOf, Batch
  <2>3. HasLink(exported, Sent) \/ HasLink(kept[t], Sent) => HasLink(exported', Sent')
    BY <2>1, <2>2, LinkIn
  <2>4. \A u \in Threads : /\ u # t => step'[u] = step[u] /\ Batch(u)' = Batch(u)
                           /\ step[u] \in {"fillheld", "fillexec"} => step'[u] = step[u]
                           /\ step'[u] \in {"joined", "attached"} => u # t
    BY <1>0, <2>1 DEF Batch
  <2>5. \A u \in Threads : HasLink(Batch(u), Sent) =>
          HasLink(Batch(u)', Sent') \/ HasLink(exported', Sent')
    BY <2>2, <2>3, <2>4
  <2> QED
    BY <2>1, <2>2, <2>3, <2>4, <2>5, StillJoined
<1>7. ASSUME NEW t \in Threads, Refuse(t) PROVE FALSE
  <2>1. failures' = failures + 1 /\ failures \in Nat
    BY <1>0, <1>7, FailuresAssumption DEF Refuse, TInv, TypeOK
  <2> QED
    BY <2>1
<1>8. ASSUME NEW n \in Signals, Create(n) \/ Start(n) \/ Shutdown(n) PROVE Joins'
  BY <1>1, <1>8 DEF Create, Start, Shutdown, ivars
<1>9. ASSUME NEW h \in Handlers, Post(h) \/ Handler(h) PROVE Joins'
  BY <1>1, <1>9 DEF Post, Handler, ivars
<1>10. CASE UNCHANGED vars
  BY <1>1, <1>10 DEF vars, ivars
<1> QED
  BY <1>3, <1>4, <1>5, <1>6, <1>7, <1>8, <1>9, <1>10 DEF Next

LEMMA JoinInit == Init => JInv
<1> SUFFICES ASSUME Init PROVE JInv
  OBVIOUS
<1>1. /\ reported = FALSE /\ held = None /\ exec = None /\ calls = Calls /\ accepted = {}
      /\ \A t \in Threads : step[t] = "out"
  BY DEF Init, CInit
<1>2. Seen
  BY <1>1, HandlersAssumption DEF Seen, FunctionSpans
<1>3. Joins
  BY <1>1 DEF Joins, None, Blank
<1> QED
  BY <1>2, <1>3, PathInit, OrderInit DEF JInv

LEMMA JoinStep == Distinct(Calls) /\ JInv /\ [Next]_vars => JInv'
<1> SUFFICES ASSUME Distinct(Calls), JInv, [Next]_vars PROVE JInv'
  OBVIOUS
<1>1. PInv' /\ LInv'
  BY PathStep, OrderStep DEF JInv
<1>2. Seen'
  BY SeenStep DEF JInv
<1>3. ASSUME ~overlapped', failures' = 0 PROVE ~overlapped /\ failures = 0
  <2>1. overlapped' = overlapped \/ (overlapped' = (overlapped \/ Active # {}))
    BY DEF Next, Create, Start, Shutdown, Post, Handler, SendInitSpan, Call, Process, Export,
           Refuse, Enter, ivars, vars
  <2>2. failures' = failures \/ failures' = failures + 1
    BY DEF Next, Create, Start, Shutdown, Post, Handler, SendInitSpan, Call, Process, Export,
           Refuse, Enter, ivars, vars
  <2>3. failures \in Nat /\ overlapped \in BOOLEAN
    BY FailuresAssumption DEF JInv, PInv, TInv, TypeOK
  <2> QED
    BY <1>3, <2>1, <2>2, <2>3
<1>4. ~overlapped' /\ failures' = 0 => Joins'
  BY <1>1, <1>3, JoinedStep DEF JInv
<1> QED
  BY <1>1, <1>2, <1>4 DEF JInv

(* When goroutines have not overlapped and no batch was refused, a cold      *)
(* start span and an execution never pass each other by: once an init span   *)
(* and an execution have been through the processor, in whatever order, a    *)
(* cold start span has joined the trace of an execution that the function    *)
(* exported.                                                                 *)
THEOREM InitSpanMeetsExecution ==
  ASSUME Distinct(Calls)
  PROVE  Spec => []InitSpanJoins
<1>1. JInv /\ [Next]_vars => JInv'
  BY JoinStep
<1>2. Init => JInv
  BY JoinInit
<1>3. JInv => InitSpanJoins
  <2> SUFFICES ASSUME JInv, Quiet, ~overlapped, failures = 0, accepted # {},
                      NEW s \in Sent, s.kind = "execution"
               PROVE  \E i \in 1..Len(exported) : Linked(i) /\ exported[i].trace \in Sent
    BY DEF InitSpanJoins
  <2>1. \A t \in Threads : step[t] = "out" /\ td[t] = <<>> /\ Batch(t) = <<>>
    <3>1. \A t \in Threads : step[t] = "out"
      <4>1. Waits /\ Unhurt
        BY DEF JInv, LInv
      <4> QED
        BY <4>1, HandlersAssumption DEF Waits, Unhurt, Quiet, Active, Servers
    <3> QED
      BY <3>1, EmptyFacts DEF JInv, PInv, TInv, Batches, Batch
  <2>2. held # None \/ reported
    BY DEF JInv, Seen
  <2>3. exec # None \/ reported
    <3>1. s \in FunctionSpans /\ s \notin SpansOf(calls)
      BY DEF Sent, FunctionSpans
    <3>2. \A t \in Threads : s \notin SpansIn(td[t])
      BY <2>1, EmptyFacts
    <3> QED
      BY <3>1, <3>2 DEF JInv, Seen
  <2>4. reported
    BY <2>2, <2>3 DEF JInv, LInv, Fields
  <2>5. HasLink(exported, Sent)
    <3>1. \A t \in Threads : ~HasLink(Batch(t), Sent)
      BY <2>1 DEF HasLink
    <3> QED
      BY <2>4, <3>1 DEF JInv, Joins
  <2> QED
    BY <2>5 DEF HasLink, Linked
<1> QED
  BY <1>1, <1>2, <1>3, PTL DEF Spec
=============================================================================
