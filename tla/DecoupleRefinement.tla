------------------------- MODULE DecoupleRefinement -------------------------
(***************************************************************************)
(* Decouple processors whose collector shuts down only after               *)
(* EnvironmentShutdown implement the abstract gate of ForwardGate, for     *)
(* every number of processors, every set of payloads and every queue size. *)
(***************************************************************************)
EXTENDS DecoupleProofs, SequenceTheorems

-----------------------------------------------------------------------------
(* Queues.  c is the channel, t what was ever sent, of which the first n     *)
(* payloads were handed on.                                                  *)

(* No stop is in the channel: it holds what is sent and not handed on. *)
Follows(c, t, n) ==
  /\ n + Len(c) = Len(t)
  /\ \A i \in 1..Len(c) : c[i] = t[n + i]

(* There is one stop in the channel, at place k. *)
StopAt(c, t, n, k) ==
  /\ n + Len(c) = Len(t) + 1
  /\ k \in 1..Len(c) /\ c[k] \in Stoppers
  /\ \A i \in 1..Len(c) : /\ i < k => c[i] = t[n + i]
                          /\ i > k => c[i] = t[n + i - 1]

LEMMA FollowsAppend ==
  ASSUME NEW c \in Seq(Items), NEW t \in Seq(Data), NEW n \in Nat, NEW d \in Data,
         Follows(c, t, n)
  PROVE  Follows(Append(c, d), Append(t, d), n)
  BY DEF Follows, Items

LEMMA FollowsStop ==
  ASSUME NEW c \in Seq(Items), NEW t \in Seq(Data), NEW n \in Nat, NEW s \in Stoppers,
         Follows(c, t, n)
  PROVE  n <= Len(t) /\ StopAt(Append(c, s), t, n, Len(t) - n + 1)
  BY DEF Follows, StopAt, Items

LEMMA FollowsTail ==
  ASSUME NEW c \in Seq(Items), NEW t \in Seq(Data), NEW n \in Nat,
         Follows(c, t, n), c # <<>>
  PROVE  /\ n < Len(t) /\ Head(c) = t[n + 1] /\ Head(c) \in Data
         /\ Follows(Tail(c), t, n + 1)
<1>1. Len(c) \in Nat /\ Len(c) > 0 /\ Len(t) \in Nat
  OBVIOUS
<1>2. n < Len(t) /\ Head(c) = t[n + 1]
  BY <1>1 DEF Follows
<1>3. Head(c) \in Data
  BY <1>1, <1>2
<1>4. /\ Tail(c) \in Seq(Items) /\ Len(Tail(c)) = Len(c) - 1
      /\ \A i \in 1..Len(Tail(c)) : Tail(c)[i] = c[i + 1]
  BY HeadTailProperties
<1> QED
  BY <1>1, <1>2, <1>3, <1>4 DEF Follows

LEMMA StopAtAppend ==
  ASSUME NEW c \in Seq(Items), NEW t \in Seq(Data), NEW n \in Nat, NEW d \in Data,
         NEW k \in Int, StopAt(c, t, n, k)
  PROVE  StopAt(Append(c, d), Append(t, d), n, k)
<1>1. /\ Len(c) \in Nat /\ Len(t) \in Nat /\ n + Len(c) = Len(t) + 1
      /\ k \in 1..Len(c) /\ c[k] \in Stoppers
  BY DEF StopAt
<1>2. /\ Len(Append(c, d)) = Len(c) + 1 /\ Len(Append(t, d)) = Len(t) + 1
      /\ \A i \in 1..Len(c) : Append(c, d)[i] = c[i]
      /\ \A i \in 1..Len(t) : Append(t, d)[i] = t[i]
      /\ Append(c, d)[Len(c) + 1] = d /\ Append(t, d)[Len(t) + 1] = d
  BY AppendProperties DEF Items
<1>3. ASSUME NEW i \in 1..Len(Append(c, d))
      PROVE  /\ i < k => Append(c, d)[i] = Append(t, d)[n + i]
             /\ i > k => Append(c, d)[i] = Append(t, d)[n + i - 1]
  <2>1. CASE i = Len(c) + 1
    BY <1>1, <1>2, <2>1
  <2>2. CASE i \in 1..Len(c)
    BY <1>1, <1>2, <2>2 DEF StopAt
  <2> QED
    BY <1>1, <1>2, <2>1, <2>2
<1>4. /\ n + Len(Append(c, d)) = Len(Append(t, d)) + 1
      /\ k \in 1..Len(Append(c, d)) /\ Append(c, d)[k] \in Stoppers
  <2>1. Append(c, d)[k] = c[k]
    BY <1>1, <1>2
  <2> QED
    BY <1>1, <1>2, <2>1
<1> QED
  BY <1>3, <1>4 DEF StopAt

LEMMA StopAtHead ==
  ASSUME NEW c \in Seq(Items), NEW t \in Seq(Data), NEW n \in Nat,
         NEW k \in Int, StopAt(c, t, n, k)
  PROVE  /\ Head(c) \in Stoppers => k = 1 /\ Follows(Tail(c), t, n)
         /\ Head(c) \in Data => /\ n < Len(t) /\ Head(c) = t[n + 1]
                                /\ StopAt(Tail(c), t, n + 1, k - 1)
<1>1. Len(c) \in Nat /\ Len(c) > 0 /\ Len(t) \in Nat /\ k \in 1..Len(c) /\ c # <<>>
  BY DEF StopAt
<1>2. /\ Tail(c) \in Seq(Items) /\ Len(Tail(c)) = Len(c) - 1
      /\ \A i \in 1..Len(Tail(c)) : Tail(c)[i] = c[i + 1]
      /\ Head(c) = c[1]
  BY <1>1, HeadTailProperties
<1>3. ASSUME Head(c) \in Stoppers PROVE k = 1 /\ Follows(Tail(c), t, n)
  <2>1. k = 1
    <3> SUFFICES ASSUME k > 1 PROVE FALSE
      BY <1>1
    <3>1. c[1] = t[n + 1] /\ n + 1 \in 1..Len(t)
      BY <1>1 DEF StopAt
    <3>2. c[1] \in Data
      BY <3>1
    <3> QED
      BY <1>2, <1>3, <3>2, DataAssumption
  <2> QED
    BY <1>1, <1>2, <2>1 DEF Follows, StopAt
<1>4. ASSUME Head(c) \in Data
      PROVE n < Len(t) /\ Head(c) = t[n + 1] /\ StopAt(Tail(c), t, n + 1, k - 1)
  <2>1. k > 1
    <3> SUFFICES ASSUME k = 1 PROVE FALSE
      BY <1>1
    <3> QED
      BY <1>2, <1>4, DataAssumption DEF StopAt
  <2>2. n < Len(t) /\ Head(c) = t[n + 1]
    BY <1>1, <1>2, <2>1 DEF StopAt
  <2>3. k - 1 \in 1..Len(Tail(c)) /\ Tail(c)[k - 1] \in Stoppers
    BY <1>1, <1>2, <2>1 DEF StopAt
  <2> QED
    BY <1>1, <1>2, <2>1, <2>2, <2>3 DEF StopAt
<1> QED
  BY <1>3, <1>4
-----------------------------------------------------------------------------
(* The invariant of an orderly life.                                         *)

Handed(p) == Len(handed[p])

(* A stop is in the channel as long as a stopper has not returned and the    *)
(* forwarder still runs.                                                     *)
StopPending(p) == wg[p] = 1 /\ \E s \in Stoppers : stop[p][s] # "out"

(* Who may be inside stopForwardingData, and when the forwarder runs. *)
Calls(p) ==
  /\ ~closed[p] => stop[p]["collector"] = "out"
  /\ closed[p] => phase[p] = "shutdown"
  /\ phase[p] # "idle" => stop[p]["manager"] = "out"
  /\ closed[p] /\ stop[p]["collector"] = "out" => wg[p] = 0
  /\ phase[p] # "idle" /\ ~closed[p] => wg[p] = 1
  /\ \A s \in Stoppers : /\ stop[p][s] = "waiting" => wg[p] = 1
                        /\ stop[p][s] = "woken" => wg[p] = 0
                        /\ stop[p][s] # "panicked"

(* What the channel holds. *)
Contents(p) ==
  IF StopPending(p)
  THEN mark[p] <= Len(sent[p]) /\ StopAt(chan[p], sent[p], Handed(p), mark[p] - Handed(p) + 1)
  ELSE mark[p] <= Handed(p) /\ Follows(chan[p], sent[p], Handed(p))

Orderly == \A p \in Processors : Calls(p) /\ Contents(p)

OInv == FInv /\ Orderly

LEMMA OrderlyInit == Init => Orderly
<1> SUFFICES ASSUME Init, NEW p \in Processors PROVE Calls(p) /\ Contents(p)
  BY DEF Orderly
<1>1. /\ chan[p] = <<>> /\ sent[p] = <<>> /\ handed[p] = <<>>
      /\ wg[p] = 0 /\ mark[p] = 0 /\ phase[p] = "idle" /\ closed[p] = FALSE
      /\ \A s \in Stoppers : stop[p][s] = "out"
  BY DEF Init, DInit
<1>2. Calls(p)
  BY <1>1 DEF Calls, Stoppers
<1>3. ~StopPending(p) /\ Follows(chan[p], sent[p], Handed(p)) /\ Handed(p) = 0
  BY <1>1 DEF StopPending, Follows, Handed
<1> QED
  BY <1>1, <1>2, <1>3 DEF Contents

(* The facts about one processor that the steps below start from. *)
LEMMA OInvFacts ==
  ASSUME OInv, NEW p \in Processors
  PROVE  /\ chan[p] \in Seq(Items) /\ sent[p] \in Seq(Data) /\ handed[p] \in Seq(Data)
         /\ Handed(p) \in Nat /\ mark[p] \in Nat /\ Len(sent[p]) \in Nat
         /\ mark[p] - Handed(p) + 1 \in Int
         /\ wg[p] = 0 \/ wg[p] = 1
         /\ idle[p] > 0 => wg[p] = 1 /\ idle[p] = 1 /\ inflight[p] = {}
         /\ inflight[p] # {} => wg[p] = 1
         /\ Calls(p) /\ Contents(p)
<1> USE DEF OInv, FInv, TypeOK, DTypeOK, Orderly, Handed
<1>1. /\ chan[p] \in Seq(Items) /\ sent[p] \in Seq(Data) /\ handed[p] \in Seq(Data)
      /\ mark[p] \in Nat /\ idle[p] \in Nat
  OBVIOUS
<1>2. OneForwarder(p) /\ Calls(p) /\ Contents(p)
  BY DEF Forwarders
<1>3. Handed(p) \in Nat /\ Len(sent[p]) \in Nat
  BY <1>1
<1> QED
  BY <1>1, <1>2, <1>3 DEF OneForwarder

(* A processor that a step leaves alone keeps its part of the invariant. *)
Mine(p) == <<chan[p], wg[p], stop[p], sent[p], handed[p], mark[p], phase[p], closed[p]>>

LEMMA Untouched ==
  ASSUME NEW p, Calls(p), Contents(p), UNCHANGED Mine(p)
  PROVE  Calls(p)' /\ Contents(p)'
  BY DEF Mine, Calls, Contents, StopPending, Handed
-----------------------------------------------------------------------------
(* Every action keeps the acting processor orderly and leaves the others     *)
(* alone.                                                                    *)

Kept(p) == Calls(p)' /\ Contents(p)' /\ \A q \in Processors \ {p} : UNCHANGED Mine(q)

LEMMA QueueKeeps ==
  ASSUME OInv, NEW p \in Processors, Queue(p)
  PROVE  Kept(p)
<1> PICK d \in Data : QueueData(p, d) /\ UNCHANGED <<phase, closed>>
  BY DEF Queue
<1>1. /\ chan'[p] = Append(chan[p], d) /\ sent'[p] = Append(sent[p], d)
      /\ UNCHANGED <<wg, stop, handed, mark, phase, closed>>
      /\ \A q \in Processors \ {p} : UNCHANGED Mine(q)
  BY DEF QueueData, OInv, FInv, TypeOK, DTypeOK, Mine
<1>2. Calls(p)' /\ (StopPending(p)' <=> StopPending(p)) /\ Handed(p)' = Handed(p)
  BY <1>1, OInvFacts DEF Calls, StopPending, Handed
<1>3. CASE StopPending(p)
  <2>1. mark[p] <= Len(sent[p]) /\ StopAt(chan[p], sent[p], Handed(p), mark[p] - Handed(p) + 1)
    BY <1>3, OInvFacts DEF Contents
  <2>2. StopAt(chan'[p], sent'[p], Handed(p), mark[p] - Handed(p) + 1)
    BY <1>1, <2>1, StopAtAppend, OInvFacts
  <2>3. mark[p] <= Len(sent'[p])
    BY <1>1, <2>1, OInvFacts
  <2> QED
    BY <1>1, <1>2, <1>3, <2>2, <2>3 DEF Contents, Kept
<1>4. CASE ~StopPending(p)
  <2>1. mark[p] <= Handed(p) /\ Follows(chan[p], sent[p], Handed(p))
    BY <1>4, OInvFacts DEF Contents
  <2>2. Follows(chan'[p], sent'[p], Handed(p))
    BY <1>1, <2>1, FollowsAppend, OInvFacts
  <2> QED
    BY <1>1, <1>2, <1>4, <2>1, <2>2 DEF Contents, Kept
<1> QED
  BY <1>3, <1>4

(* FunctionInvoked and EnvironmentShutdown start the forwarder. *)
LEMMA StartKeeps ==
  ASSUME OInv, NEW p \in Processors, FunctionInvoked(p) \/ EnvironmentShutdown(p)
  PROVE  Kept(p)
<1>1. /\ AtRest(p) /\ wg'[p] = wg[p] + 1 /\ phase'[p] # "idle"
      /\ UNCHANGED <<chan, stop, sent, handed, mark, closed>>
      /\ \A q \in Processors \ {p} : UNCHANGED Mine(q)
  BY DEF FunctionInvoked, EnvironmentShutdown, StartForwardingData,
         OInv, FInv, TypeOK, DTypeOK, Mine
<1>2. wg[p] = 0 /\ wg'[p] = 1
  BY <1>1 DEF OInv, FInv, Forwarders, OneForwarder
<1>3. ~closed[p] /\ \A s \in Stoppers : stop[p][s] = "out"
  BY <1>1, OInvFacts DEF Calls, AtRest, Stoppers
<1>4. Calls(p)'
  BY <1>1, <1>2, <1>3 DEF Calls, Stoppers
<1>5. ~StopPending(p) /\ ~StopPending(p)' /\ Handed(p)' = Handed(p)
  BY <1>1, <1>2, <1>3 DEF StopPending, Handed
<1>6. mark[p] <= Handed(p) /\ Follows(chan[p], sent[p], Handed(p))
  BY <1>5, OInvFacts DEF Contents
<1> QED
  BY <1>1, <1>4, <1>5, <1>6 DEF Contents, Kept

(* Nobody is inside stopForwardingData when it is called. *)
OutAndRunning(p) == wg[p] = 1 /\ \A s \in Stoppers : stop[p][s] = "out"

LEMMA StopKeeps ==
  ASSUME OInv, NEW p \in Processors, NEW s \in Stoppers,
         StopForwardingData(p, s), OutAndRunning(p), Calls(p)',
         \A q \in Processors \ {p} : phase'[q] = phase[q] /\ closed'[q] = closed[q]
  PROVE  Kept(p)
<1>1. /\ chan'[p] = Append(chan[p], s) /\ mark'[p] = Len(sent[p])
      /\ stop'[p][s] = "sending"
      /\ UNCHANGED <<wg, sent, handed>>
      /\ \A q \in Processors \ {p} : UNCHANGED Mine(q)
  BY DEF StopForwardingData, OInv, FInv, TypeOK, DTypeOK, Mine
<1>2. ~StopPending(p) /\ StopPending(p)' /\ Handed(p)' = Handed(p)
  BY <1>1 DEF StopPending, Handed, OutAndRunning
<1>3. Follows(chan[p], sent[p], Handed(p))
  BY <1>2, OInvFacts DEF Contents
<1>4. StopAt(chan'[p], sent[p], Handed(p), Len(sent[p]) - Handed(p) + 1)
  BY <1>1, <1>3, FollowsStop, OInvFacts
<1>5. mark'[p] <= Len(sent'[p])
  BY <1>1, OInvFacts
<1> QED
  BY <1>1, <1>2, <1>4, <1>5 DEF Contents, Kept

LEMMA FinishedStops ==
  ASSUME OInv, NEW p \in Processors, FunctionFinished(p)
  PROVE  OutAndRunning(p) /\ ~closed[p]
  BY OInvFacts DEF FunctionFinished, Calls, OutAndRunning, Stoppers

LEMMA FinishedKeeps ==
  ASSUME OInv, NEW p \in Processors, FunctionFinished(p)
  PROVE  Kept(p)
<1>1. /\ StopForwardingData(p, "manager") /\ phase'[p] = "idle" /\ closed' = closed
      /\ \A q \in Processors \ {p} : phase'[q] = phase[q]
  BY DEF FunctionFinished, OInv, FInv, TypeOK
<1>2. OutAndRunning(p) /\ ~closed[p]
  BY FinishedStops
<1>3. /\ wg' = wg /\ stop'[p]["collector"] = "out" /\ stop'[p]["manager"] = "sending"
  BY <1>1, <1>2 DEF StopForwardingData, OInv, FInv, TypeOK, DTypeOK, OutAndRunning, Stoppers
<1>4. Calls(p)'
  BY <1>1, <1>2, <1>3 DEF Calls, Stoppers, OutAndRunning
<1> QED
  BY <1>1, <1>2, <1>4, StopKeeps DEF Stoppers

LEMMA ShutdownStops ==
  ASSUME ~EarlyStop, OInv, NEW p \in Processors, Shutdown(p)
  PROVE  OutAndRunning(p) /\ phase[p] = "shutdown" /\ ~closed[p]
  BY OInvFacts DEF Shutdown, Calls, OutAndRunning, Stoppers

LEMMA ShutdownKeeps ==
  ASSUME ~EarlyStop, OInv, NEW p \in Processors, Shutdown(p)
  PROVE  Kept(p)
<1>1. /\ StopForwardingData(p, "collector") /\ phase' = phase /\ closed'[p] = TRUE
      /\ \A q \in Processors \ {p} : closed'[q] = closed[q]
  BY DEF Shutdown, OInv, FInv, TypeOK
<1>2. OutAndRunning(p) /\ phase[p] = "shutdown"
  BY ShutdownStops
<1>3. /\ wg' = wg /\ stop'[p]["collector"] = "sending" /\ stop'[p]["manager"] = "out"
  BY <1>1, <1>2 DEF StopForwardingData, OInv, FInv, TypeOK, DTypeOK, OutAndRunning, Stoppers
<1>4. Calls(p)'
  BY <1>1, <1>2, <1>3 DEF Calls, Stoppers, OutAndRunning
<1> QED
  BY <1>1, <1>2, <1>4, StopKeeps DEF Stoppers

LEMMA ForwardKeeps ==
  ASSUME OInv, NEW p \in Processors, ForwardData(p), UNCHANGED <<phase, closed>>
  PROVE  /\ Kept(p)
         /\ Handed(p) < Len(sent[p]) /\ Head(chan[p]) = sent[p][Handed(p) + 1]
<1>1. /\ chan'[p] = Tail(chan[p]) /\ Handed(p)' = Handed(p) + 1
      /\ chan[p] # <<>> /\ Head(chan[p]) \in Data
      /\ UNCHANGED <<wg, stop, sent, mark, phase, closed>>
      /\ \A q \in Processors \ {p} : UNCHANGED Mine(q)
  <2>1. handed'[p] = Append(handed[p], Head(chan[p])) /\ handed[p] \in Seq(Data)
    BY OInvFacts DEF ForwardData, OInv, FInv, TypeOK, DTypeOK
  <2>2. Handed(p)' = Handed(p) + 1
    BY <2>1 DEF Handed
  <2> QED
    BY <2>2 DEF ForwardData, OInv, FInv, TypeOK, DTypeOK, Mine
<1>2. Calls(p)' /\ (StopPending(p)' <=> StopPending(p))
  BY <1>1, OInvFacts DEF Calls, StopPending
<1>3. CASE StopPending(p)
  <2>1. mark[p] <= Len(sent[p]) /\ StopAt(chan[p], sent[p], Handed(p), mark[p] - Handed(p) + 1)
    BY <1>3, OInvFacts DEF Contents
  <2>2. /\ Handed(p) < Len(sent[p]) /\ Head(chan[p]) = sent[p][Handed(p) + 1]
        /\ StopAt(chan'[p], sent[p], Handed(p) + 1, mark[p] - Handed(p) + 1 - 1)
    BY <1>1, <2>1, StopAtHead, OInvFacts
  <2>3. mark[p] - Handed(p) + 1 - 1 = mark[p] - (Handed(p) + 1) + 1
    BY OInvFacts
  <2> QED
    BY <1>1, <1>2, <1>3, <2>1, <2>2, <2>3 DEF Contents, Kept
<1>4. CASE ~StopPending(p)
  <2>1. mark[p] <= Handed(p) /\ Follows(chan[p], sent[p], Handed(p))
    BY <1>4, OInvFacts DEF Contents
  <2>2. /\ Handed(p) < Len(sent[p]) /\ Head(chan[p]) = sent[p][Handed(p) + 1]
        /\ Follows(chan'[p], sent[p], Handed(p) + 1)
    BY <1>1, <2>1, FollowsTail, OInvFacts
  <2>3. mark[p] <= Handed(p) + 1
    BY <2>1, OInvFacts
  <2> QED
    BY <1>1, <1>2, <1>4, <2>2, <2>3 DEF Contents, Kept
<1> QED
  BY <1>3, <1>4

LEMMA ConsumeKeeps ==
  ASSUME OInv, NEW p \in Processors, NEW d \in Data, ConsumeReturns(p, d),
         UNCHANGED <<phase, closed>>
  PROVE  Kept(p)
<1>1. \A q \in Processors : UNCHANGED Mine(q)
  BY DEF ConsumeReturns, Mine
<1> QED
  BY <1>1, Untouched, OInvFacts DEF Kept

(* The forwarder exits because of the one stop in the channel, when all that *)
(* was sent before it has been handed on.                                    *)
LEMMA ExitKeeps ==
  ASSUME OInv, NEW p \in Processors, ForwarderExits(p), UNCHANGED <<phase, closed>>
  PROVE  Kept(p) /\ StopPending(p) /\ mark[p] = Handed(p) /\ wg'[p] = 0 /\ inflight[p] = {}
<1>1. /\ chan'[p] = Tail(chan[p]) /\ chan[p] # <<>> /\ Head(chan[p]) \in Stoppers
      /\ wg[p] = 1 /\ wg'[p] = 0 /\ inflight[p] = {}
      /\ stop'[p] = Released(stop[p], 0)
      /\ UNCHANGED <<sent, handed, mark, phase, closed>>
      /\ \A q \in Processors \ {p} : UNCHANGED Mine(q)
  <2>1. wg[p] = 1 /\ inflight[p] = {}
    BY OInvFacts DEF ForwarderExits
  <2>2. wg[p] - 1 = 0
    BY <2>1
  <2> QED
    BY <2>1, <2>2 DEF ForwarderExits, OInv, FInv, TypeOK, DTypeOK, Mine
<1>2. StopPending(p)
  <2> SUFFICES ASSUME ~StopPending(p) PROVE FALSE
    OBVIOUS
  <2>1. Head(chan[p]) \in Data
    BY <1>1, FollowsTail, OInvFacts DEF Contents
  <2> QED
    BY <1>1, <2>1, DataAssumption
<1>3. mark[p] <= Len(sent[p]) /\ StopAt(chan[p], sent[p], Handed(p), mark[p] - Handed(p) + 1)
  BY <1>2, OInvFacts DEF Contents
<1>4. mark[p] - Handed(p) + 1 = 1 /\ Follows(chan'[p], sent[p], Handed(p))
  BY <1>1, <1>3, StopAtHead, OInvFacts
<1>5. mark[p] = Handed(p)
  BY <1>4, OInvFacts
<1>6. ~StopPending(p)' /\ Handed(p)' = Handed(p)
  BY <1>1 DEF StopPending, Handed
<1>7. \A s \in Stoppers : /\ stop'[p][s] # "waiting"
                          /\ stop'[p][s] = "panicked" => stop[p][s] = "panicked"
                          /\ stop[p][s] = "out" <=> stop'[p][s] = "out"
  BY <1>1 DEF Released, Stoppers
<1>8. phase[p] = "idle" \/ closed[p]
  <2> SUFFICES ASSUME phase[p] # "idle", ~closed[p] PROVE FALSE
    OBVIOUS
  <2>1. \A s \in Stoppers : stop[p][s] = "out"
    BY OInvFacts DEF Calls, Stoppers
  <2> QED
    BY <1>2, <2>1 DEF StopPending
<1>9. Calls(p)'
  BY <1>1, <1>7, <1>8, OInvFacts DEF Calls, Stoppers
<1>10. mark[p] <= Handed(p)
  BY <1>5, OInvFacts
<1>11. Contents(p)'
  BY <1>1, <1>4, <1>6, <1>10 DEF Contents
<1> QED
  BY <1>1, <1>2, <1>5, <1>9, <1>11 DEF Kept

LEMMA WaitKeeps ==
  ASSUME OInv, NEW p \in Processors, NEW s \in Stoppers, StopperStep(p, s),
         UNCHANGED <<phase, closed>>
  PROVE  Kept(p)
<1>0. PICK v \in {"out", "waiting", "panicked"} : MovesTo(p, s, v)
  BY StopperMoves
<1>1. /\ stop'[p][s] = v /\ stop[p][s] # "out"
      /\ v = "out" <=> wg[p] = 0
      /\ v = "panicked" => stop[p][s] = "woken"
      /\ \A t \in Stoppers \ {s} : stop'[p][t] = stop[p][t]
      /\ UNCHANGED <<chan, wg, sent, handed, mark, phase, closed>>
      /\ \A q \in Processors \ {p} : UNCHANGED Mine(q)
  BY <1>0 DEF MovesTo, OInv, FInv, TypeOK, DTypeOK, Mine
<1>2. (wg[p] = 0 \/ wg[p] = 1) /\ v # "panicked"
  BY <1>1, OInvFacts DEF Calls
<1>3. Calls(p)'
  BY <1>1, <1>2, OInvFacts DEF Calls, Stoppers
<1>4. (StopPending(p)' <=> StopPending(p)) /\ Handed(p)' = Handed(p)
  BY <1>1, <1>2 DEF StopPending, Handed
<1>5. Contents(p)'
  BY <1>1, <1>4, OInvFacts DEF Contents
<1> QED
  BY <1>1, <1>3, <1>5 DEF Kept

LEMMA OrderlyStep ==
  ASSUME ~EarlyStop, OInv, [Next]_lvars
  PROVE  Orderly'
<1>1. CASE UNCHANGED lvars
  BY <1>1, Untouched, OInvFacts DEF lvars, dvars, Orderly, Mine
<1>2. CASE Next
  <2>1. \E p \in Processors : Kept(p)
    BY <1>2, QueueKeeps, StartKeeps, FinishedKeeps, ShutdownKeeps, ForwardKeeps,
       ConsumeKeeps, ExitKeeps, WaitKeeps DEF Next, Internal, ForwarderStep
  <2>2. PICK p \in Processors : Kept(p)
    BY <2>1
  <2>3. ASSUME NEW q \in Processors PROVE Calls(q)' /\ Contents(q)'
    BY <2>2, Untouched, OInvFacts DEF Kept
  <2> QED
    BY <2>3 DEF Orderly
<1> QED
  BY <1>1, <1>2

LEMMA OrderlyInvariant ==
  ASSUME ~EarlyStop
  PROVE  Safety => []OInv
<1>1. Init => Orderly
  BY OrderlyInit
<1>2. FInv /\ Orderly /\ [Next]_lvars => Orderly'
  BY OrderlyStep DEF OInv
<1> QED
  BY <1>1, <1>2, FInvInvariant, PTL DEF Safety, OInv
-----------------------------------------------------------------------------
(* The refinement.                                                           *)

LEMMA GateInit == Init => Gate!GInit
  BY DEF Init, DInit, Gate!GInit, GateState

(* The gates the steps leave alone. *)
LEMMA OtherGates ==
  ASSUME NEW p \in Processors, \A q \in Processors \ {p} : UNCHANGED Mine(q),
         NEW g, GateState(p)' = g
  PROVE  [q \in Processors |-> GateState(q)]'
           = [[q \in Processors |-> GateState(q)] EXCEPT ![p] = g]
<1>1. \A q \in Processors \ {p} : GateState(q)' = GateState(q)
  BY DEF Mine, GateState
<1> QED
  BY <1>1

(* The abstract state of the steps below. *)
Gates == [q \in Processors |-> GateState(q)]
AbstractVars == <<sent, handed, inflight, Gates, mark>>

LEMMA GateUnchanged ==
  ASSUME UNCHANGED <<stop, phase, closed>>
  PROVE  UNCHANGED Gates
  BY DEF Gates, GateState

LEMMA QueueIsAccept ==
  ASSUME OInv, NEW p \in Processors, Queue(p)
  PROVE  Gate!GNext
<1> PICK d \in Data : QueueData(p, d) /\ UNCHANGED <<phase, closed>>
  BY DEF Queue
<1>1. UNCHANGED Gates
  BY GateUnchanged DEF QueueData
<1>2. Gate!Accept(p, d)
  BY <1>1 DEF Gate!Accept, QueueData, Gates
<1> QED
  BY <1>2 DEF Gate!GNext

LEMMA StartIsOpen ==
  ASSUME OInv, NEW p \in Processors, FunctionInvoked(p) \/ EnvironmentShutdown(p)
  PROVE  Gate!GNext
<1>1. /\ AtRest(p) /\ phase'[p] # "idle"
      /\ UNCHANGED <<stop, sent, handed, inflight, mark, closed>>
      /\ \A q \in Processors \ {p} : UNCHANGED Mine(q)
  BY DEF FunctionInvoked, EnvironmentShutdown, StartForwardingData,
         OInv, FInv, TypeOK, DTypeOK, Mine
<1>2. ~closed[p] /\ \A s \in Stoppers : stop[p][s] = "out"
  BY <1>1, OInvFacts DEF Calls, AtRest, Stoppers
<1>3. GateState(p) = "closed" /\ GateState(p)' = "open"
  BY <1>1, <1>2 DEF GateState, AtRest
<1>4. Gates' = [Gates EXCEPT ![p] = "open"]
  BY <1>1, <1>3, OtherGates DEF Gates
<1>5. Gate!Open(p)
  BY <1>1, <1>3, <1>4 DEF Gate!Open, Gates
<1> QED
  BY <1>5 DEF Gate!GNext

LEMMA StopIsClose ==
  ASSUME OInv, NEW p \in Processors, NEW s \in Stoppers,
         StopForwardingData(p, s), OutAndRunning(p), ~closed[p], phase[p] # "idle",
         Kept(p)
  PROVE  Gate!GNext
<1>1. /\ stop'[p][s] = "sending" /\ mark' = [mark EXCEPT ![p] = Len(sent[p])]
      /\ UNCHANGED <<sent, handed, inflight>>
  BY DEF StopForwardingData, OInv, FInv, TypeOK, DTypeOK
<1>2. GateState(p) = "open" /\ GateState(p)' = "closing"
  BY <1>1 DEF GateState, OutAndRunning
<1>3. Gates' = [Gates EXCEPT ![p] = "closing"]
  BY <1>2, OtherGates DEF Gates, Kept
<1>4. Gate!Close(p)
  BY <1>1, <1>2, <1>3 DEF Gate!Close, Gates
<1> QED
  BY <1>4 DEF Gate!GNext

LEMMA ForwardIsDeliver ==
  ASSUME OInv, NEW p \in Processors, ForwardData(p), UNCHANGED <<phase, closed>>
  PROVE  Gate!GNext
<1>1. /\ Handed(p) < Len(sent[p]) /\ Head(chan[p]) = sent[p][Handed(p) + 1]
      /\ wg[p] = 1 /\ Calls(p)
  BY ForwardKeeps, OInvFacts DEF ForwardData
<1>2. GateState(p) # "closed"
  <2> SUFFICES ASSUME phase[p] = "idle" \/ closed[p], \A s \in Stoppers : stop[p][s] = "out"
               PROVE  FALSE
    BY DEF GateState
  <2>1. CASE closed[p]
    BY <1>1, <2>1 DEF Calls, Stoppers
  <2>2. CASE phase[p] = "idle"
    <3>1. AtRest(p)
      BY <2>2 DEF AtRest, Stoppers
    <3> QED
      BY <1>1, <3>1 DEF OInv, FInv, Forwarders, OneForwarder
  <2> QED
    BY <2>1, <2>2
<1>3. UNCHANGED Gates
  BY GateUnchanged DEF ForwardData
<1>4. Gate!Deliver(p)
  BY <1>1, <1>2, <1>3 DEF Gate!Deliver, ForwardData, Gates, Handed
<1> QED
  BY <1>4 DEF Gate!GNext

LEMMA ConsumeIsDelivered ==
  ASSUME OInv, NEW p \in Processors, NEW d \in Data, ConsumeReturns(p, d),
         UNCHANGED <<phase, closed>>
  PROVE  Gate!GNext
<1>1. UNCHANGED Gates
  BY GateUnchanged DEF ConsumeReturns
<1>2. Gate!Delivered(p, d)
  BY <1>1 DEF Gate!Delivered, ConsumeReturns, Gates
<1> QED
  BY <1>2 DEF Gate!GNext

(* A stopper returns: the gate becomes closed when it was the only one. *)
LEMMA ReturnIsClosed ==
  ASSUME OInv, NEW p \in Processors, GateState(p) = "closing", wg'[p] = 0,
         inflight[p] = {}, mark[p] <= Handed(p), Kept(p),
         UNCHANGED <<sent, handed, inflight, mark, phase, closed>>
  PROVE  Gate!GNext \/ UNCHANGED AbstractVars
<1>1. CASE GateState(p)' = "closing"
  <2>1. Gates' = [Gates EXCEPT ![p] = "closing"]
    BY <1>1, OtherGates DEF Gates, Kept
  <2>2. UNCHANGED Gates
    BY <2>1 DEF Gates
  <2> QED
    BY <2>2 DEF AbstractVars
<1>2. CASE GateState(p)' # "closing"
  <2>1. \A s \in Stoppers : stop'[p][s] = "out"
    BY <1>2 DEF GateState
  <2>2. phase[p] = "idle" \/ closed[p]
    BY <2>1 DEF Kept, Calls
  <2>3. GateState(p)' = "closed"
    BY <2>1, <2>2 DEF GateState
  <2>4. Gates' = [Gates EXCEPT ![p] = "closed"]
    BY <2>3, OtherGates DEF Gates, Kept
  <2>5. Gate!Closed(p)
    BY <2>4 DEF Gate!Closed, Gates, Handed
  <2> QED
    BY <2>5 DEF Gate!GNext
<1> QED
  BY <1>1, <1>2

LEMMA WaitIsClosed ==
  ASSUME OInv, NEW p \in Processors, NEW s \in Stoppers, StopperStep(p, s),
         UNCHANGED <<phase, closed>>
  PROVE  Gate!GNext \/ UNCHANGED AbstractVars
<1>0. PICK v \in {"out", "waiting", "panicked"} : MovesTo(p, s, v)
  BY StopperMoves
<1>1. /\ GateState(p) = "closing" /\ wg' = wg
      /\ stop'[p][s] = v /\ (v = "out" <=> wg[p] = 0)
      /\ UNCHANGED <<sent, handed, inflight, mark>>
      /\ Kept(p)
  BY <1>0, WaitKeeps DEF MovesTo, GateState, OInv, FInv, TypeOK, DTypeOK
<1>2. CASE wg[p] = 0
  <2>1. inflight[p] = {} /\ ~StopPending(p)
    BY <1>2, OInvFacts DEF StopPending
  <2>2. mark[p] <= Handed(p)
    BY <2>1, OInvFacts DEF Contents
  <2> QED
    BY <1>1, <1>2, <2>1, <2>2, ReturnIsClosed
<1>3. CASE wg[p] = 1
  <2>1. GateState(p)' = "closing"
    BY <1>1, <1>3 DEF GateState
  <2>2. Gates' = [Gates EXCEPT ![p] = "closing"]
    BY <1>1, <2>1, OtherGates DEF Gates, Kept
  <2>3. UNCHANGED Gates
    BY <1>1, <2>2 DEF Gates
  <2> QED
    BY <1>1, <2>3 DEF AbstractVars
<1> QED
  BY <1>2, <1>3, OInvFacts

LEMMA ExitIsClosed ==
  ASSUME OInv, NEW p \in Processors, ForwarderExits(p), UNCHANGED <<phase, closed>>
  PROVE  Gate!GNext \/ UNCHANGED AbstractVars
<1>1. Kept(p) /\ StopPending(p) /\ mark[p] = Handed(p) /\ wg'[p] = 0 /\ inflight[p] = {}
  BY ExitKeeps
<1>2. GateState(p) = "closing" /\ mark[p] <= Handed(p)
  BY <1>1, OInvFacts DEF StopPending, GateState
<1> QED
  BY <1>1, <1>2, ReturnIsClosed DEF ForwarderExits

LEMMA GateStep ==
  ASSUME ~EarlyStop, OInv, [Next]_lvars
  PROVE  Gate!GNext \/ UNCHANGED AbstractVars
<1>1. CASE UNCHANGED lvars
  BY <1>1, GateUnchanged DEF lvars, dvars, AbstractVars
<1>2. ASSUME NEW p \in Processors, FunctionFinished(p) PROVE Gate!GNext
  BY <1>2, FinishedStops, FinishedKeeps, StopIsClose DEF FunctionFinished, Stoppers
<1>3. ASSUME NEW p \in Processors, Shutdown(p) PROVE Gate!GNext
  BY <1>3, ShutdownStops, ShutdownKeeps, StopIsClose DEF Shutdown, Stoppers
<1>4. ASSUME NEW p \in Processors, Internal(p)
      PROVE  Gate!GNext \/ UNCHANGED AbstractVars
  BY <1>4, ForwardIsDeliver, ConsumeIsDelivered, ExitIsClosed, WaitIsClosed
     DEF Internal, ForwarderStep
<1> QED
  BY <1>1, <1>2, <1>3, <1>4, QueueIsAccept, StartIsOpen DEF Next

(* A decouple processor whose component is shut down only after              *)
(* EnvironmentShutdown is a gate: payloads are delivered in order, once,     *)
(* never between the return of FunctionFinished and the next invocation, and *)
(* FunctionFinished and shutdown return only when all that was queued before *)
(* them was delivered.                                                       *)
THEOREM OrderlyImplementsGate ==
  ASSUME ~EarlyStop
  PROVE  Safety => IsGate
<1>1. OInv /\ [Next]_lvars => [Gate!GNext]_AbstractVars
  BY GateStep
<1>2. Init => Gate!GInit
  BY GateInit
<1>3. [Gate!GNext]_AbstractVars <=> [Gate!GNext]_Gate!gvars
  BY DEF AbstractVars, Gates, Gate!gvars
<1> QED
  BY <1>1, <1>2, <1>3, OrderlyInvariant, PTL DEF Safety, IsGate, Gate!GSafe
=============================================================================
