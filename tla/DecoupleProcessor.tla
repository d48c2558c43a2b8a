------------------------- MODULE DecoupleProcessor -------------------------
(***************************************************************************)
(* The decouple processor of the collector (collector/processor/           *)
(* decoupleprocessor/processor.go): a bounded Go channel between a         *)
(* pipeline and its exporters, and a forwarder goroutine that is started   *)
(* and stopped around every invocation of the function.                    *)
(*                                                                         *)
(* One action per operation, for a set of processors and with no guard on  *)
(* who may call what when: DecoupleLifecycle and ExtensionSystem supply    *)
(* the callers.                                                            *)
(***************************************************************************)
EXTENDS Integers, Sequences

CONSTANTS Processors,     \* the decouple processors of the configured pipelines
          Data,           \* the payloads the pipelines carry
          MaxQueueSize    \* Config.MaxQueueSize, the capacity of the channel

(* The goroutines that call stopForwardingData.  A stop is the zero          *)
(* contextualData value (data = nil); it is told apart here by its sender.   *)
Stoppers == {"manager", "collector"}

ASSUME MaxQueueSizeAssumption == MaxQueueSize \in Nat \ {0}  \* Config.Validate
ASSUME DataAssumption == Data \cap Stoppers = {}

VARIABLES
  chan,      \* p.data: the buffered elements, then those of the blocked senders, in order
  wg,        \* the counter of p.wg
  idle,      \* forwarder goroutines that are at the receive
  inflight,  \* payloads a forwarder goroutine is inside consume() with
  stop,      \* where each stopper is: out, at the channel send, or in wg.Wait(), where it
             \* blocks, has been woken or has panicked
  sent,      \* history: payloads in the order they entered queueData
  handed,    \* history: payloads in the order they were handed to consume()
  mark       \* history: Len(sent) when stopForwardingData was last called

dvars == <<chan, wg, idle, inflight, stop, sent, handed, mark>>

Items == Data \cup Stoppers

StopStates == {"out", "sending", "waiting", "woken", "panicked"}

DTypeOK ==
  /\ chan \in [Processors -> Seq(Items)]
  /\ wg \in [Processors -> Nat]
  /\ idle \in [Processors -> Nat]
  /\ inflight \in [Processors -> SUBSET Data]
  /\ stop \in [Processors -> [Stoppers -> StopStates]]
  /\ sent \in [Processors -> Seq(Data)]
  /\ handed \in [Processors -> Seq(Data)]
  /\ mark \in [Processors -> Nat]

(* newDecoupleProcessor: the channel is made, no forwarder runs yet. *)
DInit ==
  /\ chan = [p \in Processors |-> <<>>]
  /\ wg = [p \in Processors |-> 0]
  /\ idle = [p \in Processors |-> 0]
  /\ inflight = [p \in Processors |-> {}]
  /\ stop = [p \in Processors |-> [s \in Stoppers |-> "out"]]
  /\ sent = [p \in Processors |-> <<>>]
  /\ handed = [p \in Processors |-> <<>>]
  /\ mark = [p \in Processors |-> 0]

----------------------------------------------------------------------------
(* queueData: a pipeline goroutine sends a payload.  When the buffer is      *)
(* full the goroutine blocks; Go serves blocked senders in order, so its     *)
(* element already has its place in the queue.  Every payload is sent once.  *)
QueueData(p, d) ==
  /\ \A i \in 1..Len(sent[p]) : sent[p][i] # d
  /\ chan' = [chan EXCEPT ![p] = Append(@, d)]
  /\ sent' = [sent EXCEPT ![p] = Append(@, d)]
  /\ UNCHANGED <<wg, idle, inflight, stop, handed, mark>>

(* startForwardingData: wg.Add(1) and a new forwarder goroutine. *)
StartForwardingData(p) ==
  /\ wg' = [wg EXCEPT ![p] = @ + 1]
  /\ idle' = [idle EXCEPT ![p] = @ + 1]
  /\ UNCHANGED <<chan, inflight, stop, sent, handed, mark>>

(* The forwarder receives a payload and calls consume() with it. *)
ForwardData(p) ==
  /\ idle[p] > 0 /\ chan[p] # <<>> /\ Head(chan[p]) \in Data
  /\ chan' = [chan EXCEPT ![p] = Tail(@)]
  /\ idle' = [idle EXCEPT ![p] = @ - 1]
  /\ inflight' = [inflight EXCEPT ![p] = @ \cup {Head(chan[p])}]
  /\ handed' = [handed EXCEPT ![p] = Append(@, Head(chan[p]))]
  /\ UNCHANGED <<wg, stop, sent, mark>>

(* consume() returns; its error, if any, is only logged. *)
ConsumeReturns(p, d) ==
  /\ d \in inflight[p]
  /\ inflight' = [inflight EXCEPT ![p] = @ \ {d}]
  /\ idle' = [idle EXCEPT ![p] = @ + 1]
  /\ UNCHANGED <<chan, wg, stop, sent, handed, mark>>

(* The stoppers that are blocked in wg.Wait() are woken when the counter     *)
(* becomes 0; each returns in a step of its own.                             *)
Released(stops, n) ==
  [s \in Stoppers |-> IF n = 0 /\ stops[s] = "waiting" THEN "woken" ELSE stops[s]]

ForwarderExitsTwice(p) ==  \* mutant: wg.Done() in the loop and deferred
  /\ idle[p] > 0 /\ chan[p] # <<>> /\ Head(chan[p]) \in Stoppers
  /\ chan' = [chan EXCEPT ![p] = Tail(@)]
  /\ idle' = [idle EXCEPT ![p] = @ - 1]
  /\ wg' = [wg EXCEPT ![p] = @ - 2]
  /\ stop' = [stop EXCEPT ![p] = Released(@, wg[p] - 2)]
  /\ UNCHANGED <<inflight, sent, handed, mark>>

(* The forwarder receives a stop: it breaks out of its loop and runs the     *)
(* deferred wg.Done(), which wakes the waiters when the counter reaches 0.   *)
ForwarderExits(p) ==
  /\ idle[p] > 0 /\ chan[p] # <<>> /\ Head(chan[p]) \in Stoppers
  /\ chan' = [chan EXCEPT ![p] = Tail(@)]
  /\ idle' = [idle EXCEPT ![p] = @ - 1]
  /\ wg' = [wg EXCEPT ![p] = @ - 1]
  /\ stop' = [stop EXCEPT ![p] = Released(@, wg[p] - 1)]
  /\ UNCHANGED <<inflight, sent, handed, mark>>

StopForgotten(p, s) ==  \* mutant: wg.Wait() with no stop sent
  /\ stop[p][s] = "out"
  /\ stop' = [stop EXCEPT ![p][s] = "sending"]
  /\ mark' = [mark EXCEPT ![p] = Len(sent[p])]
  /\ UNCHANGED <<chan, wg, idle, inflight, sent, handed>>

(* stopForwardingData, first half: the send of the stop takes its place. *)
StopForwardingData(p, s) ==
  /\ stop[p][s] = "out"
  /\ chan' = [chan EXCEPT ![p] = Append(@, s)]
  /\ stop' = [stop EXCEPT ![p][s] = "sending"]
  /\ mark' = [mark EXCEPT ![p] = Len(sent[p])]
  /\ UNCHANGED <<wg, idle, inflight, sent, handed>>

(* The send is over: its element is in the buffer or was taken out of it. *)
SendDone(p, s) ==
  \A i \in 1..Len(chan[p]) : chan[p][i] = s => i <= MaxQueueSize

StopDoesNotWait(p, s) ==  \* mutant: no wg.Wait()
  /\ stop[p][s] = "sending" /\ SendDone(p, s)
  /\ stop' = [stop EXCEPT ![p][s] = "out"]
  /\ UNCHANGED <<chan, wg, idle, inflight, sent, handed, mark>>

(* stopForwardingData, second half: wg.Wait() returns at once when no        *)
(* forwarder is counted and blocks otherwise.                                *)
StopWaits(p, s) ==
  /\ stop[p][s] = "sending" /\ SendDone(p, s)
  /\ stop' = [stop EXCEPT ![p][s] = IF wg[p] = 0 THEN "out" ELSE "waiting"]
  /\ UNCHANGED <<chan, wg, idle, inflight, sent, handed, mark>>

(* A woken waiter runs: wg.Wait() returns unless the counter was raised      *)
(* again in the meantime.  Then it panics ("WaitGroup is reused before        *)
(* previous Wait has returned"), and the process ends.                       *)
WaitReturns(p, s) ==
  /\ stop[p][s] = "woken"
  /\ stop' = [stop EXCEPT ![p][s] = IF wg[p] = 0 THEN "out" ELSE "panicked"]
  /\ UNCHANGED <<chan, wg, idle, inflight, sent, handed, mark>>

Panicked == \E p \in Processors, s \in Stoppers : stop[p][s] = "panicked"

(* The steps of a goroutine inside stopForwardingData, after the send. *)
StopperStep(p, s) == StopWaits(p, s) \/ WaitReturns(p, s)

(* The steps of the forwarder goroutines of p. *)
ForwarderStep(p) ==
  \/ ForwardData(p)
  \/ \E d \in Data : ConsumeReturns(p, d)
  \/ ForwarderExits(p)
=============================================================================
