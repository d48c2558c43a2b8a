------------------------- MODULE DecoupleLifecycle -------------------------
(***************************************************************************)
(* Decouple processors under the calls they receive: from the lifecycle    *)
(* manager the pairs FunctionInvoked / FunctionFinished, one after the     *)
(* other, and EnvironmentShutdown once, after the last pair; from the      *)
(* collector one shutdown of the component.  EarlyStop says whether the    *)
(* collector may shut down at another time than after EnvironmentShutdown: *)
(* it does when the manager's context is cancelled or a component fails.   *)
(***************************************************************************)
EXTENDS DecoupleProcessor, FiniteSets

CONSTANT EarlyStop
ASSUME EarlyStopAssumption == EarlyStop \in BOOLEAN

VARIABLES
  phase,  \* the last call of the manager: FunctionFinished ("idle"), FunctionInvoked
          \* ("invoked") or EnvironmentShutdown ("shutdown")
  closed  \* has the collector called the processor's shutdown?

lvars == <<dvars, phase, closed>>

TypeOK ==
  /\ DTypeOK
  /\ phase \in [Processors -> {"idle", "invoked", "shutdown"}]
  /\ closed \in [Processors -> BOOLEAN]

Init ==
  /\ DInit
  /\ phase = [p \in Processors |-> "idle"]
  /\ closed = [p \in Processors |-> FALSE]

(* FunctionFinished has returned (or no function was invoked yet): as far as *)
(* this processor is concerned the environment may be frozen.                *)
AtRest(p) == phase[p] = "idle" /\ stop[p]["manager"] = "out"

FunctionInvokedUnguarded(p) ==  \* mutant: invoked again before FunctionFinished returned
  /\ phase[p] = "idle"
  /\ StartForwardingData(p)
  /\ phase' = [phase EXCEPT ![p] = "invoked"]
  /\ UNCHANGED closed

FunctionInvokedUnlessClosed(p) ==  \* mutant: no forwarder once the component is shut down
  /\ AtRest(p)
  /\ IF closed[p] THEN UNCHANGED dvars ELSE StartForwardingData(p)
  /\ phase' = [phase EXCEPT ![p] = "invoked"]
  /\ UNCHANGED closed

FunctionInvoked(p) ==
  /\ AtRest(p)
  /\ StartForwardingData(p)
  /\ phase' = [phase EXCEPT ![p] = "invoked"]
  /\ UNCHANGED closed

FunctionFinished(p) ==
  /\ phase[p] = "invoked"
  /\ StopForwardingData(p, "manager")
  /\ phase' = [phase EXCEPT ![p] = "idle"]
  /\ UNCHANGED closed

EnvironmentShutdown(p) ==
  /\ AtRest(p)
  /\ StartForwardingData(p)
  /\ phase' = [phase EXCEPT ![p] = "shutdown"]
  /\ UNCHANGED closed

(* The collector calls the processor's shutdown, once. *)
Shutdown(p) ==
  /\ ~closed[p]
  /\ EarlyStop \/ phase[p] = "shutdown"
  /\ StopForwardingData(p, "collector")
  /\ closed' = [closed EXCEPT ![p] = TRUE]
  /\ UNCHANGED phase

(* The steps of the processor itself. *)
Internal(p) ==
  /\ ForwarderStep(p) \/ \E s \in Stoppers : StopperStep(p, s)
  /\ UNCHANGED <<phase, closed>>

Queue(p) == (\E d \in Data : QueueData(p, d)) /\ UNCHANGED <<phase, closed>>

(* A panic of any goroutine ends the process. *)
Next == ~Panicked /\ \E p \in Processors :
  \/ Queue(p)
  \/ FunctionInvoked(p) \/ FunctionFinished(p) \/ EnvironmentShutdown(p)
  \/ Shutdown(p)
  \/ Internal(p)

Safety == Init /\ [][Next]_lvars

(* Each goroutine runs, the forwarder and those inside stopForwardingData: a *)
(* receive whose channel has an element, a wg.Wait() and a call of the next  *)
(* consumer do not take for ever.                                            *)
Fairness == \A p \in Processors :
  /\ WF_lvars(~Panicked /\ ForwarderStep(p) /\ UNCHANGED <<phase, closed>>)
  /\ \A s \in Stoppers :
       WF_lvars(~Panicked /\ StopperStep(p, s) /\ UNCHANGED <<phase, closed>>)

Spec == Safety /\ Fairness
----------------------------------------------------------------------------
(* There is never more than one forwarder goroutine, so payloads are not     *)
(* reordered and a stop ends the forwarder it was meant for                  *)
(* (startForwardingData adds one without looking).                           *)
AtMostOneForwarder == \A p \in Processors : wg[p] <= 1

(* Once FunctionFinished has returned no forwarder runs and no payload is on *)
(* its way through an exporter, whatever the collector did meanwhile: the    *)
(* environment can be frozen without cutting a connection.                   *)
NothingInFlightAtRest ==
  \A p \in Processors : AtRest(p) => idle[p] = 0 /\ inflight[p] = {}

(* How far an early shutdown of the component sets exports back: its stop    *)
(* ends a forwarder that was not its own, and from then on every forwarder   *)
(* ends at the stop of the invocation before.  Between invocations the       *)
(* channel holds exactly one stop then, and none before, however many         *)
(* invocations there were: exports lag by one invocation and never by more.  *)
StopsIn(q) == {i \in 1..Len(q) : q[i] \in Stoppers}

OneStopLeftOver ==
  \A p \in Processors : AtRest(p) =>
    Cardinality(StopsIn(chan[p])) = IF closed[p] THEN 1 ELSE 0

(* When FunctionFinished has returned all that was queued before it has been *)
(* handed to the exporter, up to the moment when the component is shut down. *)
FlushedAtRest ==
  \A p \in Processors : AtRest(p) /\ ~closed[p] => Len(handed[p]) >= mark[p]

(* The one way in which a stop may not return: the component was shut down,  *)
(* so that no forwarder runs, and the channel is full.                       *)
Stranded(p, s) == closed[p] /\ wg[p] = 0 /\ ~SendDone(p, s)

StopsReturnUnlessStranded ==
  \A p \in Processors, s \in Stoppers :
    stop[p][s] # "out" ~> stop[p][s] = "out" \/ Stranded(p, s) \/ Panicked

(* wg.Add(1) of the next invocation does not come before a waiter of the last *)
(* one has run, which makes its wg.Wait() panic: never for the manager, whose *)
(* own calls these are, and for the collector only when it may shut down      *)
(* early, between two invocations (processor.go:80 and 99).                   *)
WaitNotReused ==
  \A p \in Processors :
    /\ stop[p]["manager"] # "panicked"
    /\ stop[p]["collector"] = "panicked" => EarlyStop

(* A processor with an orderly life is the abstract gate.                    *)
GateState(p) ==
  IF \E s \in Stoppers : stop[p][s] # "out" THEN "closing"
  ELSE IF phase[p] = "idle" \/ closed[p] THEN "closed"
  ELSE "open"

Gate == INSTANCE ForwardGate WITH
  accepted <- sent, delivered <- handed, busy <- inflight, due <- mark,
  gate <- [p \in Processors |-> GateState(p)]

(* Payloads leave in order, once, never after FunctionFinished or the        *)
(* component's shutdown returned, and these calls return only when all that  *)
(* was queued before them has been through the next consumer.                *)
IsGate == Gate!GSafe

(* FunctionFinished and shutdown do return.                                  *)
StopsReturn == Gate!GLive
=============================================================================
