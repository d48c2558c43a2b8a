-------------------------- MODULE ExtensionSystem --------------------------
(***************************************************************************)
(* The collector extension as a whole: the lifecycle manager               *)
(* (collector/internal/lifecycle/manager.go, started by main.go), its      *)
(* Telemetry API listener, the collector wrapper (internal/collector/      *)
(* collector.go) and the decouple processors of the pipelines, inside an   *)
(* execution environment that Lambda runs, freezes, thaws and shuts down.  *)
(* The Lambda platform and the otelcol service are external: they do what  *)
(* the code in the repository relies on.                                   *)
(***************************************************************************)
EXTENDS DecoupleProcessor, TelemetryListener, CollectorWrapper, FiniteSets

CONSTANTS
  Faults,           \* what can go wrong, a subset of AllFaults
  MaxRedeliveries   \* bound: how often the platform may deliver events again

AllFaults == {"signal",      \* the process receives SIGTERM or SIGINT
              "collector",   \* a running collector component reports a fatal error
              "start",       \* the collector does not start
              "api",         \* a request to the Extensions API fails
              "telemetry"}   \* telemetry is not available, lost or delivered twice

ASSUME FaultsAssumption == Faults \subseteq AllFaults
ASSUME RequestsAssumption == IsFiniteSet(Requests) /\ Requests = 1..Cardinality(Requests)
ASSUME BoundAssumption == MaxRedeliveries \in Nat

VARIABLES
  pc,         \* where the manager's goroutine is
  todo,       \* the listeners the current notify loop has not called yet
  result,     \* how the process ended
  cancelled,  \* is the manager's context cancelled?
  subscribed, \* does the platform send telemetry to the listener?
  notifier,   \* lambdalifecycle.notifier: is it set?
  listeners,  \* lm.lifecycleListeners: the processors that registered with the manager
  colTodo,    \* the processors the collector has not shut down
  event,      \* external: the type of the pending response to /event/next, or "none"
  cur,        \* external: the last request invoked, the RequestID of an INVOKE
  lam,     \* external: between invocations ("idle"), in one ("running") or over ("ending")
  frozen,     \* external: is the environment frozen?
  outbox,     \* external: platform events not yet delivered
  redelivered,\* external: how often events were delivered again
  owed        \* history: Len(sent) of each processor when the function was last done

mvars == <<pc, todo, result, cancelled, subscribed, notifier, listeners>>
cvars == <<wvars, colTodo>>
pvars == <<event, cur, lam, frozen, outbox, redelivered, owed>>
vars  == <<dvars, tvars, mvars, cvars, pvars>>

(* The process has ended, in an orderly way or by the panic of a waiter. *)
Ended == pc = "exited" \/ Panicked

PCs == {"register", "listen", "subscribe", "setnotifier", "start", "starting", "initerror", "select",
        "next", "invoked", "wait", "finished", "envshutdown", "lshutdown", "stop",
        "stopping", "exiterror", "exited"}

TypeOK ==
  /\ DTypeOK /\ TTypeOK /\ WTypeOK
  /\ pc \in PCs /\ todo \subseteq Processors
  /\ result \in {"none", "fatal", "initfailed", "cancelled", "failed", "shutdown", "panicked"}
  /\ cancelled \in BOOLEAN /\ subscribed \in BOOLEAN /\ notifier \in BOOLEAN
  /\ listeners \subseteq Processors
  /\ colTodo \subseteq Processors
  /\ event \in {"none", "INVOKE", "SHUTDOWN"}
  /\ cur \in 0..Cardinality(Requests)
  /\ lam \in {"idle", "running", "ending"} /\ frozen \in BOOLEAN
  /\ outbox \in Seq(Events)
  /\ redelivered \in 0..MaxRedeliveries
  /\ owed \in [Processors -> Nat]

Init ==
  /\ DInit /\ TInit /\ WInit
  /\ pc = "register" /\ todo = {} /\ result = "none"
  /\ cancelled = FALSE /\ subscribed = FALSE /\ notifier = FALSE /\ listeners = {}
  /\ colTodo = Processors
  /\ event = "none" /\ cur = 0 /\ lam = "idle" /\ frozen = FALSE
  /\ outbox = <<>> /\ redelivered = 0
  /\ owed = [p \in Processors |-> 0]

----------------------------------------------------------------------------
(* The manager's goroutine.                                                  *)

Goto(l) == pc' = l /\ UNCHANGED <<todo, result, cancelled, subscribed, notifier, listeners>>

(* A notify loop is entered: all registered listeners are to be called. *)
Notify(l) ==
  /\ pc' = l /\ todo' = listeners
  /\ UNCHANGED <<result, cancelled, subscribed, notifier, listeners>>

(* The process ends; everything in it is gone. *)
Exit(why) ==
  /\ pc' = "exited" /\ result' = why
  /\ UNCHANGED <<todo, cancelled, subscribed, notifier, listeners>>

(* A request of the manager may fail, and does when its context is cancelled. *)
RequestMayFail == "api" \in Faults \/ cancelled

(* NewManager: registration is fatal when it fails. *)
Register ==
  /\ pc = "register"
  /\ \/ Goto("listen")
     \/ RequestMayFail /\ Exit("fatal")
  /\ UNCHANGED <<dvars, tvars, cvars, pvars>>

StartListener ==
  /\ pc = "listen" /\ Goto("subscribe") /\ ListenerStart
  /\ UNCHANGED <<dvars, cvars, pvars>>

(* Subscribe: a platform without the Telemetry API answers 202, which is     *)
(* logged and taken for success.                                             *)
Subscribe ==
  /\ pc = "subscribe"
  /\ \/ /\ subscribed' \in IF "telemetry" \in Faults THEN BOOLEAN ELSE {TRUE}
        /\ pc' = "setnotifier" /\ UNCHANGED <<todo, result, cancelled, notifier, listeners>>
     \/ RequestMayFail /\ Exit("fatal")
  /\ UNCHANGED <<dvars, tvars, cvars, pvars>>

SetNotifierForgotten ==  \* mutant
  /\ pc = "setnotifier" /\ Goto("start")
  /\ UNCHANGED <<dvars, tvars, cvars, pvars>>

(* main makes the manager the notifier of all components. *)
SetNotifier ==
  /\ pc = "setnotifier" /\ pc' = "start" /\ notifier' = TRUE
  /\ UNCHANGED <<todo, result, cancelled, subscribed, listeners>>
  /\ UNCHANGED <<dvars, tvars, cvars, pvars>>

(* Run calls collector.Start: the service cannot be made, or is started in *)
(* a goroutine of its own ...                                              *)
StartCollector ==
  /\ pc = "start"
  /\ \/ Goto("starting") /\ ServiceBecomes("starting")
     \/ "start" \in Faults /\ Goto("initerror") /\ UNCHANGED wvars
  /\ UNCHANGED <<dvars, tvars, colTodo, pvars>>

StartReturnsImpatient ==  \* mutant: a service that is still starting counts as started
  /\ pc = "starting"
  /\ \/ PollState /\ UNCHANGED mvars
     \/ ~failed /\ polled = "starting" /\ polled' = "none" /\ UNCHANGED <<col, done, failed>>
        /\ Goto("select")
     \/ PollAgain /\ UNCHANGED mvars
     \/ StartSucceeds /\ Goto("select")
     \/ StartFails /\ Goto("initerror")
  /\ UNCHANGED <<dvars, tvars, colTodo, pvars>>

(* ... and its state polled until it is no longer starting. *)
StartReturns ==
  /\ pc = "starting"
  /\ \/ (PollState \/ PollAgain) /\ UNCHANGED mvars
     \/ StartSucceeds /\ Goto("select")
     \/ StartFails /\ Goto("initerror")
  /\ UNCHANGED <<dvars, tvars, colTodo, pvars>>

(* Run reports the error, whether or not the report succeeds, and returns. *)
InitError ==
  /\ pc = "initerror" /\ Exit("initfailed")
  /\ UNCHANGED <<dvars, tvars, cvars, pvars>>

(* processEvents, the select at the top of the loop. *)
CheckContext ==
  /\ pc = "select"
  /\ IF cancelled THEN Exit("cancelled") ELSE Goto("next")
  /\ UNCHANGED <<dvars, tvars, cvars, pvars>>

NextEventStopsFirst ==  \* mutant: the listeners are not told of the shutdown
  /\ pc = "next" /\ event # "none"
  /\ IF event = "SHUTDOWN" THEN Goto("stop") ELSE Notify("invoked")
  /\ event' = "none"
  /\ UNCHANGED <<dvars, tvars, cvars, cur, lam, frozen, outbox, redelivered, owed>>

(* NextEvent returns the event the platform has for the extension. *)
NextEvent ==
  /\ pc = "next" /\ event # "none"
  /\ Notify(IF event = "SHUTDOWN" THEN "envshutdown" ELSE "invoked")
  /\ event' = "none"
  /\ UNCHANGED <<dvars, tvars, cvars, cur, lam, frozen, outbox, redelivered, owed>>

(* NextEvent fails: the request failed or its context was cancelled. *)
NextEventFails ==
  /\ pc = "next" /\ ~frozen /\ RequestMayFail
  /\ Goto("exiterror")
  /\ UNCHANGED <<dvars, tvars, cvars, pvars>>

ExitError ==
  /\ pc = "exiterror" /\ Exit("failed")
  /\ UNCHANGED <<dvars, tvars, cvars, pvars>>

(* The loops call the listeners one after the other. *)
Called(p) ==
  todo' = todo \ {p} /\ UNCHANGED <<pc, result, cancelled, subscribed, notifier, listeners>>

ListenersReturned == todo = {} /\ \A p \in Processors : stop[p]["manager"] = "out"

NotifyFunctionInvoked(p) ==
  /\ pc = "invoked" /\ p \in todo
  /\ StartForwardingData(p) /\ Called(p)
  /\ UNCHANGED <<tvars, cvars, pvars>>

(* listener.Wait is called for the request of the event. *)
Wait ==
  /\ pc = "invoked" /\ ListenersReturned
  /\ WaitCall(cur) /\ Goto("wait")
  /\ UNCHANGED <<dvars, cvars, pvars>>

WaitStep == WaitPoll(cancelled) \/ WaitGet

(* Inside Wait; its error is only logged, so that notifyFunctionFinished     *)
(* follows in any case.                                                      *)
Waiting ==
  /\ pc = "wait"
  /\ WaitStep
  /\ IF wait' = "out" THEN Notify("finished") ELSE UNCHANGED mvars
  /\ UNCHANGED <<dvars, cvars, pvars>>

NotifyFunctionFinishedAll(p) ==  \* mutant: the listeners are called without waiting for them
  /\ pc = "finished" /\ p \in todo
  /\ StopForwardingData(p, "manager")
  /\ todo' = todo \ {p}
  /\ pc' = IF todo = {p} THEN "select" ELSE pc
  /\ UNCHANGED <<result, cancelled, subscribed, notifier, listeners>>
  /\ UNCHANGED <<tvars, cvars, pvars>>

NotifyFunctionFinished(p) ==
  /\ pc = "finished" /\ p \in todo
  /\ \A q \in Processors : stop[q]["manager"] = "out"
  /\ StopForwardingData(p, "manager") /\ Called(p)
  /\ UNCHANGED <<tvars, cvars, pvars>>

FunctionFinishedReturned ==
  /\ pc = "finished" /\ ListenersReturned /\ Goto("select")
  /\ UNCHANGED <<dvars, tvars, cvars, pvars>>

NotifyEnvironmentShutdownIdly(p) ==  \* mutant: no forwarder is started
  /\ pc = "envshutdown" /\ p \in todo
  /\ Called(p)
  /\ UNCHANGED <<dvars, tvars, cvars, pvars>>

NotifyEnvironmentShutdown(p) ==
  /\ pc = "envshutdown" /\ p \in todo
  /\ StartForwardingData(p) /\ Called(p)
  /\ UNCHANGED <<tvars, cvars, pvars>>

ShutdownListener ==
  /\ pc = "envshutdown" /\ ListenersReturned
  /\ ListenerShutdown
  /\ Goto(IF closer'["manager"] = "out" THEN "stop" ELSE "lshutdown")
  /\ UNCHANGED <<dvars, cvars, pvars>>

(* Inside Shutdown; a panic ends the process. *)
ShuttingListener ==
  /\ pc = "lshutdown"
  /\ \/ /\ ShutdownStep("manager")
        /\ IF closer'["manager"] = "out" THEN Goto("stop") ELSE UNCHANGED mvars
     \/ ClosesNil("manager") /\ Exit("panicked")
  /\ UNCHANGED <<dvars, cvars, pvars>>

(* collector.Stop, called here only. *)
Stop ==
  /\ pc = "stop" /\ Goto("stopping")
  /\ StopCall
  /\ UNCHANGED <<dvars, tvars, colTodo, pvars>>

(* Stop returns, then Run, and the process ends. *)
StopReturns ==
  /\ pc = "stopping" /\ Exit("shutdown")
  /\ StopReturned
  /\ UNCHANGED <<dvars, tvars, colTodo, pvars>>

Manager == ~Panicked /\
  \/ Register \/ StartListener \/ Subscribe \/ SetNotifier \/ StartCollector \/ StartReturns
  \/ InitError \/ CheckContext \/ NextEvent \/ NextEventFails \/ ExitError
  \/ Wait \/ Waiting \/ FunctionFinishedReturned
  \/ ShutdownListener \/ ShuttingListener \/ Stop \/ StopReturns
  \/ \E p \in Processors : \/ NotifyFunctionInvoked(p) \/ NotifyFunctionFinished(p)
                           \/ NotifyEnvironmentShutdown(p)
----------------------------------------------------------------------------
(* The other goroutines run while the process exists and is not frozen.      *)

Up == ~Ended /\ ~frozen

(* The otelcol service (external), as the wrapper in collector.go uses it.   *)

(* newDecoupleProcessor: the processor registers with the notifier, without  *)
(* which the collector does not start.                                       *)
BuildProcessor(p) ==
  /\ Up
  /\ col = "starting" /\ p \notin listeners
  /\ IF notifier THEN listeners' = listeners \cup {p} /\ UNCHANGED wvars
     ELSE ServiceBecomes("closed") /\ UNCHANGED listeners
  /\ UNCHANGED <<pc, todo, result, cancelled, subscribed, notifier>>
  /\ UNCHANGED <<dvars, tvars, colTodo, pvars>>

(* The components are built, then started. *)
Built == listeners = Processors

CollectorUp ==
  /\ Up /\ Built
  /\ col = "starting" /\ ServiceBecomes("running")
  /\ UNCHANGED <<dvars, tvars, mvars, colTodo, pvars>>

CollectorStartFails ==
  /\ "start" \in Faults
  /\ Up
  /\ col = "starting" /\ ServiceBecomes("closed")
  /\ UNCHANGED <<dvars, tvars, mvars, colTodo, pvars>>

(* The service's own reasons to shut down: its context, which is the         *)
(* manager's, or a fatal error of a component.  Nobody watches appDone.      *)
CollectorGivesUp ==
  /\ Up
  /\ col = "running" /\ (cancelled \/ "collector" \in Faults)
  /\ ServiceBecomes("closing")
  /\ UNCHANGED <<dvars, tvars, mvars, colTodo, pvars>>

(* The processors are shut down one after the other. *)
CollectorQuiet == \A p \in Processors : stop[p]["collector"] = "out"

ShutdownProcessor(p) ==
  /\ Up
  /\ col = "closing" /\ CollectorQuiet /\ p \in colTodo
  /\ StopForwardingData(p, "collector")
  /\ colTodo' = colTodo \ {p}
  /\ UNCHANGED <<tvars, mvars, wvars, pvars>>

CollectorClosed ==
  /\ Up
  /\ col = "closing" /\ CollectorQuiet /\ colTodo = {}
  /\ ServiceBecomes("closed")
  /\ UNCHANGED <<dvars, tvars, mvars, colTodo, pvars>>

(* The goroutine that Start has started ends. *)
CollectorReturns ==
  /\ Up
  /\ ServiceReturns(pc = "starting")
  /\ UNCHANGED <<dvars, tvars, mvars, colTodo, pvars>>

Collector ==
  \/ CollectorUp \/ CollectorStartFails \/ CollectorClosed \/ CollectorReturns
  \/ \E p \in Processors : BuildProcessor(p) \/ ShutdownProcessor(p)

(* A receiver, or what it feeds, hands a payload to a decouple processor.    *)
(* The telemetryapi receiver never stops its HTTP server, so this may happen *)
(* after the collector has shut down.                                        *)
Pipeline(p) ==
  /\ Up /\ Built
  /\ \E d \in Data : QueueData(p, d)
  /\ UNCHANGED <<tvars, mvars, cvars, pvars>>

(* The goroutines inside stopForwardingData and the forwarder.               *)
Decouple(p) ==
  /\ Up
  /\ ForwarderStep(p) \/ \E s \in Stoppers : StopperStep(p, s)
  /\ UNCHANGED <<tvars, mvars, cvars, pvars>>

Put(h) == Up /\ HandlerPut(h) /\ UNCHANGED <<dvars, mvars, cvars, pvars>>

ListenerFails ==
  /\ Up /\ "telemetry" \in Faults
  /\ \/ (ServerFails \/ ShutdownStep("server")) /\ UNCHANGED mvars
     \/ ClosesNil("server") /\ Exit("panicked")
  /\ UNCHANGED <<dvars, cvars, pvars>>

(* The goroutine of NewManager that cancels the context. *)
Signal ==
  /\ Up /\ "signal" \in Faults /\ ~cancelled
  /\ cancelled' = TRUE
  /\ UNCHANGED <<pc, todo, result, subscribed, notifier, listeners>>
  /\ UNCHANGED <<dvars, tvars, cvars, pvars>>
----------------------------------------------------------------------------
(* The Lambda platform (external).                                           *)

(* The function is invoked: the runtime and every extension have asked for   *)
(* their next event.  platform.start is on its way.                          *)
Invoke ==
  /\ pc = "next" /\ ~Panicked /\ event = "none" /\ lam = "idle"
  /\ cur < Cardinality(Requests)
  /\ cur' = cur + 1 /\ event' = "INVOKE"
  /\ lam' = "running" /\ frozen' = FALSE
  /\ outbox' = Append(outbox, NoRequest)
  /\ UNCHANGED <<dvars, tvars, mvars, cvars, redelivered, owed>>

(* The function returns, fails or times out: platform.runtimeDone. *)
FunctionDone ==
  /\ ~Ended /\ lam = "running" /\ lam' = "idle"
  /\ outbox' = Append(outbox, cur)
  /\ owed' = [p \in Processors |-> Len(sent[p])]
  /\ UNCHANGED <<dvars, tvars, mvars, cvars, event, cur, frozen, redelivered>>

(* Events are posted to the listener, as many as there are or fewer. *)
Deliver(h) ==
  /\ Up /\ subscribed
  /\ \E n \in 1..Len(outbox) :
       /\ HandlePost(h, SubSeq(outbox, 1, n))
       /\ outbox' = SubSeq(outbox, n + 1, Len(outbox))
  /\ UNCHANGED <<dvars, mvars, cvars, event, cur, lam, frozen, redelivered, owed>>

(* A POST that was handled but not answered in time is sent once more. *)
Redeliver(h) ==
  /\ "telemetry" \in Faults /\ Up /\ subscribed /\ redelivered < MaxRedeliveries
  /\ \E r \in 1..cur : ~(lam = "running" /\ r = cur) /\ HandlePost(h, <<r>>)
  /\ redelivered' = redelivered + 1
  /\ UNCHANGED <<dvars, mvars, cvars, event, cur, lam, frozen, outbox, owed>>

(* Undelivered events are dropped. *)
LoseEvents ==
  /\ "telemetry" \in Faults /\ ~Ended /\ outbox # <<>>
  /\ outbox' = <<>>
  /\ UNCHANGED <<dvars, tvars, mvars, cvars, event, cur, lam, frozen, redelivered, owed>>

(* The extension has asked for the next event, so the invocation is over. *)
Freeze ==
  /\ pc = "next" /\ ~Panicked /\ event = "none" /\ lam # "running"
  /\ frozen' = TRUE
  /\ UNCHANGED <<dvars, tvars, mvars, cvars, event, cur, lam, outbox, redelivered, owed>>

(* The environment is shut down: no request follows. *)
ShutdownEnvironment ==
  /\ lam = "idle" /\ event = "none" /\ pc # "register" /\ ~Ended
  /\ event' = "SHUTDOWN" /\ lam' = "ending" /\ frozen' = FALSE
  /\ UNCHANGED <<dvars, tvars, mvars, cvars, cur, outbox, redelivered, owed>>
----------------------------------------------------------------------------
Platform ==
  \/ Invoke \/ FunctionDone \/ LoseEvents \/ Freeze \/ ShutdownEnvironment
  \/ \E h \in Handlers : Deliver(h) \/ Redeliver(h)

Next ==
  \/ Manager \/ Collector \/ CollectorGivesUp \/ ListenerFails \/ Signal \/ Platform
  \/ \E p \in Processors : Pipeline(p) \/ Decouple(p)
  \/ \E h \in Handlers : Put(h)

Safety == Init /\ [][Next]_vars

(* The goroutines of the process run, calls of exporters return, and the     *)
(* requests the manager makes are answered once there is an answer.          *)
ProcessFairness ==
  /\ WF_vars(Manager) /\ WF_vars(Collector)
  /\ \A p \in Processors : WF_vars(Decouple(p))
  /\ \A h \in Handlers : WF_vars(Put(h))

(* A function ends, at the latest at its timeout, and telemetry arrives.     *)
PlatformFairness ==
  WF_vars(FunctionDone) /\ WF_vars(\E h \in Handlers : Deliver(h))

Spec == Safety /\ ProcessFairness /\ PlatformFairness

(* The process is scheduled; nothing is assumed of function and platform.    *)
ProcessSpec == Safety /\ ProcessFairness
----------------------------------------------------------------------------
(* While the environment is frozen no processor is talking to its exporter,  *)
(* whatever failed before: FunctionFinished "is called ... before the        *)
(* environment is frozen" (notifier.go).                                     *)
NoExportWhileFrozen ==
  frozen => \A p \in Processors : idle[p] = 0 /\ inflight[p] = {}

(* What the pipelines had queued when the function was done has been         *)
(* exported when the environment is frozen, provided that the collector runs *)
(* and the context is not cancelled.                                         *)
FlushedBeforeFreeze ==
  frozen /\ col = "running" /\ ~cancelled =>
    \A p \in Processors : Len(handed[p]) >= owed[p] /\ inflight[p] = {}

(* FunctionFinished is notified only after the function is done: Wait        *)
(* returned because of the right runtimeDone or of the cancelled context.    *)
FinishedAfterDone == pc = "finished" => lam # "running" \/ cancelled

(* What Start reports of the service is true although it looks at state and  *)
(* error one after the other while the service moves on: an error means that *)
(* there is no service or it is over, none that it did come to run           *)
(* (collector.go:125-142).                                                   *)
StartReportsService ==
  /\ pc = "initerror" => col \in {"none", "closing", "closed"}
  /\ pc \in {"select", "next", "invoked"} => col \in {"running", "closing", "closed"}

(* A server that failed, because the port was taken or later, does not make  *)
(* the manager's Shutdown panic, unless its own call of Shutdown is still     *)
(* going on: the check for nil does not cover that (listener.go:107-116).     *)
PanicsOnlyTogether == result = "panicked" => together

(* After an orderly life everything queued before a processor's shutdown was *)
(* exported.                                                                 *)
NothingLostAtShutdown ==
  result = "shutdown" => \A p \in Processors : Len(handed[p]) >= mark[p]

(* The notifier is set before the collector builds its components: when      *)
(* nothing fails no initialization error ends the process, and the manager   *)
(* asks for events only when every processor is registered with it.          *)
ComesUp ==
  /\ Faults = {} => result \in {"none", "shutdown"}
  /\ pc \in {"select", "next"} => listeners = Processors

(* The calls that the manager and the collector make are those that          *)
(* DecoupleLifecycle assumes: pairs of invoked and finished, then one        *)
(* EnvironmentShutdown, never a call before the previous one returned; and   *)
(* without faults the collector's shutdown comes last.                       *)
Phase(p) ==
  CASE pc = "invoked" -> IF p \in todo THEN "idle" ELSE "invoked"
    [] pc = "wait" -> "invoked"
    [] pc = "finished" -> IF p \in todo THEN "invoked" ELSE "idle"
    [] pc = "envshutdown" -> IF p \in todo THEN "idle" ELSE "shutdown"
    [] pc \in {"lshutdown", "stop", "stopping"} \/ result \in {"shutdown", "panicked"} -> "shutdown"
    [] OTHER -> "idle"

Lifecycle == INSTANCE DecoupleLifecycle WITH
  EarlyStop <- Faults \cap {"signal", "collector", "start"} # {},
  phase <- [p \in Processors |-> Phase(p)],
  closed <- [p \in Processors |-> p \notin colTodo]

IsLifecycle == Lifecycle!Safety

(* When the process ends after a SHUTDOWN event the collector is closed and  *)
(* its call of the processors' shutdown has returned.  An exporter call that *)
(* this cuts off is that of a forwarder whose stop is still in the channel:  *)
(* its component was shut down early, by a stop that met no forwarder or     *)
(* that of an invocation, and this one nobody waits for.                     *)
ShutdownDrains ==
  result = "shutdown" =>
    /\ done /\ col = "closed"
    /\ \A p \in Processors :
         /\ stop[p]["collector"] = "out"
         /\ inflight[p] # {} => Lifecycle!StopsIn(chan[p]) # {}

(* An invocation comes to its end for the extension: it asks for the next    *)
(* event, so that the environment can be frozen, or the process ends.        *)
InvocationReleased == (pc = "invoked") ~> (pc = "next" \/ Ended)

(* A SHUTDOWN event makes the process end.                                   *)
ShutdownEnds == (event = "SHUTDOWN") ~> Ended
----------------------------------------------------------------------------
(* Two statements of the repository that the code does not keep.             *)

(* lambdalifecycle/notifier.go:25: "Shutting down of the collector           *)
(* components only happens after all listeners have returned."               *)
ComponentsOutliveListeners ==
  \A p \in Processors : p \notin colTodo =>
    \A q \in Processors : Phase(q) = "shutdown" /\ stop[q]["manager"] = "out"

(* main.go:54: Run "will block until shutdown event is received or cancelled *)
(* via the context": a cancelled context ends it, unless Lambda freezes it.    *)
CancelEndsRun == cancelled ~> (Ended \/ frozen)
=============================================================================
