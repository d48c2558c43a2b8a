# Specifications of the OpenTelemetry Lambda collector extension

The extension is a Go process that runs beside an AWS Lambda function. It embeds an
OpenTelemetry collector, learns of invocations from the Extensions API and of their end from
the Telemetry API, and must have exported what the function produced before Lambda freezes
the environment. This directory holds TLA+ modules for the parts of it that can go wrong by
timing, order or failure, the TLC configurations that check them on small instances, and
proofs, checked by TLAPS, that hold for every instance. Paths below are relative to
`src/collector/` unless they start with `src/`.

## 1. Inventory

| Component | State | Operations | Talks to | What makes it correct |
|---|---|---|---|---|
| Decouple processor (`processor/decoupleprocessor`) | a bounded channel, a forwarder goroutine, a WaitGroup | queueData, FunctionInvoked, FunctionFinished, EnvironmentShutdown, shutdown | called by pipelines, by the manager and by the collector; calls the next consumer | payloads leave once, in order, only between start and stop; a stop drains what came before it and returns |
| Lifecycle manager (`internal/lifecycle`, `main.go`, `lambdalifecycle`) | its place in the event loop, the listeners, a cancellable context | NewManager, Run, processEvents, notify loops, AddListener | Extensions API, listener, collector, processors | calls come in pairs; no export while frozen; an invocation is released; SHUTDOWN drains and ends the process |
| Telemetry API listener (`internal/telemetryapi/listener.go`) | HTTP server, unbounded queue | Start, httpHandler, Wait, Shutdown | the platform posts, the manager waits | Wait returns for the right runtimeDone, and does return |
| API clients (`internal/extensionapi`, `internal/telemetryapi/client.go`) | extension id | Register, NextEvent, InitError, ExitError, Subscribe | the platform | errors are seen by the manager |
| Collector wrapper (`internal/collector`) | the otelcol service, appDone, an error that Start and the service's goroutine share without a lock | NewCollector, Start, Stop | manager, otelcol | Start reports what became of the service, Stop waits for its end |
| Converters (`internal/confmap/converter`) | the configuration, the updates of a pass | Convert of disablequeuedretry and of decoupleafterbatch | otelcol's resolver | a pipeline that needs a decouple processor gets one, nothing else changes, a valid configuration stays valid |
| Telemetry API receiver (`receiver/telemetryapireceiver`) | the two init times, its consumers, the shared instance | create, Start, Shutdown, httpHandler | the platform posts; calls the traces and logs pipelines | the init span is not lost when it is refused; log records arrive once |
| Coldstart processor (`processor/coldstartprocessor`) | reported, a held span, a stored execution | processTraces | called by receivers, calls the next consumer | one cold start span joins the trace of an invocation, the function's other spans pass unchanged |
| Node.js wrapper (`src/nodejs/packages/cx-wrapper`) | the module cache, a promise, a flag and an answer per invocation, the warm-up export | the load at initialisation, handler, invokePatchedHandler with its callback and reactions | the Lambda runtime, Node, the user's handler | each invocation is answered once, with the first word of its own handler |
| Component registry, layer scripts, `src/extend`, workflows | none | | | not modelled: no state |

How they interact: `main` creates the manager, which registers, starts the listener and
subscribes it; `SetNotifier` publishes the manager; `Run` starts the collector, whose decouple
processors register themselves with the manager while they are built. For each INVOKE the
manager calls FunctionInvoked of every listener, waits until the listener's queue shows
runtimeDone of this request, calls FunctionFinished of every listener and asks for the next
event, which is what allows Lambda to freeze the environment. On SHUTDOWN it calls
EnvironmentShutdown, closes the listener and stops the collector. Independently, the
telemetryapi receiver feeds the coldstart processor and the log pipelines, and the Node.js
wrapper, in the function's process, answers the invocations.

The hard behaviour: pipelines send while the stop of the forwarder is on its way through the
same channel; the collector may go away (signal, fatal error) while the manager goes on;
telemetry is buffered, batched, lost or repeated; the environment freezes between any two
steps once the next event is asked for; handlers of the receiver and callers of the coldstart
processor share fields without locks, as do the two goroutines of `Collector.Start` and the two
callers of the listener's Shutdown; the user's handler may answer by a callback, a promise, a
value and an exception at once. `PROJECT.json` lists each of these at its line.

## 2. Modules

| Module | Models | Uses |
|---|---|---|
| `ForwardGate` | the abstract promise of a decouple processor | |
| `DecoupleProcessor` | channel, forwarder, WaitGroup: one action per operation, callers open | |
| `DecoupleLifecycle` | processors under the calls of manager and collector | extends `DecoupleProcessor`, refines `ForwardGate` |
| `TelemetryListener` | the manager's listener, with the two callers of its Shutdown | |
| `CollectorWrapper` | Start with its poll, the service's goroutine, Stop | |
| `ExtensionSystem` | manager, listener, collector wrapper, processors, platform | extends `DecoupleProcessor`, `TelemetryListener`, `CollectorWrapper`; refines `DecoupleLifecycle` |
| `Converters` | the chain of converters | |
| `TelemetryReceiver`, `ColdstartProcessor` | one component each, callers open | |
| `InitSpan` | both together with the platform and the function's exporter | extends both |
| `AnswerOnce` | the abstract promise of a function's wrapper | |
| `HandlerWrapper` | the Node.js wrapper with Node, Lambda's runtime and the user's handler | refines `AnswerOnce` |
| `DecoupleProofs`, `DecoupleRefinement`, `ExtensionProofs`, `ConverterProofs`, `InitSpanProofs`, `HandlerProofs` | theorems | extend the module they are about |
| `SpanPathProofs` | theorems about records, spans and links | extends `InitSpanProofs` |
| `MC*` | model values, inputs and symmetry for TLC | |

### DecoupleProcessor, DecoupleLifecycle

`chan[p]` is the Go channel together with the senders that are blocked on it: Go serves them
in order, so a blocked send already has its place, and it is complete when its element is
among the first `MaxQueueSize`. A stop is the zero `contextualData`; the model tells the
stops of the manager and of the collector apart by name, which the code does not, and no
action looks at the name except to see whose send is over. `wg`, `idle` and `inflight` are the
WaitGroup, the forwarders at their receive and the payloads inside `consume`. `idle` is a
number, so that a second forwarder is representable and its absence a property. `sent`,
`handed` and `mark` are history. `EarlyStop` says whether the collector may shut the processor
down at any time or only after EnvironmentShutdown; in both cases once.

A goroutine that `wg.Wait()` has to release returns in a step of its own (`WaitReturns`). Go panics
when the counter is raised again before it has run ("WaitGroup is reused before previous Wait has
returned"), and the process ends (`Panicked`). `WaitNotReused` says that the manager's wait is never
caught so, and the collector's only after an early stop, when the next FunctionInvoked comes first.

`decoupleprocessor/README.md:9` says that the processor "will prevent the environment from being
frozen or shutdown until any pending traces/metrics/logs have been exported". That speaks of a
component that lives. What an early stop does to it, the tests of the code do not reach. The
collector's stop ends the forwarder of the running invocation. The stop of FunctionFinished then
stays in the channel until the next FunctionInvoked starts a forwarder, which ends at it; from then
on every forwarder ends at the stop of the invocation before, and exports lag by exactly one
invocation (`OneStopLeftOver`). If the channel is full while no forwarder runs, the stop cannot even
be sent and the manager hangs in FunctionFinished; `StopsReturnUnlessStranded` says that this is the
only way to hang.

### ExtensionSystem

`pc` is the place of the manager's goroutine, from registration to the end of the process, one
action per call it makes. `Collector.Start` polls: it reads the state of the service and then the
variable `err`, which the service's goroutine writes without synchronisation, so that its write
may be seen or not (`ServiceReturns`). The listener's Shutdown tests its server, uses it and
forgets it in three steps, because the goroutine of a server that failed calls it too. `Wait` is
split at its select and at `queue.Get`, since the context is looked at only at the first. The
notify loops call listeners one after the other in any order: registration order depends on the
order in which otelcol builds the graph. The `Faults` constant chooses what may go wrong:
`signal`, `collector` (fatal component error), `start`, `api`, `telemetry` (202 on subscribe, a
listener that cannot serve, lost or repeated events). The platform is external: it invokes when
the extension has asked for the next event, may freeze after that, and thaws with the next event.
SHUTDOWN may be pending while the manager is still busy. Nothing in the process moves while it is
frozen or has ended. A signal during a request of the manager makes it fail, as the requests carry
its context.

The telemetry queue is unbounded in the code and in the model; it stays small because
invocations are bounded by `Requests` and repeated deliveries by `MaxRedeliveries`.

### Converters

A component id is reduced to its type, because the code splits it at "/" and looks at the
first part only. `Registered` is the chain that runs. `NewCollector` registers the queued-retry
converter alone today; the runs use the decouple converter too, which the repository documents
and tests. `MergeFails` is `conf.Merge` returning an error, after which no converter runs; `queue` is
state without a property, as one statement alone writes it.
A missing or malformed section or list, which the converters pass over, is a
pipeline outside the domain of `processors` or an exporter outside that of `queue`. `offered` says
whether the section `processors` declares a decouple processor, which the converter does not
look at but otelcol's validation does. `Flags` is the loop of `shouldAppendDecouple`: the flag
after each number of elements, as a recursive function, so that it can be proved about.
`NeedsDecouple` says independently what the flag should mean.

### TelemetryReceiver, ColdstartProcessor, InitSpan

The receiver's handlers and the coldstart processor's callers are goroutines that share
fields without a lock. Every read or write of a shared field that another goroutine can come
between is a step of its own: recording each time, testing both, clearing them; looking at a
span, allocating the held or stored span, copying into it, joining, noting that the cold start is
reported, forgetting the span that was held. A time is the number of its init phase and 0 for "";
`Unparsable` times make no init span and are not cleared. The first loop walks over all events of
the POST and passes over those that carry no time. Two simplifications: both times are cleared in
one step, and a string that is written while it is read shows up as a panic only (`TornRead`; the
first loop reads the time it replaces, to log it, so it can tear as the test after it can). A
Start whose Subscribe fails returns an error and leaves its server running.

A batch is a sequence of spans; the code's grouping by resource and scope is left out, and so is
the scope and resource that a cold start span takes over together with trace id and parent. A kept
span records whose trace it is in. The code takes every span with a true `faas.coldstart` for a
cold start span, the receiver's ("init") and one of the function's own ("marked"), with
`faas.execution` or without. A span that was held is appended to the slice that `RemoveIf` walks,
which visits it last. The span that the code would read through a pointer set to nil in between is
a panic (`NilDereference`).

In `InitSpan` the function exports its batches in any order: `Calls` is a set, from which
concurrent goroutines take them. A goroutine that panics is gone and the spans of its call count
as refused, like those of a call that the next consumer refuses; net/http recovers such a panic.
The function's spans come through the otlp receiver, whose gRPC server recovers nothing: there a
panic ends the process, a case outside the model, as no property survives it.

`posted` and `logged` are history, for each handler: the log records it got and those it has
handed to the logs consumer, so that `LogsComplete` can speak of one handler while others run. A
POST with a record that cannot be converted counts as none.

`ShutdownReceiver` leaves the server running, as the code does, so posts go on afterwards.

### HandlerWrapper, AnswerOnce

Node runs one job at a time, so an action is a job of the wrapper, or the part of one up to
where the user's code takes over; while the synchronous part of a handler runs (`pc = "inside"`)
only user code moves. The user's code may call the callback inside the handler, in a job of its
own or during a later invocation, return a value or a promise, settle that promise at any time,
and throw after having done some of these. `events` is history: what the load and the user's
code did for each invocation, in order; `FirstWordCounts` and the refinement compare the answer
with it. `module` is Node's cache: a module that `require` failed to evaluate is forgotten, one
that `import()` failed on is kept as broken, and an import is awaited by the load at
initialisation and by the first invocation alike. `unhandled` is a rejection that nobody
handles, which ends the process unless Node is told otherwise. `expects` is the length of the
patched handler, which the instrumentation decides. What a callback succeeds with is no
thenable. A process that ends loses the invocation in progress, and a new one starts with an
empty cache.

## 3. Runs

| Run | Configuration | Shows |
|---|---|---|
| `decouple_orderly` | 1 processor, 3 payloads, queue of 1 | the gate is implemented, stops return, no wait panics |
| `decouple_early` | 1 processor, 4 payloads, queue of 2, `EarlyStop` | one forwarder, nothing in flight and everything flushed at rest, a lag of one invocation after an early stop, the one way to hang, no wait of the manager's panics |
| `extension_clean` | 2 processors, 2 payloads, queue of 2, 2 requests, 1 handler, no faults | comes up, flushes before each freeze, loses nothing at shutdown, releases invocations, ends; its calls are those `DecoupleLifecycle` assumes |
| `extension_faults` | 1 processor, 1 payload, queue of 2, 2 requests, 2 handlers, all faults, 1 redelivery | no export while frozen, no early finish, Start tells the truth, the listener panics only when two shut it down at once, the process ends after the collector, still the same calls |
| `extension_listeners` | 2 processors, signal | finding 1 |
| `extension_cancel` | 1 processor, 2 requests, signal, no assumption on the platform | finding 2 |
| `converters_full` | 2 pipelines, every list of up to 3 processors or none, each converter twice, failing merges | minimal, makes progress, invalid in one case only; finding 3 |
| `converters_break` | the decouple converter alone | finding 4 |
| `init_span` | 2 handlers, 1 other goroutine, a repeated init, a third one with an unparsable time, 1 invocation, 1 refused batch | the last init span and the log records are not lost |
| `init_span_calls` | 1 handler, 2 other goroutines, 1 init, 4 batches in any order, 2 of them with a marked span, 1 refused batch | no other span is lost, doubled or moved; without overlap cold start and execution meet, once; finding 6 |
| `init_span_trigger` | 1 handler, 1 other goroutine, 1 init, 2 invocations | finding 5 |
| `handler_wrapper` | 2 invocations, 2 processes, 2 calls of each callback, 1 result, 1 error, both module formats, both arities | each invocation is answered once, with its first decisive word, and hangs only for its callback |

Why the bounds are enough. With a queue of 1 and three payloads the channel is empty, full, and
full with blocked senders behind the stop and before it; `decouple_early` has room for a stop and
a payload together and enough payloads to fill the channel afterwards. One processor suffices
because processors share nothing, and the theorems cover any number and size. Two processors
matter for the manager's loops, where one blocks while the other still runs, hence
`extension_clean`. The queues of both system runs hold 2, so that a stop can be sent while a
payload is still before it: with a queue of 1 the send alone would prove the payload gone and hide
a missing wait or a missing forwarder. In `extension_faults` this is also what it takes for an
export to be cut off at the end after an early stop, a case that `ShutdownDrains` describes. Two
requests let one invocation's events meet the next one's Wait. `MaxGet` is 2 instead of 10:
batches that are cut and batches that are not both occur. Two handlers are what a race needs. Two
pipelines are the least in which the loop of the converter can end too early, three processors the
least with a batch on each side of a decouple. Runs without liveness use the symmetry of payloads,
processors and handlers; no run with a liveness property does. Deadlock is not checked since every
run ends: the process exits, payloads and feeds are used up, the configuration is resolved. That
the parts which must go on do so is stated by the liveness properties instead.

Two invocations let a late callback, promise or load of one meet the next; two processes let a
new one start after a crash; two calls of a callback are the least that can disagree, and one
error and one result the least that can tell them apart.

The way of the init span has two runs, as two handlers and two goroutines of the function
together are too many interleavings: `init_span` lets POSTs race each other and one call,
`init_span_calls` calls each other and one POST. The theorems cover any number of both. The feed of
`init_span` holds no log record with an unparsable time: `CreateLogs` models that POST, and it adds
nothing to the shared state.

### Fairness

`DecoupleLifecycle` assumes weak fairness of each goroutine of its own, the forwarder and those
inside stopForwardingData: the Go scheduler runs
every goroutine that can run, and a call of an exporter returns (otelcol's exporters have
timeouts). `ProcessFairness` is the same for the manager, the collector and the HTTP handlers.
`PlatformFairness` adds that a function ends, at the latest at its Lambda timeout, and that
buffered telemetry is delivered; it is used only where no telemetry fault is allowed. Nothing
makes the platform invoke, freeze, thaw or shut down. Weak fairness suffices: none of these
steps, once possible, is disabled by others except a freeze, which disables all, and in that
case the leads-to properties have reached their goal (`pc = "next"`) or wait for SHUTDOWN,
which thaws. `HandlerWrapper` assumes that Node runs each job that is due, that an import and the
synchronous part of a handler end and that a returned promise settles, since Lambda ends the
process otherwise. Nobody has to call a callback.

### Findings

1. `ComponentsOutliveListeners` (`lambdalifecycle/notifier.go:25`): a signal cancels the
   context that otelcol runs with, and its components shut down although no listener was told.
2. `CancelEndsRun` (`main.go:54`): a cancelled context does not end `Run` while `Wait` is inside
   `queue.Get`.
3. `OnlyWhatIsNeeded` (`decoupleafterbatchconverter/converter.go:40`): the comment says that decouple
   "is placed first in the pipeline"; it is appended, as the converter's README says and as the
   property holds.
4. `EveryBatchDecoupled` (the converter's `README.md`): the loop breaks after the first pipeline that
   needs a decouple processor.
5. `InitSpanJoinsTrigger` (coldstart `README.md`): a late init span joins the latest invocation.
6. `MarkedSpansPass` (coldstart `README.md:9`): a span of the function's own with `faas.coldstart` is
   taken for cold start information of the receiver: it is held, leaves in another trace, or is
   lost when a later one takes its place. The property names these circumstances.

Two more disagreements were read from the source and need no run. `README.md:134` says that the
Layer adds the decouple processor by itself, but `NewCollector` (`internal/collector/collector.go:77`)
registers the queued-retry converter only. And that converter says "for all configured exporters"
(`disablequeuedretryconverter/converter.go:60`) while it looks at the exporters of a list.

Two more behaviours are in the model. After an early stop an export may be running when the process
ends, and a payload may stay in the queue (`ShutdownDrains` says when); `decoupleprocessor/README.md:9`,
read as a promise of every moment, says otherwise, but the component has been shut down by then. And
without a lock the coldstart processor can hold a cold start span and an execution at
once, so that they never meet, and dereference a span that another goroutine has forgotten;
`NeverHoldsBoth`, `LinkedOnce` and `InitSpanJoins` therefore have the premise that goroutines did not
overlap, a fact the history variable `overlapped` records. `InitSpanJoins` also excludes refused
batches: the processor counts a cold start as reported before the exporter has answered, and the
span that is made again stays in a trace of its own.

## 4. Proofs

`DecoupleProofs` proves for every `Processors`, `Data`, `MaxQueueSize` > 0 and either value of
`EarlyStop`

    TypeCorrect       Safety => []TypeOK
    ForwarderIsAlone  Safety => []AtMostOneForwarder
    QuietAtRest       Safety => []NothingInFlightAtRest
    LagIsOne          Safety => []OneStopLeftOver
    RestIsFlushed     Safety => []FlushedAtRest
    WaitsReturn       Safety => []WaitNotReused

None of them is inductive. The invariant is `FInv == TypeOK /\ Forwarders`, where `Forwarders` says
of each processor that the WaitGroup counts 0 or 1, that with 0 nobody receives and nothing is in
flight, that with 1 there is either an idle forwarder or one that is inside `consume` with one
payload, and that `AtRest` implies 0. The types need the second part (a counter that is decremented
must have been 1) and the second part needs that the manager starts a forwarder only `AtRest`, when
`wg.Wait()` has seen 0. It holds for an early collector stop too: a stop that comes early ends the
one forwarder, and the manager's own stop then finds the counter at 0. `LagIsOne` adds a balance of
stops in the channel, forwarders and the phase: the number of stops is what the calls so far have
put in and the forwarders have not taken, and no invocation changes it. `RestIsFlushed` follows from
`MInv`: the elements of the channel are the payloads not yet handed on and the stops (`Balance`),
and as long as the collector keeps the order a stop in the channel stands right behind the payloads
that `mark` counts (`Marked`). `WaitsReturn` rests on the counter being 0 as long as the manager's
woken waiter has not run, and the collector's if it keeps the order (`WaiterSafe`). The conditional
form `FlushedAtShutdown` is what `ExtensionProofs` needs.

`DecoupleRefinement` proves

    OrderlyImplementsGate   ~EarlyStop => (Safety => IsGate)

with the refinement mapping of `DecoupleLifecycle`: `accepted`, `delivered`, `busy` and `due` are
the histories and `inflight`, the gate is closing while somebody is inside stopForwardingData.
The invariant `OInv` adds `Orderly` to `FInv`: who can be inside a stop in which phase, that there is at
most one stop in the channel, and that the channel is exactly what was sent and not yet handed
on, with that stop at the place that `mark` remembers (`Follows`, `StopAt`). Each action has a
lemma that it keeps `Orderly` and one that it is a step of the gate or a stutter.

`ExtensionProofs` is about the whole extension, for every number of processors, payloads, requests
and handlers and for every set of faults:

    SystemIsLifecycle       Safety => IsLifecycle
    SystemTypes             Safety => []TypeOK
    FrozenIsQuiet           Safety => []NoExportWhileFrozen
    FreezeIsFlushed         Safety => []FlushedBeforeFreeze
    FinishedIsLate          Safety => []FinishedAfterDone
    StartIsTruthful         Safety => []StartReportsService
    PanicNeedsTwo           Safety => []PanicsOnlyTogether
    SystemDrains            Safety => []ShutdownDrains
    OrderlyEndLosesNothing  Safety => [](~Early => NothingLostAtShutdown)
    SystemComesUp           Safety => []ComesUp

The invariant `XInv` says where the manager's goroutine is when each of the others is where it
is: nobody is inside FunctionFinished unless the manager calls it (`InsideNone`), every processor
has registered before the loop starts (`AllRegistered`), the collector closes early only by an
early fault (`ClosesLast`), who has forgotten the listener's server (`Forgotten`), and what Start has
read so far agrees with the service (`PollAgrees`). From it every step of the system is a step of
`DecoupleLifecycle` or a stutter, under the mapping `Phase`, whose cases exclude each other in
reachable states. That carries the theorems of `DecoupleProofs` over; with the history of what
the listener was told (`Told`, `Heard`) and of what was owed at the end of the function (`Owing`)
they give the properties of the freeze, and with the end of the collector (`Down`) those of the
shutdown.

`ConverterProofs` proves `TypeOK` and `InvalidOnlyIfUndeclared` for every chain: the pipelines
differ from what was declared by decouple processors only (`OnlyDecouples`). What the loop over a
list computes is proved for lists of any length:

    FlagMeaning         ShouldAppendDecouple(list) <=> NeedsDecouple(list)
    OnlyNeededChanges   Spec => []OnlyWhatIsNeeded
    OnePipelineServed   Spec => []ConvertMakesProgress

The library's induction theorems take an operator, which the provers cannot instantiate, so
`FlagMeaning` argues by a least counterexample: the numbers of elements after which the flag is
wrong are a set of naturals, a non-empty one has a least member (`LeastElement`, from the
well-foundedness of <), 0 is none (`FlagsEquation`), and no number is the least, because one more
element changes flag and meaning alike (`NeedsStep`). With it `NeedInv` is inductive: the pipelines
that the loop has passed need nothing and the one it has picked does (`Found`), and once the
converter has run for the last time either nothing was needed or one pipeline has got its decouple
processor and needs no other (`Progressed`).

`InitSpanProofs` proves `TypeOK`, `NeverHoldsBoth`, `LinkedOnce` and `InitSpanKept` for any number
of handlers and goroutines and any feed, batches and refusals. The types need that whoever works
on a span has one (`Batches`) and that the execution an init span joins is not nil. For the next
two the invariant `LInv` says, as long as nothing has overlapped, that one goroutine at most is
active (`Alone`), that whoever is about to write a field found the other one nil and nothing
reported (`Fields`), and that there is one link at most in what was exported and in the batches on
their way, and none before `reported` (`Links`). `InitSpanKept` holds if the platform posts the
ends of init phases in order (`Chronological`), which the theorem assumes of the feed: `KInv` says
which events are still to be looked at, by the one handler that is active, and that the latest end
among the others is recorded or was taken by the pipeline (`Progress`).

`SpanPathProofs` follows everything that enters to where it leaves:

    RecordsHandedOver       Spec => []LogsComplete
    FunctionSpansLeave      Distinct(Calls) => (Spec => []FunctionSpansPass)
    InitSpanMeetsExecution  Distinct(Calls) => (Spec => []InitSpanJoins)

`RecordsHandedOver` needs no hypothesis, handlers may overlap and fail as they like. The point of
`RInv` is which receiver is which: the instances that the signals were given are one
(`OneReceiver`), although the shared instance is forgotten at a shutdown, since that comes after
both were created; so the receiver that got the port has the logs consumer. What a handler has
handed over and what it still holds is what it got (`Records`).

`FunctionSpansLeave` also covers goroutines that race and panic, and functions whose spans carry
`faas.coldstart`; the only hypothesis is that the spans a function exports differ, as span ids do.
`PInv` speaks of the unmarked spans (`Unmarked`): each is still to be exported, in the batch of one
call, exported or refused, and in no second place (`Placed`); no batch holds one twice or in a
trace that is not its own (`Orderly`); and a call is at a step of the span it visits (`Kinds`), so
that only cold start spans are taken out of a batch or put into another trace. Each step of the
processor rewrites a stretch of its batch that has no unmarked span or leaves the batch as it is
(`Reworked`).

`InitSpanMeetsExecution` says that the two never pass each other by. `JInv` adds to `PInv` and
`LInv` that an init span that is through was held or reported, and an execution that is through
stored or reported (`Seen`, which races do not break, as nothing but a link empties a field), and,
without overlap and refusals, that a stored execution is one that the function sent and that a
processor that has reported, or is about to, has made a link, in a batch on its way or exported
(`Joins`). When nobody is in the pipeline both fields cannot be full (`NeverHoldsBoth`), hence
reported, hence the link.

`HandlerProofs` proves that the wrapper refines `AnswerOnce`, with `FirstWordCounts`,
`SettledMeansDecided` and `TypeOK`, for any number of invocations,
processes and calls. The invariant `HInv` relates flag, promise and history of one invocation: it
is settled exactly when a decisive event is in the history, the promise then has the outcome of
the first one, and no event comes before the invocation has begun.

The assumptions used are those of the modules: `MaxQueueSize` is a positive natural
(`Config.Validate`), payloads differ from stops, `EarlyStop` is Boolean, requests are finitely many
numbers, the handlers are among the threads, feed and batches are sequences of events and of spans
that no receiver made, results differ from errors.

Every refinement, type invariant and invariant of the passing runs but `MarkedSpansPass` is stated
by a theorem. Only model-checked are that one, the liveness properties (`StopsReturn`,
`StopsReturnUnlessStranded`, `InvocationReleased`, `ShutdownEnds`, `HangsOnlyForCallback`), since
the proof system does not reach fairness and ENABLED, and the runs that show a disagreement. The
modules declare no RECURSIVE operator.

## 5. Not modelled

- Contents of spans, records, requests and configuration beyond what is named above; logging.
- otelcol itself: components are built, started, shut down one after the other. Lambda's time
  limits for shutdown: the process may in reality be killed; the model lets it finish.
- In the receiver, the moment between the two assignments that clear the times.
- In the Node.js wrapper, the set-up of the providers (straight-line code that runs once) and the
  search for the file of the user's module (`loader.js`), of which the model keeps the outcome.
- The component registry (tables of factories, some chosen by build tags), layers, scripts,
  example configurations: no state and no behaviour.

## 6. Plan

Done, in the order of importance: the decouple processor and its gate; the lifecycle around
it; the theorems about both; the whole extension with its faults, and the theorems that carry
the processor's over to it; converters; the way of the init span; the Node.js wrapper; proofs
of the remaining invariants.

Left:
1. `InitSpan` between decouple processors: what a freeze between the two times of an init phase
   does to the span, which the two compositions check apart so far.
2. How far exports lag behind after an early stop, in payloads: `OneStopLeftOver` counts stops, and
   that the payloads before the stop that has left are gone follows by reading the channel.
