------------------------------ MODULE InitSpan ------------------------------
(***************************************************************************)
(* The way of the init span: the telemetryapi receiver makes it, the       *)
(* coldstart processor puts it into the trace of an invocation, and the    *)
(* rest of the pipeline accepts the batch or returns an error.  The        *)
(* function's own spans enter the same pipeline through another receiver.  *)
(***************************************************************************)
EXTENDS TelemetryReceiver, ColdstartProcessor, FiniteSets

CONSTANTS
  Feed,     \* external: the platform's events, in the order they are posted
  Calls,    \* external: the batches of spans the function exports, in any order
  Failures  \* bound: how often the rest of the pipeline refuses a batch

(* The goroutines in the pipeline are the handlers and those that serve the  *)
(* calls of the function.                                                    *)
ASSUME HandlersAssumption == Handlers \subseteq Threads
ASSUME FeedAssumption == Feed \in Seq(Events)
ASSUME CallsAssumption == Calls \subseteq Seq({s \in Spans : s.kind # "init"})
ASSUME FailuresAssumption == Failures \in Nat
Servers == Threads \ Handlers

VARIABLES
  feed, calls,   \* external: what is not posted or exported yet
  failures,      \* how often a batch was refused
  exported,      \* history: items that the rest of the pipeline accepted, in order
  refused,       \* history: the spans of the function's batches that ended in an error
  accepted,      \* history: init phases whose span ConsumeTraces took
  overlapped     \* history: were two goroutines ever in the pipeline at once?

ivars == <<feed, calls, failures, exported, refused, accepted, overlapped>>
vars  == <<rvars, cdvars, ivars>>

(* net/http recovers a goroutine that panics, and it is gone. *)
Active == {h \in Handlers : at[h] \notin {"idle", "panicked"} /\ step[h] # "panicked"}
          \cup {s \in Servers : step[s] \notin {"out", "panicked"}}

TypeOK ==
  /\ RTypeOK /\ CTypeOK
  /\ failures \in 0..Failures
  /\ accepted \subseteq Nat \X Nat /\ refused \subseteq Spans /\ overlapped \in BOOLEAN

Init ==
  /\ RInit /\ CInit
  /\ feed = Feed /\ calls = Calls /\ failures = 0
  /\ exported = <<>> /\ refused = {} /\ accepted = {} /\ overlapped = FALSE

(* A goroutine enters the pipeline. *)
Enter(t) ==
  /\ t \notin Active
  /\ overlapped' = (overlapped \/ Active # {})

Create(n) == CreateReceiver(n) /\ UNCHANGED <<cdvars, ivars>>
Start(n) == (\E ok \in BOOLEAN : StartReceiver(n, ok)) /\ UNCHANGED <<cdvars, ivars>>
Shutdown(n) == ShutdownReceiver(n) /\ UNCHANGED <<cdvars, ivars>>

(* The platform posts events; when an answer is late it does not wait.       *)
Post(h) ==
  /\ Enter(h)
  /\ \E k \in 1..Len(feed) : /\ HandlePost(h, SubSeq(feed, 1, k))
                             /\ feed' = SubSeq(feed, k + 1, Len(feed))
  /\ UNCHANGED <<cdvars, calls, failures, exported, refused, accepted>>

(* The function exports a batch of spans. *)
Call(s) ==
  /\ Signals \subseteq up /\ "traces" \in Signals
  /\ Enter(s)
  /\ \E batch \in calls : ProcessTraces(s, batch) /\ calls' = calls \ {batch}
  /\ UNCHANGED <<rvars, feed, failures, exported, refused, accepted>>

(* The handler's steps outside ConsumeTraces. *)
Handler(h) ==
  /\ RecordEvent(h) \/ NoInitSpan(h) \/ TornRead(h) \/ ClearTimes(h) \/ ConsumeLogs(h)
  /\ UNCHANGED <<cdvars, ivars>>

(* The init span carries both times; it is named by the start. *)
SendInitSpan(h) ==
  /\ CreatePlatformInitSpan(h)
  /\ ProcessTraces(h, <<[kind |-> "init", of |-> startTime]>>)
  /\ UNCHANGED ivars

SpansIn(items) == {items[i].span : i \in 1..Len(items)}

(* The call of t ends in an error, or with its connection. *)
Fails(t) ==
  refused' = IF t \in Servers
             THEN refused \cup ((SpansIn(td[t]) \cup SpansIn(kept[t])) \cap Spans)
             ELSE refused

(* ConsumeTraces of the pipeline returns to its caller. *)
Return(t, ok) ==
  IF t \in Servers
  THEN UNCHANGED <<rvars, accepted>>
  ELSE /\ Consumed(t, ok)
       /\ accepted' = IF ok THEN accepted \cup {<<startTime, endTime>>} ELSE accepted

Process(t) ==
  /\ ProcessorStep(t)
  /\ IF step'[t] = "out" THEN Return(t, TRUE) ELSE UNCHANGED <<rvars, accepted>>
  /\ IF step'[t] = "panicked" THEN Fails(t) ELSE UNCHANGED refused
  /\ UNCHANGED <<feed, calls, failures, exported, overlapped>>

Export(t) ==
  /\ NextReturns(t) /\ Return(t, TRUE)
  /\ exported' = exported \o kept[t]
  /\ UNCHANGED <<feed, calls, failures, refused, overlapped>>

Refuse(t) ==
  /\ NextReturns(t) /\ Return(t, FALSE) /\ Fails(t)
  /\ failures < Failures /\ failures' = failures + 1
  /\ UNCHANGED <<feed, calls, exported, overlapped>>

Next ==
  \/ \E n \in Signals : Create(n) \/ Start(n) \/ Shutdown(n)
  \/ \E h \in Handlers : Post(h) \/ Handler(h) \/ SendInitSpan(h)
  \/ \E s \in Servers : Call(s)
  \/ \E t \in Threads : Process(t) \/ Export(t) \/ Refuse(t)

Spec == Init /\ [][Next]_vars
----------------------------------------------------------------------------
Quiet == Active = {}

SpansOf(batches) == UNION {ToSet(b) : b \in batches}
Sent == SpansOf(Calls) \ SpansOf(calls)
Copies(s) == Cardinality({i \in 1..Len(exported) : exported[i].span = s})

(* A linked span is a cold start span that has been put into another trace. *)
IsLinked(item) == item.span.kind \in ColdStarts /\ item.trace # item.span
Linked(i) == IsLinked(exported[i])

(* The end of the last init phase that was posted is not lost: a span with   *)
(* it was taken by the pipeline or it is still recorded, so that a refused   *)
(* span is made again at the next POST.                                      *)
Posted == ToSet(SubSeq(Feed, 1, Len(Feed) - Len(feed)))

InitSpanKept ==
  Quiet /\ ~overlapped /\ "traces" \in Signals =>
    \A e \in Posted :
      /\ e.type = "initRuntimeDone"
      /\ \A f \in Posted : f.type = "initRuntimeDone" => f.of <= e.of
      => endTime = e.of \/ \E a \in accepted : a[2] = e.of

(* The log records of a POST reach the logs pipeline, once, whatever becomes *)
(* of the init span, also when handlers overlap, unless the handler panics:  *)
(* the receiver that serves the port is the one the logs consumer was        *)
(* registered with.                                                          *)
LogsComplete ==
  "logs" \in Signals => \A h \in Handlers : at[h] = "idle" => logged[h] = posted[h]

(* A span of the function leaves the processor exactly once, in its own      *)
(* trace, unless it has faas.coldstart or its batch ended in an error.       *)
FunctionSpansPass ==
  Quiet => \A s \in Sent \ refused : s.kind # "marked" =>
    /\ Copies(s) = 1
    /\ \A i \in 1..Len(exported) : exported[i].span = s => exported[i].trace = s

(* A span of the function that has faas.coldstart leaves the processor at    *)
(* most once, and it is missing only while a cold start span is held, itself *)
(* or one that took its place, or when such a one has joined an execution or *)
(* was refused, if the goroutines do not overlap.                            *)
MarkedSpansPass ==
  Quiet /\ ~overlapped => \A s \in Sent \ refused : s.kind = "marked" =>
    \/ Copies(s) = 1
    \/ Copies(s) = 0 /\ (held # None \/ failures > 0 \/ \E i \in 1..Len(exported) : Linked(i))

(* One cold start span at most is put into the trace of an invocation, if    *)
(* the goroutines do not overlap.                                            *)
LinkedOnce ==
  ~overlapped => Cardinality({i \in 1..Len(exported) : Linked(i)}) <= 1

(* A cold start span and an execution are not both kept waiting for each     *)
(* other, if the goroutines do not overlap.                                  *)
NeverHoldsBoth == ~overlapped /\ ~reported => held = None \/ exec = None

(* Coldstart README: the init span is updated "to match the execution span": *)
(* once an init span and an execution have been through the processor, with  *)
(* no error and no overlap, a cold start span has joined the trace of one.   *)
InitSpanJoins ==
  /\ Quiet /\ ~overlapped /\ failures = 0 /\ accepted # {}
  /\ \E s \in Sent : s.kind = "execution"
  => \E i \in 1..Len(exported) : Linked(i) /\ exported[i].trace \in Sent

(* Coldstart README: "This allows the coldstart span to be part of the same  *)
(* trace as the operation that triggered the cold start", which is the first *)
(* invocation, if the goroutines do not overlap.                             *)
Executions == SelectSeq(exported, LAMBDA item : item.span.kind = "execution")

InitSpanJoinsTrigger ==
  ~overlapped =>
    \A i \in 1..Len(exported) : Linked(i) => exported[i].trace = Head(Executions).span
=============================================================================
