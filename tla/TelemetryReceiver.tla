------------------------- MODULE TelemetryReceiver -------------------------
(***************************************************************************)
(* The telemetryapi receiver (collector/receiver/telemetryapireceiver).    *)
(* One receiver serves the traces and the logs pipelines of a              *)
(* configuration (factory.go and internal/sharedcomponent).  Its HTTP      *)
(* handlers turn a pair of platform.initStart and                          *)
(* platform.initRuntimeDone into an init span and function and extension   *)
(* events into log records (receiver.go).  Handlers run at the same time   *)
(* and share the two times without a lock.                                 *)
(***************************************************************************)
EXTENDS Integers, Sequences, SequencesExt

CONSTANTS Handlers,   \* the goroutines that handle POSTs
          Signals,    \* the pipelines that use the receiver: "traces", "logs"
          Unparsable  \* the init phases whose times are not in RFC 3339

ASSUME SignalsAssumption == Signals \subseteq {"traces", "logs"}

(* Every platform event carries the number of the init phase it belongs to.  *)
(* A log record is "bad" if its timestamp cannot be parsed.                  *)
Events == [type : {"initStart", "initRuntimeDone", "log", "bad"}, of : Nat]

Instances == 1..2   \* at most one receiver for each signal

VARIABLES
  shared,     \* receivers.comps: the receiver of the configuration, 0 if there is none
  inst,       \* the receiver of each signal, 0 if it is not created
  next,       \* the consumers registered with each receiver
  up,         \* the signals whose receiver the collector has started
  startFailed,  \* has a Start returned an error?
  server,     \* the receiver whose HTTP server has got the port, 0 if none
  startTime,  \* r.lastPlatformStartTime: the number of an init phase, 0 for ""
  endTime,    \* r.lastPlatformEndTime
  at,         \* where each handler is in httpHandler
  logs,       \* the number of log records that the events of its POST make
  left,       \* the events of its POST that the first loop has not looked at
  logged,     \* history: the log records each handler has handed to nextLogs
  posted      \* history: those of the POSTs it got, none for one with a bad event

rvars == <<shared, inst, next, up, startFailed, server, startTime, endTime, at, logs, left,
           logged, posted>>

RTypeOK ==
  /\ shared \in Instances \cup {0}
  /\ inst \in [Signals -> Instances \cup {0}]
  /\ next \in [Instances -> SUBSET Signals]
  /\ up \subseteq Signals /\ startFailed \in BOOLEAN /\ server \in Instances \cup {0}
  /\ startTime \in Nat /\ endTime \in Nat
  /\ at \in [Handlers -> {"idle", "record", "consume", "clear", "logs", "panicked"}]
  /\ logs \in [Handlers -> Nat] /\ left \in [Handlers -> Seq(Events)]
  /\ logged \in [Handlers -> Nat] /\ posted \in [Handlers -> Nat]

RInit ==
  /\ shared = 0 /\ inst = [n \in Signals |-> 0] /\ next = [i \in Instances |-> {}]
  /\ up = {} /\ startFailed = FALSE /\ server = 0
  /\ startTime = 0 /\ endTime = 0
  /\ at = [h \in Handlers |-> "idle"]
  /\ logs = [h \in Handlers |-> 0] /\ left = [h \in Handlers |-> <<>>]
  /\ logged = [h \in Handlers |-> 0] /\ posted = [h \in Handlers |-> 0]

Fresh == CHOOSE i \in Instances : \A n \in Signals : inst[n] # i

GetOrAddAlways == Fresh   \* mutant: the map is not looked at

(* SharedComponents.GetOrAdd *)
GetOrAdd == IF shared # 0 THEN shared ELSE Fresh

(* createTracesReceiver and createLogsReceiver *)
CreateReceiver(n) ==
  /\ inst[n] = 0
  /\ shared' = GetOrAdd
  /\ inst' = [inst EXCEPT ![n] = GetOrAdd]
  /\ next' = [next EXCEPT ![GetOrAdd] = @ \cup {n}]
  /\ UNCHANGED <<up, startFailed, server, startTime, endTime, at, logs, left,
                 logged, posted>>

(* SharedComponent.Start: the first call starts the server and subscribes it; *)
(* a second server would not get the port, which nobody would notice.  When   *)
(* Subscribe fails an error is returned, with which the collector does not    *)
(* start, but the server is there.                                            *)
StartReceiver(n, ok) ==
  /\ (\A m \in Signals : inst[m] # 0) /\ ~startFailed /\ n \notin up
  /\ ok \/ \A m \in up : inst[m] # inst[n]
  /\ up' = IF ok THEN up \cup {n} ELSE up
  /\ startFailed' = ~ok
  /\ server' = IF server = 0 THEN inst[n] ELSE server
  /\ UNCHANGED <<shared, inst, next, startTime, endTime, at, logs, left, logged, posted>>

(* SharedComponent.Shutdown: the receiver is forgotten; its server runs on. *)
ShutdownReceiver(n) ==
  /\ Signals \subseteq up \/ startFailed
  /\ shared = inst[n]
  /\ shared' = 0
  /\ UNCHANGED <<inst, next, up, startFailed, server, startTime, endTime, at, logs, left,
                 logged, posted>>

----------------------------------------------------------------------------
(* httpHandler *)

GotoHandler(h, l) == at' = [at EXCEPT ![h] = l]

(* createLogs: a record for every function and extension event, or an error  *)
(* and no record at all when one of them cannot be converted.                *)
CreateLogs(events) ==
  IF \E e \in ToSet(events) : e.type = "bad" THEN 0
  ELSE Cardinality({i \in 1..Len(events) : events[i].type = "log"})

(* A POST is read and decoded. *)
HandlePost(h, events) ==
  /\ server # 0 /\ at[h] = "idle" /\ GotoHandler(h, "record")
  /\ logs' = [logs EXCEPT ![h] = CreateLogs(events)]
  /\ left' = [left EXCEPT ![h] = events]
  /\ posted' = [posted EXCEPT ![h] = @ + CreateLogs(events)]
  /\ UNCHANGED <<shared, inst, next, up, startFailed, server, startTime, endTime, logged>>

(* The first loop: the times are recorded, other events passed over. *)
RecordEvent(h) ==
  /\ at[h] = "record" /\ left[h] # <<>>
  /\ LET e == Head(left[h])
     IN /\ startTime' = IF e.type = "initStart" THEN e.of ELSE startTime
        /\ endTime' = IF e.type = "initRuntimeDone" THEN e.of ELSE endTime
  /\ left' = [left EXCEPT ![h] = Tail(@)]
  /\ UNCHANGED <<shared, inst, next, up, startFailed, server, at, logs, logged, posted>>

(* An init span is made for the traces pipeline when both times are there    *)
(* and can be parsed.  Times that cannot stay where they are.                *)
Recorded(h) == at[h] = "record" /\ left[h] = <<>>
InitSpanDue ==
  /\ startTime # 0 /\ endTime # 0 /\ {startTime, endTime} \cap Unparsable = {}
  /\ "traces" \in next[server]

CreatePlatformInitSpan(h) ==
  /\ Recorded(h) /\ InitSpanDue /\ GotoHandler(h, "consume")
  /\ UNCHANGED <<shared, inst, next, up, startFailed, server, startTime, endTime, logs, left,
                 logged, posted>>

NoInitSpan(h) ==
  /\ Recorded(h) /\ ~InitSpanDue /\ GotoHandler(h, "logs")
  /\ UNCHANGED <<shared, inst, next, up, startFailed, server, startTime, endTime, logs, left,
                 logged, posted>>

(* A string is written, from or to "", while it is read: its two words may   *)
(* not belong together, and the reader panics.  net/http recovers it.  The   *)
(* first loop reads the time that it replaces, to log it.                    *)
LooksAt(h, type) == at[h] = "record" /\ left[h] # <<>> /\ Head(left[h]).type = type

StartTears(h) == \E g \in Handlers \ {h} :
  IF startTime = 0 THEN LooksAt(g, "initStart") ELSE at[g] = "clear"

EndTears(h) == \E g \in Handlers \ {h} :
  IF endTime = 0 THEN LooksAt(g, "initRuntimeDone") ELSE at[g] = "clear"

TornRead(h) ==
  /\ \/ LooksAt(h, "initStart") /\ StartTears(h)
     \/ LooksAt(h, "initRuntimeDone") /\ EndTears(h)
     \/ /\ Recorded(h) /\ (StartTears(h) \/ EndTears(h))
        /\ (startTime # 0 \/ StartTears(h)) /\ (endTime # 0 \/ EndTears(h))
  /\ GotoHandler(h, "panicked")
  /\ UNCHANGED <<shared, inst, next, up, startFailed, server, startTime, endTime, logs, left,
                 logged, posted>>

ConsumedOrNot(h, ok) ==  \* mutant: the times are cleared although the span was refused
  /\ at[h] = "consume" /\ ok \in BOOLEAN /\ GotoHandler(h, "clear")
  /\ UNCHANGED <<shared, inst, next, up, startFailed, server, startTime, endTime, logs, left,
                 logged, posted>>

(* nextTraces.ConsumeTraces returns; an error is logged, and since the times *)
(* are kept the next POST makes another span.                                *)
Consumed(h, ok) ==
  /\ at[h] = "consume" /\ GotoHandler(h, IF ok THEN "clear" ELSE "logs")
  /\ UNCHANGED <<shared, inst, next, up, startFailed, server, startTime, endTime, logs, left,
                 logged, posted>>

ClearTimes(h) ==
  /\ at[h] = "clear" /\ GotoHandler(h, "logs")
  /\ startTime' = 0 /\ endTime' = 0
  /\ UNCHANGED <<shared, inst, next, up, startFailed, server, logs, left, logged, posted>>

(* The records, if there are any, go to nextLogs.ConsumeLogs, whose error is *)
(* only logged.                                                              *)
ConsumeLogs(h) ==
  /\ at[h] = "logs" /\ GotoHandler(h, "idle")
  /\ logged' = IF "logs" \in next[server] THEN [logged EXCEPT ![h] = @ + logs[h]] ELSE logged
  /\ logs' = [logs EXCEPT ![h] = 0]
  /\ UNCHANGED <<shared, inst, next, up, startFailed, server, startTime, endTime, left, posted>>
=============================================================================
