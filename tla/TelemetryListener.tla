------------------------- MODULE TelemetryListener -------------------------
(***************************************************************************)
(* The extension's own Telemetry API listener (collector/internal/         *)
(* telemetryapi/listener.go): an HTTP server whose handlers put platform   *)
(* events into an unbounded queue, and Wait, with which the manager takes  *)
(* them out until it meets the platform.runtimeDone of one request.  A     *)
(* runtimeDone is represented by the id of its request, every other        *)
(* platform event by NoRequest.                                            *)
(***************************************************************************)
EXTENDS Integers, Sequences, SequencesExt

CONSTANTS Requests,   \* request ids
          Handlers,   \* HTTP handler goroutines that can be active at once
          MaxGet,     \* how many events one queue.Get may return (10 in the code)
          NoRequest

Events == Requests \cup {NoRequest}

(* Who may call Shutdown: the manager, and the goroutine of a failed server. *)
Closers == {"manager", "server"}

ASSUME MaxGetAssumption == MaxGet \in Nat \ {0}
ASSUME NoRequestAssumption == NoRequest \notin Requests

VARIABLES
  serving,   \* does the HTTP server accept requests?
  tqueue,    \* s.queue
  post,      \* the events each handler still has to put into the queue
  wait,      \* Wait is not called ("out"), at its select ("poll") or in queue.Get ("get")
  waitFor,   \* the request Wait was called for
  httpServer,\* s.httpServer # nil
  closer,    \* where each caller of Shutdown is in it
  together   \* history: have two callers been in Shutdown at once?

svars == <<httpServer, closer, together>>
tvars == <<serving, tqueue, post, wait, waitFor, svars>>

TTypeOK ==
  /\ serving \in BOOLEAN
  /\ tqueue \in Seq(Events)
  /\ post \in [Handlers -> Seq(Events)]
  /\ wait \in {"out", "poll", "get"}
  /\ waitFor \in Events
  /\ httpServer \in BOOLEAN /\ together \in BOOLEAN
  /\ closer \in [Closers -> {"out", "checked", "closing"}]

TInit ==
  /\ serving = FALSE
  /\ tqueue = <<>>
  /\ post = [h \in Handlers |-> <<>>]
  /\ wait = "out"
  /\ waitFor = NoRequest
  /\ httpServer = FALSE /\ together = FALSE
  /\ closer = [c \in Closers |-> "out"]

----------------------------------------------------------------------------
(* Start: the server is served by a goroutine of its own; it reports success *)
(* whether or not the address can be bound.                                  *)
ListenerStart ==
  /\ serving' = TRUE /\ httpServer' = TRUE
  /\ UNCHANGED <<tqueue, post, wait, waitFor, closer, together>>

ShutdownCallUnchecked(c) ==  \* mutant: s.httpServer is not compared with nil
  /\ closer[c] = "out"
  /\ closer' = [closer EXCEPT ![c] = "checked"]
  /\ together' = (together \/ \E d \in Closers \ {c} : closer[d] # "out")
  /\ UNCHANGED httpServer

(* Shutdown is called; there is nothing to do if s.httpServer is nil. *)
ShutdownCall(c) ==
  /\ closer[c] = "out"
  /\ closer' = [closer EXCEPT ![c] = IF httpServer THEN "checked" ELSE "out"]
  /\ together' = (together \/ \E d \in Closers \ {c} : closer[d] # "out")
  /\ UNCHANGED httpServer

(* ListenAndServe returns with an error: the goroutine calls Shutdown, and   *)
(* nothing else learns of it.                                                *)
ServerFails ==
  /\ serving
  /\ serving' = FALSE /\ ShutdownCall("server")
  /\ UNCHANGED <<tqueue, post, wait, waitFor>>

(* The manager calls Shutdown. *)
ListenerShutdown ==
  /\ ShutdownCall("manager")
  /\ UNCHANGED <<serving, tqueue, post, wait, waitFor>>

(* s.httpServer, read again, is asked to shut down: no new request is        *)
(* accepted from now on.                                                     *)
Closes(c) ==
  /\ closer[c] = "checked" /\ httpServer
  /\ serving' = FALSE
  /\ closer' = [closer EXCEPT ![c] = "closing"]
  /\ UNCHANGED <<tqueue, post, wait, waitFor, httpServer, together>>

(* It was set to nil in between: http.Server.Shutdown panics. *)
ClosesNil(c) == closer[c] = "checked" /\ ~httpServer /\ UNCHANGED tvars

(* Active handlers are waited for, for one second at most; the server is     *)
(* forgotten if they are done.  What they still put is not read any more.    *)
Closed(c) ==
  /\ closer[c] = "closing"
  /\ httpServer' \in IF \A h \in Handlers : post[h] = <<>> THEN {FALSE} ELSE {FALSE, httpServer}
  /\ closer' = [closer EXCEPT ![c] = "out"]
  /\ UNCHANGED <<serving, tqueue, post, wait, waitFor, together>>

ShutdownStep(c) == Closes(c) \/ Closed(c)

(* httpHandler: a POST arrives with a batch of events ... *)
HandlePost(h, batch) ==
  /\ serving /\ post[h] = <<>>
  /\ post' = [post EXCEPT ![h] = batch]
  /\ UNCHANGED <<serving, tqueue, wait, waitFor, svars>>

(* ... and its events are put into the queue one by one. *)
HandlerPut(h) ==
  /\ post[h] # <<>>
  /\ tqueue' = Append(tqueue, Head(post[h]))
  /\ post' = [post EXCEPT ![h] = Tail(@)]
  /\ UNCHANGED <<serving, wait, waitFor, svars>>

(* Wait is called. *)
WaitCall(r) ==
  /\ wait = "out"
  /\ wait' = "poll" /\ waitFor' = r
  /\ UNCHANGED <<serving, tqueue, post, svars>>

(* The select at the top of the loop: only here is the context looked at. *)
WaitPoll(cancelled) ==
  /\ wait = "poll"
  /\ wait' = IF cancelled THEN "out" ELSE "get"
  /\ UNCHANGED <<serving, tqueue, post, waitFor, svars>>

WaitGetWith(Found(_)) ==
  /\ wait = "get" /\ tqueue # <<>>
  /\ LET n == Min({MaxGet, Len(tqueue)})
     IN /\ tqueue' = SubSeq(tqueue, n + 1, Len(tqueue))
        /\ wait' = IF Found(SubSeq(tqueue, 1, n)) THEN "out" ELSE "poll"
  /\ UNCHANGED <<serving, post, waitFor, svars>>

(* Mutants: any event ends the wait; any runtimeDone does; only the first of *)
(* the events is looked at.                                                  *)
WaitGetAny == WaitGetWith(LAMBDA items : TRUE)
WaitGetAnyDone == WaitGetWith(LAMBDA items : ToSet(items) \cap Requests # {})
WaitGetFirst == WaitGetWith(LAMBDA items : Head(items) = waitFor)

(* queue.Get blocks until the queue is not empty and takes at most MaxGet    *)
(* events; Wait returns when one of them is the runtimeDone it looks for and *)
(* forgets the others.                                                       *)
WaitGet == WaitGetWith(LAMBDA items : waitFor \in ToSet(items))
=============================================================================
