--------------------------- MODULE HandlerWrapper ---------------------------
(***************************************************************************)
(* The Node.js wrapper (src/nodejs/packages/cx-wrapper): it loads the      *)
(* user's module when the process starts and again for each invocation,    *)
(* and turns a handler that answers by callback, by a promise, by a value  *)
(* or by an exception into one promise, which Lambda's runtime awaits.     *)
(*                                                                         *)
(* Node runs one job at a time.  An action is a job, or the part of one    *)
(* up to where the user's code takes over: while the synchronous part of   *)
(* a handler runs (pc "inside") nothing but user code moves.  Node's       *)
(* module loader, its treatment of unhandled rejections, Lambda's runtime  *)
(* and the user's code are external; so is the arity of the patched        *)
(* handler, which a library decides.  A callback's result is no thenable.  *)
(***************************************************************************)
EXTENDS Naturals, Sequences, FiniteSets

CONSTANTS
  MaxInvocations, \* bound: invocations, over all processes
  MaxProcesses,   \* bound: processes, one after the other
  MaxCalls,       \* bound: calls of the callback per invocation
  Results,        \* what a handler succeeds with
  Errors,         \* what it fails with
  LoadError,      \* why load rejects
  Nothing,        \* no outcome yet
  Lost            \* the process ended before there was an answer

Invocations == 1..MaxInvocations
Outcomes == Results \cup Errors \cup {LoadError}

ASSUME HWAssumption ==
  /\ {MaxInvocations, MaxProcesses, MaxCalls} \subseteq Nat
  /\ Results \cap (Errors \cup {LoadError}) = {}
  /\ Nothing # Lost
  /\ {Nothing, Lost} \cap Outcomes = {}

VARIABLES
  format,     \* of the user's module: "cjs" is evaluated by require, "esm" by import()
  expects,    \* expectsCallback: patchedHandler.length >= 3
  processes,  \* how many processes were started
  alive,      \* is one running?
  module,     \* Node's module cache: "absent", "importing", "loaded" or "broken"
  initLoad,   \* the load at initialisation: "pending", "loaded" or "failed"
  warmup,     \* the warm-up export: "off", "exporting" or "over"
  unhandled,  \* is there a rejection that nobody handles?
  pc,         \* by invocation: where the wrapper's handler is
  settled,    \* by invocation: the flag of invokePatchedHandler
  promise,    \* by invocation: the promise of invokePatchedHandler
  user,       \* by invocation: the promise that the patched handler returned
  waits,      \* by invocation: context.callbackWaitsForEmptyEventLoop
  answer,     \* by invocation: what the runtime reports
  events      \* by invocation, history: what the load and the user's code did

process == <<processes, alive, module, initLoad, warmup, unhandled>>
wrapper == <<settled, promise>>
vars == <<format, expects, process, pc, wrapper, user, waits, answer, events>>

(* The four places of a user's promise: there is none, it is pending, it is *)
(* settled with an outcome, and the wrapper's reaction to that has run.      *)
UserPromises == {"none", "pending", "seen"} \cup Results \cup Errors

Event == [by : {"load", "callback", "throw", "return", "promise"}, outcome : Outcomes]

TypeOK ==
  /\ format \in {"cjs", "esm"} /\ expects \in BOOLEAN
  /\ processes \in 0..MaxProcesses /\ alive \in BOOLEAN
  /\ module \in {"absent", "importing", "loaded", "broken"}
  /\ initLoad \in {"pending", "loaded", "failed"}
  /\ warmup \in {"off", "exporting", "over"} /\ unhandled \in BOOLEAN
  /\ pc \in [Invocations -> {"none", "loading", "inside", "called", "rethrow", "answered", "failed", "gone"}]
  /\ settled \in [Invocations -> BOOLEAN]
  /\ promise \in [Invocations -> Results \cup Errors \cup {Nothing}]
  /\ user \in [Invocations -> UserPromises]
  /\ waits \in [Invocations -> BOOLEAN]
  /\ answer \in [Invocations -> Outcomes \cup {Nothing, Lost}]
  /\ events \in [Invocations -> Seq(Event)]

Init ==
  /\ format \in {"cjs", "esm"} /\ expects \in BOOLEAN
  /\ processes = 0 /\ alive = FALSE
  /\ module = "absent" /\ initLoad = "pending" /\ warmup = "off" /\ unhandled = FALSE
  /\ pc = [i \in Invocations |-> "none"]
  /\ settled = [i \in Invocations |-> FALSE]
  /\ promise = [i \in Invocations |-> Nothing]
  /\ user = [i \in Invocations |-> "none"]
  /\ waits = [i \in Invocations |-> TRUE]
  /\ answer = [i \in Invocations |-> Nothing]
  /\ events = [i \in Invocations |-> <<>>]

-----------------------------------------------------------------------------
(* Node, and the initialisation of the wrapper.                              *)

(* The invocation that the runtime is waiting for: at most one at a time. *)
InProgress(i) == pc[i] \in {"loading", "inside", "called", "rethrow"}

(* The job that runs, if any, is not inside the synchronous part of a handler. *)
Idle == alive /\ \A i \in Invocations : pc[i] # "inside"

(* loadUserModule: require evaluates a module at once and forgets it if that *)
(* fails, so the next load tries again; import() answers later and keeps a   *)
(* failure.  The check that the export is a function counts as part of it.   *)
LoadNow == IF module = "absent" THEN IF format = "cjs" THEN {"loaded", "absent"} ELSE {"importing"}
           ELSE {module}

(* The rejection of the async function around the first load reaches nobody: *)
(* the try block is left before it can happen.                               *)
InitLoadBecomes(m) ==
  /\ initLoad' = CASE m = "loaded" -> "loaded" [] m = "importing" -> "pending" [] OTHER -> "failed"
  /\ unhandled' = (initLoad' = "failed")

(* A process starts: the user's module is loaded and, unless the variable    *)
(* OTEL_WARM_UP_EXPORTER says no, a span is exported to warm up the exporter. *)
StartProcess ==
  /\ ~alive /\ processes < MaxProcesses
  /\ alive' = TRUE /\ processes' = processes + 1
  /\ \E m \in LoadNow : module' = m /\ InitLoadBecomes(m)
  /\ warmup' \in {"off", "exporting"}
  /\ UNCHANGED <<format, expects, pc, wrapper, user, waits, answer, events>>

(* import() ends: the load at initialisation continues, and the load of an *)
(* invocation that waits for the same module can (LoadEnds).               *)
ImportEnds ==
  /\ Idle /\ module = "importing"
  /\ \E m \in {"loaded", "broken"} : module' = m /\ InitLoadBecomes(m)
  /\ UNCHANGED <<format, expects, processes, alive, warmup, pc, wrapper, user, waits, answer, events>>

(* The warm-up export is over, at any time up to a later invocation (Lambda  *)
(* may freeze the process in between); it may have failed, which is caught.  *)
WarmUpEnds ==
  /\ Idle /\ warmup = "exporting"
  /\ warmup' = "over"
  /\ UNCHANGED <<format, expects, processes, alive, module, initLoad, unhandled,
                 pc, wrapper, user, waits, answer, events>>

(* The process ends; what was in progress is lost, and nothing of it moves again. *)
ProcessEnds ==
  /\ alive' = FALSE /\ module' = "absent" /\ initLoad' = "pending"
  /\ warmup' = "off" /\ unhandled' = FALSE
  /\ pc' = [i \in Invocations |-> IF pc[i] = "none" THEN "none" ELSE "gone"]
  /\ answer' = [i \in Invocations |-> IF InProgress(i) THEN Lost ELSE answer[i]]
  /\ UNCHANGED <<format, expects, processes, wrapper, user, waits, events>>

(* Node ends a process that leaves a rejection unhandled (unless it is told *)
(* not to, so the model does not insist).                                   *)
Exit == Idle /\ unhandled /\ ProcessEnds

(* Lambda ends the process because an invocation takes too long. *)
TimeOut == alive /\ (\E i \in Invocations : InProgress(i)) /\ ProcessEnds

-----------------------------------------------------------------------------
(* handler: loads the module, patches the handler, awaits invokePatchedHandler *)

(* Something happens for invocation i; the history remembers it. *)
Happens(i, by, o) == events' = [events EXCEPT ![i] = Append(@, [by |-> by, outcome |-> o])]

(* The runtime asks for the next invocation once it has reported the last.   *)
(* The load that handler begins with is awaited: a require happens here,     *)
(* what it means for the invocation in LoadEnds.                             *)
Invoke(i) ==
  /\ Idle /\ pc[i] = "none"
  /\ \A j \in Invocations : ~InProgress(j) /\ (j < i => pc[j] # "none")
  /\ module' \in LoadNow
  /\ pc' = [pc EXCEPT ![i] = "loading"]
  /\ UNCHANGED <<format, expects, processes, alive, initLoad, warmup, unhandled,
                 wrapper, user, waits, answer, events>>

(* The awaited load is there and the patched handler is called, or the load *)
(* has failed and handler goes to its catch block.                          *)
LoadEnds(i) ==
  /\ Idle /\ pc[i] = "loading" /\ module # "importing"
  /\ \/ /\ module = "loaded"
        /\ pc' = [pc EXCEPT ![i] = "inside"]
        /\ UNCHANGED events
     \/ /\ module \in {"absent", "broken"}
        /\ pc' = [pc EXCEPT ![i] = "rethrow"]
        /\ Happens(i, "load", LoadError)
  /\ UNCHANGED <<format, expects, process, wrapper, user, waits, answer>>

AnswerAnyOutcome(i) ==  \* mutant: the promise is not awaited, the first settled one answers
  /\ Idle
  /\ \/ /\ pc[i] = "rethrow"
        /\ answer' = [answer EXCEPT ![i] = LoadError]
     \/ /\ pc[i] = "called" /\ \E j \in Invocations : promise[j] # Nothing
        /\ answer' = [answer EXCEPT ![i] = promise[CHOOSE j \in Invocations : promise[j] # Nothing]]
  /\ pc' = [pc EXCEPT ![i] = IF @ = "rethrow" THEN "failed" ELSE "answered"]
  /\ waits' = [waits EXCEPT ![i] = @ /\ answer'[i] \in Results]
  /\ UNCHANGED <<format, expects, process, wrapper, user, events>>

AnswerUsersPromise(i) ==  \* mutant: hands on what the patched handler returned
  /\ Idle /\ pc[i] = "called"
  /\ answer' = [answer EXCEPT ![i] = user[i]]
  /\ pc' = [pc EXCEPT ![i] = "answered"]
  /\ UNCHANGED <<format, expects, process, wrapper, user, waits, events>>

(* handler returns or throws what invokePatchedHandler came to, or throws  *)
(* what load did; its catch block has the runtime wait for nothing more.   *)
(* Of an invocation that failed to load no user code can come back.        *)
Answer(i) ==
  /\ Idle
  /\ \/ /\ pc[i] = "rethrow"
        /\ answer' = [answer EXCEPT ![i] = LoadError]
     \/ /\ pc[i] = "called" /\ promise[i] # Nothing
        /\ answer' = [answer EXCEPT ![i] = promise[i]]
  /\ pc' = [pc EXCEPT ![i] = IF @ = "rethrow" THEN "failed" ELSE "answered"]
  /\ waits' = [waits EXCEPT ![i] = @ /\ answer'[i] \in Results]
  /\ UNCHANGED <<format, expects, process, wrapper, user, events>>

-----------------------------------------------------------------------------
(* invokePatchedHandler *)

(* resolve and reject of a promise: only the first call counts. *)
Fulfil(i, o) == promise' = [promise EXCEPT ![i] = IF @ = Nothing THEN o ELSE @]

(* settled = true, then resolve or reject. *)
Settle(i, o) == settled' = [settled EXCEPT ![i] = TRUE] /\ Fulfil(i, o)

SettleUnlessSettled(i, o) == IF settled[i] THEN UNCHANGED wrapper ELSE Settle(i, o)

Calls(i) == Cardinality({k \in DOMAIN events[i] : events[i][k].by = "callback"})

WrappedCallbackLatest(i, o) ==  \* mutant: the wrapper has one callback, of the latest invocation
  /\ alive /\ pc[i] \in {"inside", "called", "answered"} /\ Calls(i) < MaxCalls
  /\ Happens(i, "callback", o)
  /\ SettleUnlessSettled(CHOOSE j \in Invocations : /\ pc[j] # "none"
                                                    /\ \A k \in Invocations : k > j => pc[k] = "none", o)
  /\ UNCHANGED <<format, expects, process, pc, user, waits, answer>>

(* The user's code calls wrappedCallback: inside the handler, in a job of   *)
(* its own, or from the synchronous part of a later invocation; once, never *)
(* or repeatedly; also after the invocation was answered.                   *)
WrappedCallback(i, o) ==
  /\ alive /\ pc[i] \in {"inside", "called", "answered"} /\ Calls(i) < MaxCalls
  /\ Happens(i, "callback", o)
  /\ SettleUnlessSettled(i, o)
  /\ UNCHANGED <<format, expects, process, pc, user, waits, answer>>

HandlerReturned(i) ==
  /\ alive /\ pc[i] = "inside"
  /\ pc' = [pc EXCEPT ![i] = "called"]
  /\ UNCHANGED <<format, expects, process, waits, answer>>

HandlerThrows(i, e) ==
  /\ HandlerReturned(i)
  /\ Happens(i, "throw", e)
  /\ SettleUnlessSettled(i, e)
  /\ UNCHANGED user

(* What comes back is not a promise: without a callback it is the result. *)
HandlerReturnsValueAlways(i, o) ==  \* mutant: whatever the handler expects
  /\ HandlerReturned(i)
  /\ Happens(i, "return", o)
  /\ Settle(i, o)
  /\ UNCHANGED user

HandlerReturnsValue(i, o) ==
  /\ HandlerReturned(i)
  /\ Happens(i, "return", o)
  /\ IF expects THEN UNCHANGED wrapper ELSE Settle(i, o)
  /\ UNCHANGED user

HandlerReturnsPromise(i) ==
  /\ HandlerReturned(i)
  /\ user' = [user EXCEPT ![i] = "pending"]
  /\ UNCHANGED <<wrapper, events>>

(* The promise that the handler returned settles, by the user's code. *)
UserSettles(i, o) ==
  /\ alive /\ pc[i] \in {"called", "answered"} /\ user[i] = "pending"
  /\ user' = [user EXCEPT ![i] = o]
  /\ UNCHANGED <<format, expects, process, pc, wrapper, waits, answer, events>>

(* The reactions that invokePatchedHandler has put on that promise. *)
Reacts(i) ==
  /\ Idle /\ pc[i] \in {"called", "answered"} /\ user[i] \in Results \cup Errors
  /\ user' = [user EXCEPT ![i] = "seen"]
  /\ Happens(i, "promise", user[i])
  /\ UNCHANGED <<format, expects, process, pc, waits, answer>>

ReactionFulfilled(i) ==
  /\ Reacts(i) /\ user[i] \in Results
  /\ IF expects THEN UNCHANGED wrapper ELSE SettleUnlessSettled(i, user[i])

ReactionRejectedIfAwaited(i) ==  \* mutant: with a callback only the callback is listened to
  /\ Reacts(i) /\ user[i] \in Errors
  /\ IF expects THEN UNCHANGED wrapper ELSE SettleUnlessSettled(i, user[i])

ReactionRejected(i) ==
  /\ Reacts(i) /\ user[i] \in Errors
  /\ SettleUnlessSettled(i, user[i])

-----------------------------------------------------------------------------
NodeStep == StartProcess \/ ImportEnds \/ WarmUpEnds \/ Exit \/ TimeOut

WrapperStep(i) == LoadEnds(i) \/ ReactionFulfilled(i) \/ ReactionRejected(i) \/ Answer(i)

HandlerEnds(i) ==
  \/ \E e \in Errors : HandlerThrows(i, e)
  \/ \E o \in Results : HandlerReturnsValue(i, o)
  \/ HandlerReturnsPromise(i)

UserStep(i) ==
  \/ HandlerEnds(i)
  \/ \E o \in Results \cup Errors : WrappedCallback(i, o) \/ UserSettles(i, o)

Next ==
  \/ NodeStep
  \/ \E i \in Invocations : Invoke(i) \/ WrapperStep(i) \/ UserStep(i)

Safety == Init /\ [][Next]_vars

(* Node runs every job that is due.  An import ends, the synchronous part of  *)
(* a handler ends and the promise it returned settles: otherwise Lambda ends  *)
(* the process, which is no answer either.  Nobody has to call the callback.  *)
Fairness ==
  /\ WF_vars(ImportEnds)
  /\ \A i \in Invocations :
       /\ WF_vars(WrapperStep(i))
       /\ WF_vars(HandlerEnds(i))
       /\ WF_vars(\E o \in Results \cup Errors : UserSettles(i, o))

Spec == Safety /\ Fairness

-----------------------------------------------------------------------------
(* Correctness *)

(* What decides an invocation: of a handler that takes a callback, success   *)
(* is the callback's to report ("should only resolve via that callback",     *)
(* index.ts:62); a failure counts from anywhere.                             *)
Decisive(event) == expects /\ event.outcome \in Results => event.by = "callback"

(* An invocation is answered with its own first decisive event, however many *)
(* come later or from elsewhere: repeated callbacks, a promise that settles   *)
(* after the callback, an exception after it, a callback of an earlier        *)
(* invocation that comes during a later one (index.ts:66-110).                *)
FirstWordCounts ==
  \A i \in Invocations : answer[i] \in Outcomes =>
    \E k \in DOMAIN events[i] :
      /\ Decisive(events[i][k]) /\ events[i][k].outcome = answer[i]
      /\ \A j \in 1..(k - 1) : ~Decisive(events[i][j])

(* The flag and the promise never disagree, so that the flag alone tells     *)
(* whether an outcome is still wanted, and a settled invocation always has    *)
(* one (index.ts:67-108: five places set the one and fulfil the other).       *)
SettledMeansDecided ==
  \A i \in Invocations :
    /\ settled[i] <=> promise[i] # Nothing
    /\ settled[i] <=> \E k \in DOMAIN events[i] :
         events[i][k].by # "load" /\ Decisive(events[i][k])

(* Each invocation is answered once, with something that its own handler     *)
(* offered, or lost with its process.                                        *)
Offered(i) == {events[i][k].outcome : k \in {k \in DOMAIN events[i] : Decisive(events[i][k])}}
Once == INSTANCE AnswerOnce WITH offered <- [i \in Invocations |-> Offered(i)]
IsAnswerOnce == Once!Spec

(* A handler that takes a callback has come back without an exception, its  *)
(* promise (if any) was fulfilled, and the callback has not been called.     *)
AwaitsCallback(i) ==
  /\ expects /\ pc[i] = "called" /\ user[i] \in {"none", "seen"}
  /\ ~\E k \in DOMAIN events[i] : Decisive(events[i][k])

(* An invocation that began is answered, unless the process ends first or    *)
(* its handler takes a callback and has not called it: no other way to hang  *)
(* (index.ts:64, 86-103).                                                    *)
HangsOnlyForCallback ==
  \A i \in Invocations : InProgress(i) ~>
    pc[i] \in {"answered", "failed", "gone"} \/ AwaitsCallback(i)
=============================================================================
