-------------------------- MODULE CollectorWrapper --------------------------
(***************************************************************************)
(* The collector inside the extension (collector/internal/collector/       *)
(* collector.go): Start runs the otelcol service in a goroutine of its own *)
(* and polls its state, while that goroutine may report an error through a *)
(* variable that both share without a lock; Stop waits for the goroutine.  *)
(* The service itself is external.  Who calls what when is left open.      *)
(***************************************************************************)

VARIABLES
  col,     \* what c.svc.GetState() returns, or "none" before there is a service
  done,    \* is the channel c.appDone closed?
  failed,  \* err # nil, the variable err of Start
  polled   \* the state that the loop of Start has just read, or "none"

wvars == <<col, done, failed, polled>>

States == {"starting", "running", "closing", "closed"}

WTypeOK ==
  /\ col \in States \cup {"none"} /\ polled \in States \cup {"none"}
  /\ done \in BOOLEAN /\ failed \in BOOLEAN

WInit == col = "none" /\ done = FALSE /\ failed = FALSE /\ polled = "none"

(* The service changes its state. *)
ServiceBecomes(state) == col' = state /\ UNCHANGED <<done, failed, polled>>

(* svc.Run has returned: its goroutine reports an error, if there is one, and *)
(* closes appDone.  The report is a racy write of two words of which Start    *)
(* may see one; either tells it that err is not nil.  When Start has returned *)
(* (heard is FALSE) nobody looks at err any more.                             *)
ServiceReturns(heard) ==
  /\ col = "closed" /\ ~done
  /\ done' = TRUE
  /\ failed' \in IF heard THEN {failed, TRUE} ELSE {failed}
  /\ UNCHANGED <<col, polled>>

(* The loop of Start: the state is read, and only then the error. *)
PollState ==
  /\ polled = "none"
  /\ polled' = col
  /\ UNCHANGED <<col, done, failed>>

PollAgain ==
  /\ ~failed /\ polled \in States \ {"running"}
  /\ failed' = (polled # "starting")   \* "unable to start": returned at the next turn
  /\ polled' = "none"
  /\ UNCHANGED <<col, done>>

StartSucceeds ==
  /\ ~failed /\ polled = "running"
  /\ polled' = "none"
  /\ UNCHANGED <<col, done, failed>>

StartFails ==
  /\ failed /\ polled # "none"
  /\ polled' = "none"
  /\ UNCHANGED <<col, done, failed>>

(* Stop, first half: svc.Shutdown does something only while the service runs. *)
StopCall == ServiceBecomes(IF col = "running" THEN "closing" ELSE col)

StopDoesNotAwait ==  \* mutant: Stop does not wait for appDone
  UNCHANGED wvars

(* Stop, second half: <-appDone. *)
StopReturned == done /\ UNCHANGED wvars
=============================================================================
