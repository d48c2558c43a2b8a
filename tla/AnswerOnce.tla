----------------------------- MODULE AnswerOnce -----------------------------
(***************************************************************************)
(* What a wrapper around a function promises to whoever invokes it: each   *)
(* invocation is answered at most once, with an outcome that the function  *)
(* has offered for this very invocation, or it is lost with its process.   *)
(***************************************************************************)
CONSTANTS
  Invocations,
  Outcomes,    \* what a function may come to
  Nothing,     \* not answered so far
  Lost         \* will never be answered

VARIABLES
  offered,     \* by invocation, the outcomes that the function stands by
  answer       \* by invocation, what the invoker got

vars == <<offered, answer>>

Init ==
  /\ offered = [i \in Invocations |-> {}]
  /\ answer = [i \in Invocations |-> Nothing]

(* The function may go on offering after it was answered for. *)
Offer(i, o) ==
  /\ offered' = [offered EXCEPT ![i] = @ \cup {o}]
  /\ UNCHANGED answer

Answer(i, o) ==
  /\ answer[i] = Nothing
  /\ o \in offered[i]
  /\ answer' = [answer EXCEPT ![i] = o]
  /\ UNCHANGED offered

Lose(i) ==
  /\ answer[i] = Nothing
  /\ answer' = [answer EXCEPT ![i] = Lost]
  /\ UNCHANGED offered

Next ==
  \E i \in Invocations :
    \/ \E o \in Outcomes : Offer(i, o) \/ Answer(i, o)
    \/ Lose(i)

Spec == Init /\ [][Next]_vars
=============================================================================
