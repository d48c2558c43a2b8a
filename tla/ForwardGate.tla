---------------------------- MODULE ForwardGate ----------------------------
(***************************************************************************)
(* What a decouple processor promises, with no channel, no goroutine and   *)
(* no WaitGroup: a gate between a pipeline and its exporters.  Payloads    *)
(* are accepted at any time.  They are delivered in the order they were    *)
(* accepted, each once, and only while the gate is not closed.  A gate     *)
(* that is asked to close becomes closed only when everything accepted     *)
(* before the request has been delivered and no delivery is under way, and *)
(* it does become closed.                                                  *)
(***************************************************************************)
EXTENDS Integers, Sequences

CONSTANTS Processors, Data

VARIABLES accepted, delivered, busy, gate, due

gvars == <<accepted, delivered, busy, gate, due>>

GInit ==
  /\ accepted = [p \in Processors |-> <<>>]
  /\ delivered = [p \in Processors |-> <<>>]
  /\ busy = [p \in Processors |-> {}]
  /\ gate = [p \in Processors |-> "closed"]
  /\ due = [p \in Processors |-> 0]

Accept(p, d) ==
  /\ \A i \in 1..Len(accepted[p]) : accepted[p][i] # d
  /\ accepted' = [accepted EXCEPT ![p] = Append(@, d)]
  /\ UNCHANGED <<delivered, busy, gate, due>>

Deliver(p) ==
  /\ gate[p] # "closed" /\ Len(delivered[p]) < Len(accepted[p])
  /\ LET next == accepted[p][Len(delivered[p]) + 1]
     IN /\ delivered' = [delivered EXCEPT ![p] = Append(@, next)]
        /\ busy' = [busy EXCEPT ![p] = @ \cup {next}]
  /\ UNCHANGED <<accepted, gate, due>>

Delivered(p, d) ==
  /\ d \in busy[p]
  /\ busy' = [busy EXCEPT ![p] = @ \ {d}]
  /\ UNCHANGED <<accepted, delivered, gate, due>>

Open(p) ==
  /\ gate[p] = "closed"
  /\ gate' = [gate EXCEPT ![p] = "open"]
  /\ UNCHANGED <<accepted, delivered, busy, due>>

Close(p) ==
  /\ gate[p] = "open"
  /\ gate' = [gate EXCEPT ![p] = "closing"]
  /\ due' = [due EXCEPT ![p] = Len(accepted[p])]
  /\ UNCHANGED <<accepted, delivered, busy>>

Closed(p) ==
  /\ gate[p] = "closing" /\ busy[p] = {} /\ due[p] <= Len(delivered[p])
  /\ gate' = [gate EXCEPT ![p] = "closed"]
  /\ UNCHANGED <<accepted, delivered, busy, due>>

GNext == \E p \in Processors :
  \/ \E d \in Data : Accept(p, d) \/ Delivered(p, d)
  \/ Deliver(p) \/ Open(p) \/ Close(p) \/ Closed(p)

GSafe == GInit /\ [][GNext]_gvars

(* The promise of progress: a gate that is asked to close does close. *)
GLive == \A p \in Processors : (gate[p] = "closing") ~> (gate[p] = "closed")

GSpec == GSafe /\ GLive
=============================================================================
