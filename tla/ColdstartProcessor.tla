------------------------ MODULE ColdstartProcessor ------------------------
(***************************************************************************)
(* The coldstart processor (collector/processor/coldstartprocessor/        *)
(* processor.go).  The goroutines of several receivers call processTraces  *)
(* at the same time and the processor has no lock, so a call is split      *)
(* where it reads and writes the processor's fields.  The grouping of      *)
(* spans by resource and scope is left out: a call carries a sequence of   *)
(* spans.                                                                  *)
(***************************************************************************)
EXTENDS Integers, Sequences

CONSTANT Threads   \* goroutines that call the consumers of the pipeline

(* A span is an init span of the receiver or a "marked" span of the function, *)
(* which both have faas.coldstart; the span of an invocation ("execution",    *)
(* faas.execution) or any other one.  A marked span may have faas.execution   *)
(* as well, which is looked at second.                                        *)
ColdStarts == {"init", "marked"}
Spans == [kind : ColdStarts \cup {"execution", "other"}, of : Nat]
None  == [kind |-> "none", of |-> 0]    \* a nil pointer
Blank == [kind |-> "blank", of |-> 0]   \* allocated, its fields not copied yet

(* A span in a batch, and the span whose trace it is in. *)
Items == [span : Spans \cup {Blank}, trace : Spans \cup {Blank}]

VARIABLES
  reported,  \* p.reported
  held,      \* p.coldstartSpan
  exec,      \* p.faasExecution
  step,      \* where each goroutine is in its call; "next": it calls the next consumer
  td,        \* the spans that RemoveIf has not visited in its call
  kept       \* the spans that stay in its batch

cdvars == <<reported, held, exec, step, td, kept>>

CTypeOK ==
  /\ reported \in BOOLEAN
  /\ held \in Spans \cup {None, Blank}
  /\ exec \in Spans \cup {None, Blank}
  /\ step \in [Threads -> {"out", "look", "keep", "hold", "fillheld", "join", "joined", "store",
                           "fillexec", "attach", "attached", "drop", "next", "panicked"}]
  /\ td \in [Threads -> Seq(Items)]
  /\ kept \in [Threads -> Seq(Items)]

CInit ==
  /\ reported = FALSE /\ held = None /\ exec = None
  /\ step = [t \in Threads |-> "out"]
  /\ td = [t \in Threads |-> <<>>] /\ kept = [t \in Threads |-> <<>>]

Visited(t) == Head(td[t]).span
InTrace(span, trace) == <<[span |-> span, trace |-> trace]>>

Goto(t, l) == step' = [step EXCEPT ![t] = l]
Advance(t) == td' = [td EXCEPT ![t] = Tail(@)] /\ Goto(t, "look")

(* The span that is visited is not removed. *)
Keep(t) == kept' = [kept EXCEPT ![t] = Append(@, Head(td[t]))] /\ Advance(t)

(* ConsumeTraces is called. *)
ProcessTraces(t, batch) ==
  /\ step[t] = "out" /\ Goto(t, "look")
  /\ td' = [td EXCEPT ![t] = [i \in 1..Len(batch) |-> [span |-> batch[i], trace |-> batch[i]]]]
  /\ kept' = [kept EXCEPT ![t] = <<>>]
  /\ UNCHANGED <<reported, held, exec>>

DecideHolding(s) ==  \* mutant: a cold start span is held whatever was seen before
  CASE reported -> "keep"
    [] ~reported /\ s.kind \in ColdStarts -> "hold"
    [] ~reported /\ s.kind = "execution" -> IF held = None THEN "store" ELSE "attach"
    [] OTHER -> "keep"

DecideJoining(s) ==  \* mutant: p.faasExecution is not tested for nil
  CASE reported -> "keep"
    [] ~reported /\ s.kind \in ColdStarts -> "join"
    [] ~reported /\ s.kind = "execution" -> IF held = None THEN "store" ELSE "attach"
    [] OTHER -> "keep"

(* The branch that is taken for a span: what the fields are when it is read. *)
Decide(s) ==
  CASE reported -> "keep"
    [] ~reported /\ s.kind \in ColdStarts -> IF exec = None THEN "hold" ELSE "join"
    [] ~reported /\ s.kind = "execution" -> IF held = None THEN "store" ELSE "attach"
    [] OTHER -> "keep"

Look(t) ==
  /\ step[t] = "look" /\ td[t] # <<>>
  /\ Goto(t, Decide(Visited(t)))
  /\ UNCHANGED <<reported, held, exec, td, kept>>

KeepSpan(t) ==
  /\ step[t] = "keep" /\ Keep(t)
  /\ UNCHANGED <<reported, held, exec>>

(* The cold start span is taken out and held: first a new span is stored ... *)
Hold(t) ==
  /\ step[t] = "hold" /\ Goto(t, "fillheld") /\ held' = Blank
  /\ UNCHANGED <<reported, exec, td, kept>>

(* ... then the copy is made into whatever p.coldstartSpan points to. *)
FillHeld(t) ==
  /\ step[t] = "fillheld" /\ held # None /\ held' = Visited(t) /\ Advance(t)
  /\ UNCHANGED <<reported, exec, kept>>

(* The cold start span joins the execution that is stored ... *)
Join(t) ==
  /\ step[t] = "join" /\ Goto(t, "joined")
  /\ td' = [td EXCEPT ![t] = InTrace(Visited(t), exec) \o Tail(@)]
  /\ UNCHANGED <<reported, held, exec, kept>>

(* The execution is stored, in the place of an earlier one. *)
Store(t) ==
  /\ step[t] = "store" /\ Goto(t, "fillexec") /\ exec' = Blank
  /\ UNCHANGED <<reported, held, td, kept>>

FillExecSwallowing(t) ==  \* mutant: the execution span is taken out of its batch
  /\ step[t] = "fillexec" /\ exec' = Visited(t) /\ Advance(t)
  /\ UNCHANGED <<reported, held, kept>>

FillExec(t) ==
  /\ step[t] = "fillexec" /\ exec' = Visited(t) /\ Keep(t)
  /\ UNCHANGED <<reported, held>>

AttachUnlinked(t) ==  \* mutant: the copy keeps its own trace
  /\ step[t] = "attach" /\ held # None /\ Goto(t, "attached")
  /\ td' = [td EXCEPT ![t] = @ \o InTrace(held, held)]
  /\ UNCHANGED <<reported, held, exec, kept>>

(* The span that is held is appended to the batch of the execution, where    *)
(* RemoveIf visits it last ...                                               *)
Attach(t) ==
  /\ step[t] = "attach" /\ held # None /\ Goto(t, "attached")
  /\ td' = [td EXCEPT ![t] = @ \o InTrace(held, Visited(t))]
  /\ UNCHANGED <<reported, held, exec, kept>>

(* p.coldstartSpan was set to nil by another goroutine in between. *)
NilDereference(t) ==
  /\ step[t] \in {"attach", "fillheld"} /\ held = None
  /\ Goto(t, "panicked")
  /\ UNCHANGED <<reported, held, exec, td, kept>>

ReportAttached(t) ==  \* mutant: p.reported is not set when a span joins
  /\ step[t] \in {"joined", "attached"}
  /\ reported' = (reported \/ step[t] = "attached")
  /\ Goto(t, IF step[t] = "joined" THEN "keep" ELSE "drop")
  /\ UNCHANGED <<held, exec, td, kept>>

ReportRemoving(t) ==  \* mutant: the span that has joined is removed from its batch
  /\ step[t] \in {"joined", "attached"} /\ reported' = TRUE
  /\ IF step[t] = "joined" THEN Advance(t) ELSE Goto(t, "drop") /\ td' = td
  /\ UNCHANGED <<held, exec, kept>>

(* ... and it is noted that the cold start has been reported ... *)
Report(t) ==
  /\ step[t] \in {"joined", "attached"} /\ reported' = TRUE
  /\ Goto(t, IF step[t] = "joined" THEN "keep" ELSE "drop")
  /\ UNCHANGED <<held, exec, td, kept>>

(* ... and no span is held any more. *)
DropHeld(t) ==
  /\ step[t] = "drop" /\ held' = None /\ Keep(t)
  /\ UNCHANGED <<reported, exec>>

(* All spans are visited: a batch that has become empty is skipped, which is *)
(* no error for the caller.                                                  *)
Processed(t) ==
  /\ step[t] = "look" /\ td[t] = <<>>
  /\ Goto(t, IF kept[t] = <<>> THEN "out" ELSE "next")
  /\ UNCHANGED <<reported, held, exec, td, kept>>

(* The next consumer returns, and the batch is gone. *)
NextReturns(t) ==
  /\ step[t] = "next" /\ Goto(t, "out")
  /\ kept' = [kept EXCEPT ![t] = <<>>]
  /\ UNCHANGED <<reported, held, exec, td>>

ProcessorStep(t) ==
  \/ Look(t) \/ KeepSpan(t) \/ Hold(t) \/ FillHeld(t) \/ Join(t) \/ Store(t) \/ FillExec(t)
  \/ Attach(t) \/ NilDereference(t) \/ Report(t) \/ DropHeld(t) \/ Processed(t)
=============================================================================
