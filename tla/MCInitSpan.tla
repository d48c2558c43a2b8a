----------------------------- MODULE MCInitSpan -----------------------------
(* InitSpan for TLC: an init phase that is repeated, with a log record       *)
(* between, and a third one whose end has a time that cannot be parsed; an   *)
(* invocation; and invocations that export a span with faas.coldstart before *)
(* or after their own, and another span.                                     *)
EXTENDS InitSpan, TLC

Event(type, of) == [type |-> type, of |-> of]
SpanOf(kind, of) == [kind |-> kind, of |-> of]

OneInit == <<Event("initStart", 1), Event("initRuntimeDone", 1)>>
ThreeInits == OneInit \o <<Event("log", 1), Event("initStart", 2), Event("initRuntimeDone", 2),
                           Event("initRuntimeDone", 3)>>

OneCall == { <<SpanOf("execution", 1)>> }
TwoCalls == OneCall \cup { <<SpanOf("other", 2), SpanOf("execution", 2)>> }
MarkedCalls == TwoCalls \cup { <<SpanOf("marked", 3)>>, <<SpanOf("execution", 4), SpanOf("marked", 4)>> }

HandlerSymmetry == Permutations(Handlers)
ServerSymmetry == Permutations(Servers)
=============================================================================
