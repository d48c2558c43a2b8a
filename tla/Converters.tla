----------------------------- MODULE Converters -----------------------------
(***************************************************************************)
(* How the configuration of the collector is converted before it is used:  *)
(* the converters that NewCollector registers (collector/internal/         *)
(* collector/collector.go) run one after the other on the resolved         *)
(* configuration.  Both converters of the repository are modelled,         *)
(* disablequeuedretryconverter and decoupleafterbatchconverter.  Component *)
(* ids are reduced to their type, the part before "/"; an entry that is no  *)
(* string, which the code passes over, counts as "other".                    *)
(***************************************************************************)
EXTENDS Naturals, Sequences, SequencesExt

CONSTANTS
  Pipelines,    \* keys of service::pipelines
  MaxLength,    \* bound: the longest processor list of a pipeline
  Exporters,    \* types of the exporters that may be configured
  QueueTypes,   \* the exporter types that disablequeuedretryconverter lists
  Registered    \* the converters, in the order they run

ASSUME RegisteredAssumption ==
  Registered \in Seq({"disablequeuedretry", "decoupleafterbatch"})

Types == {"batch", "decouple", "other"}

VARIABLES
  processors,  \* the processors of each pipeline that has a well-formed list of them
  offered,     \* does the section "processors" of the configuration have a decouple?
  queue,       \* for each configured exporter: is its sending queue enabled?
  chain,       \* the converters still to run
  left,        \* pipelines the loop of Convert has not visited yet
  updates,     \* pipelines whose processors are to be replaced
  pc,          \* "next" converter, "loop" over the pipelines, "apply", "done", "failed"
  declared     \* history: the processors as they were configured

vars == <<processors, offered, queue, chain, left, updates, pc, declared>>

Lists == SeqOf(Types, MaxLength)

TypeOK ==
  /\ \E P \in SUBSET Pipelines : processors \in [P -> Seq(Types)]
  /\ offered \in BOOLEAN
  /\ \E E \in SUBSET Exporters : queue \in [E -> BOOLEAN]
  /\ chain \in Seq({"disablequeuedretry", "decoupleafterbatch"})
  /\ left \subseteq Pipelines /\ updates \subseteq Pipelines
  /\ pc \in {"next", "loop", "apply", "done", "failed"}

Init ==
  /\ \E P \in SUBSET Pipelines : processors \in [P -> Lists]
  /\ declared = processors /\ offered \in BOOLEAN
  /\ \E E \in SUBSET Exporters : queue \in [E -> BOOLEAN]
  /\ chain = Registered
  /\ left = {} /\ updates = {}
  /\ pc = "next"

AppendUnlessDecoupled(list) ==  \* mutant: a decouple processor anywhere is enough
  Contains(list, "batch") /\ ~Contains(list, "decouple")

(* shouldAppendDecouple: the flag of its loop before the first and after each *)
(* element of the list, and what is left of it in the end.                   *)
Flags(list) ==
  LET flag[n \in 0..Len(list)] ==
        n > 0 /\ (list[n] = "batch" \/ (list[n] # "decouple" /\ flag[n - 1]))
  IN flag

ShouldAppendDecouple(list) == Flags(list)[Len(list)]

(* disablequeuedretryconverter.Convert *)
DisableQueuedRetry ==
  /\ pc = "next" /\ chain # <<>> /\ Head(chain) = "disablequeuedretry"
  /\ queue' = [e \in DOMAIN queue |-> queue[e] /\ e \notin QueueTypes]
  /\ chain' = Tail(chain)
  /\ UNCHANGED <<processors, offered, left, updates, pc, declared>>

(* decoupleafterbatchconverter.Convert: the loop over the pipelines starts, *)
(* if there are any.                                                        *)
StartConvert ==
  /\ pc = "next" /\ chain # <<>> /\ Head(chain) = "decoupleafterbatch"
  /\ left' = Pipelines /\ updates' = {}
  /\ pc' = IF Pipelines = {} THEN "apply" ELSE "loop"
  /\ UNCHANGED <<processors, offered, queue, chain, declared>>

(* One pipeline is looked at, in the order of a Go map, which is any order.  *)
(* One whose list is missing or malformed is passed over, as are all when    *)
(* "service" or "pipelines" is; the loop is left with the first one that     *)
(* needs a decouple processor.                                               *)
VisitPipeline(p) ==
  /\ pc = "loop" /\ p \in left
  /\ IF p \in DOMAIN processors /\ ShouldAppendDecouple(processors[p])
     THEN updates' = {p} /\ left' = {} /\ pc' = "apply"
     ELSE UNCHANGED updates /\ left' = left \ {p} /\ pc' = IF left = {p} THEN "apply" ELSE "loop"
  /\ UNCHANGED <<processors, offered, queue, chain, declared>>

ApplyPrepends ==  \* mutant: decouple is put first, as the comment of New says
  /\ pc = "apply"
  /\ processors' = [p \in DOMAIN processors |->
                     IF p \in updates THEN <<"decouple">> \o processors[p] ELSE processors[p]]
  /\ chain' = Tail(chain) /\ pc' = "next"
  /\ UNCHANGED <<offered, queue, left, updates, declared>>

ApplyNests ==  \* mutant: a list is appended instead of an element
  /\ pc = "apply"
  /\ processors' = [p \in DOMAIN processors |->
                     IF p \in updates THEN Append(processors[p], <<"decouple">>) ELSE processors[p]]
  /\ chain' = Tail(chain) /\ pc' = "next"
  /\ UNCHANGED <<offered, queue, left, updates, declared>>

ApplyWrongName ==  \* mutant: the one constant in place of the other
  /\ pc = "apply"
  /\ processors' = [p \in DOMAIN processors |->
                     IF p \in updates THEN Append(processors[p], "batch") ELSE processors[p]]
  /\ chain' = Tail(chain) /\ pc' = "next"
  /\ UNCHANGED <<offered, queue, left, updates, declared>>

(* The updates are merged into the configuration. *)
ApplyUpdates ==
  /\ pc = "apply"
  /\ processors' = [p \in DOMAIN processors |->
                     IF p \in updates THEN Append(processors[p], "decouple") ELSE processors[p]]
  /\ chain' = Tail(chain) /\ pc' = "next"
  /\ UNCHANGED <<offered, queue, left, updates, declared>>

(* conf.Merge returns an error, and so does Convert: no converter runs after *)
(* it.  The decouple converter merges only when it has something to update.  *)
MergeFails ==
  /\ \/ pc = "next" /\ chain # <<>> /\ Head(chain) = "disablequeuedretry"
     \/ pc = "apply" /\ updates # {}
  /\ pc' = "failed"
  /\ UNCHANGED <<processors, offered, queue, chain, left, updates, declared>>

Resolved ==
  /\ pc = "next" /\ chain = <<>> /\ pc' = "done"
  /\ UNCHANGED <<processors, offered, queue, chain, left, updates, declared>>

Next ==
  \/ DisableQueuedRetry \/ StartConvert \/ ApplyUpdates \/ MergeFails \/ Resolved
  \/ \E p \in Pipelines : VisitPipeline(p)

Spec == Init /\ [][Next]_vars
----------------------------------------------------------------------------
(* What the documents call for: a batch processor with no decouple processor *)
(* anywhere after it.                                                        *)
NeedsDecouple(list) ==
  \E i \in 1..Len(list) :
    list[i] = "batch" /\ \A j \in i + 1..Len(list) : list[j] # "decouple"

(* A pipeline is changed only if it needs a decouple processor, and only by  *)
(* a decouple processor at its end, however often converters run.            *)
OnlyWhatIsNeeded ==
  /\ DOMAIN processors = DOMAIN declared
  /\ \A p \in DOMAIN processors :
       \/ processors[p] = declared[p]
       \/ NeedsDecouple(declared[p]) /\ processors[p] = Append(declared[p], "decouple")

(* When the decouple converter has run and some pipeline needed a decouple   *)
(* processor, one of them has got it.                                        *)
ConvertMakesProgress ==
  pc = "done" /\ Contains(Registered, "decoupleafterbatch") =>
    \/ \A p \in DOMAIN processors : ~NeedsDecouple(declared[p])
    \/ \E p \in DOMAIN processors : processors[p] # declared[p] /\ ~NeedsDecouple(processors[p])

(* otelcol refuses a configuration whose pipelines name a processor that the *)
(* section "processors" does not have.  A valid one is made invalid in one   *)
(* case only: a decouple processor was added and the section offers none     *)
(* (converter.go:83, which does not look at the section).                    *)
Valid(lists) ==
  \A p \in DOMAIN lists : \A t \in ToSet(lists[p]) :
    t \in {"batch", "other"} \/ (t = "decouple" /\ offered)

InvalidOnlyIfUndeclared ==
  pc = "done" /\ Valid(declared) =>
    (~Valid(processors) <=> ~offered /\ processors # declared)

(* decoupleafterbatchconverter/README.md and collector/README.md             *)
(* (Auto-Configuration): no batch processor is left without a decouple       *)
(* processor after it.                                                       *)
EveryBatchDecoupled == pc = "done" => \A p \in DOMAIN processors : ~NeedsDecouple(processors[p])
=============================================================================
