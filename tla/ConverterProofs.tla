--------------------------- MODULE ConverterProofs ---------------------------
(***************************************************************************)
(* What holds of the converters for any chain of them, any pipelines with  *)
(* processor lists of any length and any exporters.                        *)
(***************************************************************************)
EXTENDS Converters, WellFoundedInduction, TLAPS

Converter == {"disablequeuedretry", "decoupleafterbatch"}

(* The processor lists as they were configured, and the place in the chain.  *)
CInv ==
  /\ TypeOK
  /\ \E P \in SUBSET Pipelines : declared \in [P -> Seq(Types)]
  /\ DOMAIN processors = DOMAIN declared
  /\ pc \in {"loop", "apply"} => chain # <<>> /\ Head(chain) = "decoupleafterbatch"
  /\ pc = "done" => chain = <<>>

-----------------------------------------------------------------------------
(* A sequence without its head, and with one element more.                   *)
LEMMA TailFacts ==
  ASSUME NEW S, NEW q \in Seq(S), q # <<>>
  PROVE  Tail(q) \in Seq(S) /\ ToSet(q) \subseteq {Head(q)} \cup ToSet(Tail(q))
<1>1. /\ Tail(q) \in Seq(S) /\ Head(q) = q[1] /\ Len(q) \in Nat \ {0}
      /\ Len(Tail(q)) = Len(q) - 1 /\ \A i \in 1..(Len(q) - 1) : Tail(q)[i] = q[i + 1]
  OBVIOUS
<1>2. ASSUME NEW i \in 1..Len(q), i # 1 PROVE q[i] \in ToSet(Tail(q))
  <2>1. PICK n \in Nat : n = Len(q)
    BY <1>1
  <2>2. i - 1 \in 1..(n - 1) /\ (i - 1) + 1 = i
    BY <1>2, <2>1
  <2>3. Tail(q)[i - 1] = q[i] /\ i - 1 \in 1..Len(Tail(q))
    BY <1>1, <2>1, <2>2
  <2>4. DOMAIN Tail(q) = 1..Len(Tail(q))
    BY <1>1
  <2> QED
    BY <2>3, <2>4 DEF ToSet
<1> QED
  BY <1>1, <1>2 DEF ToSet

LEMMA AppendFacts ==
  ASSUME NEW S, NEW q \in Seq(S), NEW e \in S
  PROVE  Append(q, e) \in Seq(S) /\ ToSet(Append(q, e)) = ToSet(q) \cup {e}
<1>1. PICK n \in Nat : n = Len(q)
  OBVIOUS
<1>2. /\ Append(q, e) \in Seq(S) /\ Len(Append(q, e)) = n + 1 /\ Append(q, e)[n + 1] = e
      /\ \A i \in 1..n : Append(q, e)[i] = q[i]
  BY <1>1
<1>3. 1..(n + 1) = (1..n) \cup {n + 1}
  OBVIOUS
<1> QED
  BY <1>1, <1>2, <1>3 DEF ToSet

LEMMA CInvInit == Init => CInv
<1> SUFFICES ASSUME Init PROVE CInv
  OBVIOUS
<1>1. Lists \subseteq Seq(Types)
  BY DEF Lists, SeqOf
<1>2. \E P \in SUBSET Pipelines : processors \in [P -> Seq(Types)]
  BY <1>1 DEF Init
<1> QED
  BY <1>2, RegisteredAssumption DEF Init, CInv, TypeOK

(* The updates of a pass keep the types and the pipelines.                   *)
LEMMA UpdatesKeep ==
  ASSUME CInv, ApplyUpdates
  PROVE  /\ \E P \in SUBSET Pipelines : processors' \in [P -> Seq(Types)]
         /\ DOMAIN processors' = DOMAIN processors
         /\ chain' \in Seq(Converter)
<1>1. PICK P \in SUBSET Pipelines : processors \in [P -> Seq(Types)]
  BY DEF CInv, TypeOK
<1>2. \A p \in P : Append(processors[p], "decouple") \in Seq(Types)
  <2> SUFFICES ASSUME NEW p \in P PROVE Append(processors[p], "decouple") \in Seq(Types)
    OBVIOUS
  <2>1. processors[p] \in Seq(Types) /\ "decouple" \in Types
    BY <1>1 DEF Types
  <2> QED
    BY <2>1, AppendFacts
<1>3. processors' \in [P -> Seq(Types)] /\ DOMAIN processors = P
  BY <1>1, <1>2 DEF ApplyUpdates
<1>4. chain' \in Seq(Converter)
  BY TailFacts DEF CInv, TypeOK, ApplyUpdates, Converter
<1> QED
  BY <1>3, <1>4

LEMMA CInvStep == CInv /\ [Next]_vars => CInv'
<1> SUFFICES ASSUME CInv, [Next]_vars PROVE CInv'
  OBVIOUS
<1>1. CASE DisableQueuedRetry
  <2>1. chain' \in Seq(Converter)
    BY <1>1, TailFacts DEF DisableQueuedRetry, CInv, TypeOK, Converter
  <2>2. PICK E \in SUBSET Exporters : queue \in [E -> BOOLEAN]
    BY DEF CInv, TypeOK
  <2>3. queue' \in [E -> BOOLEAN]
    BY <1>1, <2>2 DEF DisableQueuedRetry
  <2> QED
    BY <1>1, <2>1, <2>3 DEF DisableQueuedRetry, CInv, TypeOK, Converter
<1>2. CASE StartConvert
  BY <1>2 DEF StartConvert, CInv, TypeOK
<1>3. ASSUME NEW p \in Pipelines, VisitPipeline(p) PROVE CInv'
  BY <1>3 DEF VisitPipeline, CInv, TypeOK
<1>4. CASE ApplyUpdates
  BY <1>4, UpdatesKeep DEF ApplyUpdates, CInv, TypeOK, Converter
<1>5. CASE Resolved
  BY <1>5 DEF Resolved, CInv, TypeOK
<1>6. CASE MergeFails
  BY <1>6 DEF MergeFails, CInv, TypeOK
<1>7. CASE UNCHANGED vars
  BY <1>7 DEF vars, CInv, TypeOK
<1> QED
  BY <1>1, <1>2, <1>3, <1>4, <1>5, <1>6, <1>7 DEF Next

LEMMA CInvInvariant == Spec => []CInv
  BY CInvInit, CInvStep, PTL DEF Spec

(* The configuration keeps its shape whatever converters run.                *)
THEOREM ConverterTypes == Spec => []TypeOK
<1>1. CInv => TypeOK
  BY DEF CInv
<1> QED
  BY <1>1, CInvInvariant, PTL

-----------------------------------------------------------------------------
(* A list differs from the declared one only by decouple processors, of      *)
(* which it then has one.                                                    *)
OnlyDecouples ==
  \A p \in DOMAIN processors :
    \/ processors[p] = declared[p]
    \/ ToSet(processors[p]) = ToSet(declared[p]) \cup {"decouple"}

(* What the converters add makes a valid configuration invalid only when the *)
(* section "processors" offers no decouple processor, and always then.       *)
THEOREM InvalidOnlyByDecouple == Spec => []InvalidOnlyIfUndeclared
<1>1. Init => OnlyDecouples
  BY DEF Init, OnlyDecouples
<1>2. CInv /\ OnlyDecouples /\ [Next]_vars => OnlyDecouples'
  <2> SUFFICES ASSUME CInv, OnlyDecouples, [Next]_vars PROVE OnlyDecouples'
    OBVIOUS
  <2>1. CASE ApplyUpdates
    <3> SUFFICES ASSUME NEW p \in DOMAIN processors'
                 PROVE  \/ processors'[p] = declared[p]
                        \/ ToSet(processors'[p]) = ToSet(declared[p]) \cup {"decouple"}
      BY <2>1 DEF OnlyDecouples, ApplyUpdates
    <3>1. p \in DOMAIN processors /\ processors[p] \in Seq(Types)
      BY UpdatesKeep, <2>1 DEF CInv, TypeOK
    <3>2. CASE p \in updates
      <4>1. processors'[p] = Append(processors[p], "decouple")
        BY <2>1, <3>1, <3>2 DEF ApplyUpdates
      <4>2. ToSet(processors'[p]) = ToSet(processors[p]) \cup {"decouple"}
        BY <3>1, <4>1, AppendFacts DEF Types
      <4> QED
        BY <3>1, <4>2 DEF OnlyDecouples
    <3>3. CASE p \notin updates
      BY <2>1, <3>1, <3>3 DEF ApplyUpdates, OnlyDecouples
    <3> QED
      BY <3>2, <3>3
  <2>2. CASE UNCHANGED <<processors, declared>>
    BY <2>2 DEF OnlyDecouples
  <2> QED
    BY <2>1, <2>2 DEF Next, DisableQueuedRetry, StartConvert, VisitPipeline, MergeFails,
                      Resolved, vars
<1>3. CInv /\ OnlyDecouples => InvalidOnlyIfUndeclared
  <2> SUFFICES ASSUME CInv, OnlyDecouples, Valid(declared)
               PROVE  ~Valid(processors) <=> ~offered /\ processors # declared
    BY DEF InvalidOnlyIfUndeclared
  <2>1. /\ DOMAIN processors = DOMAIN declared
        /\ (\A p \in DOMAIN processors : processors[p] = declared[p]) => processors = declared
    BY DEF CInv, TypeOK
  <2>2. ASSUME ~Valid(processors) PROVE ~offered /\ processors # declared
    <3>1. PICK p \in DOMAIN processors : \E t \in ToSet(processors[p]) :
            ~(t \in {"batch", "other"} \/ (t = "decouple" /\ offered))
      BY <2>2 DEF Valid
    <3>2. PICK t \in ToSet(processors[p]) :
                 ~(t \in {"batch", "other"} \/ (t = "decouple" /\ offered))
      BY <3>1
    <3>3. t \notin ToSet(declared[p])
      BY <2>1, <3>2 DEF Valid
    <3> QED
      BY <3>1, <3>2, <3>3 DEF OnlyDecouples
  <2>3. ASSUME ~offered, processors # declared PROVE ~Valid(processors)
    <3>1. PICK p \in DOMAIN processors : processors[p] # declared[p]
      BY <2>1, <2>3
    <3>2. "decouple" \in ToSet(processors[p])
      BY <3>1 DEF OnlyDecouples
    <3> QED
      BY <2>3, <3>2 DEF Valid
  <2> QED
    BY <2>2, <2>3
<1> QED
  BY <1>1, <1>2, <1>3, CInvInvariant, PTL DEF Spec
-----------------------------------------------------------------------------
(* A nonempty set of naturals has a least element.  It stands for induction  *)
(* over the positions of a list: the first position at which a claim fails   *)
(* has a predecessor at which it holds.                                      *)
LEMMA LeastElement ==
  ASSUME NEW T, T \subseteq Nat, T # {}
  PROVE  \E n \in T : \A m \in T : n <= m
<1>1. PICK n \in T : \A m \in T : ~(<<m, n>> \in OpToRel(<, Nat))
  BY NatLessThanWellFounded, WFMin
<1>2. \A m \in T : ~(m < n)
  BY <1>1 DEF OpToRel
<1> QED
  BY <1>2

(* A list needs a decouple processor after its first n elements.             *)
NeedsAt(list, n) ==
  \E i \in 1..n : list[i] = "batch" /\ \A j \in i + 1..n : list[j] # "decouple"

LEMMA NeedsStep ==
  ASSUME NEW list, NEW n \in Nat, n > 0
  PROVE  NeedsAt(list, n) <=> list[n] = "batch" \/ (list[n] # "decouple" /\ NeedsAt(list, n - 1))
<1>0. n - 1 \in Nat /\ n \in 1..n /\ 1..(n - 1) \subseteq 1..n /\ 1..n = 1..(n - 1) \cup {n}
  OBVIOUS
<1>1. ASSUME list[n] = "batch" PROVE NeedsAt(list, n)
  <2>1. \A j \in n + 1..n : list[j] # "decouple"
    OBVIOUS
  <2> QED
    BY <1>0, <1>1, <2>1 DEF NeedsAt
<1>2. ASSUME list[n] # "decouple", NeedsAt(list, n - 1) PROVE NeedsAt(list, n)
  <2>1. PICK i \in 1..(n - 1) : list[i] = "batch" /\ \A j \in i + 1..n - 1 : list[j] # "decouple"
    BY <1>2 DEF NeedsAt
  <2>2. i + 1..n = (i + 1..n - 1) \cup {n}
    OBVIOUS
  <2> QED
    BY <1>0, <1>2, <2>1, <2>2 DEF NeedsAt
<1>3. ASSUME NeedsAt(list, n), list[n] # "batch"
      PROVE  list[n] # "decouple" /\ NeedsAt(list, n - 1)
  <2>1. PICK i \in 1..n : list[i] = "batch" /\ \A j \in i + 1..n : list[j] # "decouple"
    BY <1>3 DEF NeedsAt
  <2>2. i \in 1..(n - 1)
    BY <1>3, <2>1
  <2>3. i + 1..n = (i + 1..n - 1) \cup {n}
    BY <2>2
  <2> QED
    BY <2>1, <2>2, <2>3 DEF NeedsAt
<1> QED
  BY <1>1, <1>2, <1>3

(* The equation that defines the flags has a solution, so the flags satisfy  *)
(* it.                                                                       *)
LEMMA FlagsEquation ==
  ASSUME NEW list \in Seq(Types)
  PROVE  Flags(list) = [n \in 0..Len(list) |->
           n > 0 /\ (list[n] = "batch" \/ (list[n] # "decouple" /\ Flags(list)[n - 1]))]
<1> DEFINE f0 == [n \in 0..Len(list) |-> NeedsAt(list, n)]
<1>1. f0 = [n \in 0..Len(list) |->
              n > 0 /\ (list[n] = "batch" \/ (list[n] # "decouple" /\ f0[n - 1]))]
  <2>1. ASSUME NEW n \in 0..Len(list)
        PROVE  NeedsAt(list, n) <=> n > 0 /\ (list[n] = "batch" \/ (list[n] # "decouple" /\ f0[n - 1]))
    <3>0. n \in Nat /\ Len(list) \in Nat
      OBVIOUS
    <3>1. CASE n = 0
      <4>1. ~NeedsAt(list, 0)
        BY DEF NeedsAt
      <4>2. ~(n > 0)
        BY <3>1
      <4> QED
        BY <3>1, <4>1, <4>2, Zenon
    <3>2. CASE n > 0
      <4>1. n - 1 \in 0..Len(list)
        BY <3>0, <3>2
      <4>2. f0[n - 1] = NeedsAt(list, n - 1)
        BY <4>1, Zenon
      <4> QED
        BY <3>0, <3>2, <4>2, NeedsStep, Zenon
    <3> QED
      BY <3>0, <3>1, <3>2
  <2>2. \A n \in 0..Len(list) :
          NeedsAt(list, n) = (n > 0 /\ (list[n] = "batch" \/ (list[n] # "decouple" /\ f0[n - 1])))
    <3>1. ASSUME NEW n \in 0..Len(list)
          PROVE  /\ NeedsAt(list, n) \in BOOLEAN
                 /\ (n > 0 /\ (list[n] = "batch" \/ (list[n] # "decouple" /\ f0[n - 1]))) \in BOOLEAN
      BY DEF NeedsAt
    <3> QED
      BY <2>1, <3>1, Zenon
  <2> QED
    BY <2>2, Zenon
<1>2. Flags(list) = CHOOSE f : f = [n \in 0..Len(list) |->
              n > 0 /\ (list[n] = "batch" \/ (list[n] # "decouple" /\ f[n - 1]))]
  BY Zenon DEF Flags
<1> HIDE DEF f0
<1>3. \E f : f = [n \in 0..Len(list) |->
              n > 0 /\ (list[n] = "batch" \/ (list[n] # "decouple" /\ f[n - 1]))]
  BY <1>1, Zenon
<1> QED
  BY <1>2, <1>3, Zenon

(* The flag that shouldAppendDecouple returns after its one pass over a list *)
(* of any length is what the documents call for: some batch processor has no *)
(* decouple processor after it.                                              *)
THEOREM FlagMeaning ==
  ASSUME NEW list \in Seq(Types)
  PROVE  ShouldAppendDecouple(list) <=> NeedsDecouple(list)
<1>0. Len(list) \in Nat
  OBVIOUS
<1>1. \A n \in 0..Len(list) : Flags(list)[n] <=>
        n > 0 /\ (list[n] = "batch" \/ (list[n] # "decouple" /\ Flags(list)[n - 1]))
  BY FlagsEquation, Zenon
<1> DEFINE Wrong == {n \in 0..Len(list) : ~(Flags(list)[n] <=> NeedsAt(list, n))}
<1>2. Wrong = {}
  <2>1. SUFFICES ASSUME Wrong # {} PROVE FALSE
    OBVIOUS
  <2>2. PICK n \in Wrong : \A m \in Wrong : n <= m
    <3>1. Wrong \subseteq Nat
      OBVIOUS
    <3> QED
      BY <2>1, <3>1, LeastElement
  <2>3. n \in 0..Len(list) /\ ~(Flags(list)[n] <=> NeedsAt(list, n))
    BY <2>2
  <2>4. n # 0
    <3>1. ~NeedsAt(list, 0)
      BY DEF NeedsAt
    <3>2. ~Flags(list)[0]
      BY <1>0, <1>1
    <3> QED
      BY <2>3, <3>1, <3>2
  <2>5. n - 1 \in 0..Len(list) /\ n - 1 \notin Wrong
    BY <1>0, <2>2, <2>3, <2>4
  <2>6. Flags(list)[n - 1] <=> NeedsAt(list, n - 1)
    BY <2>5
  <2>7. n \in Nat /\ n > 0
    BY <1>0, <2>3, <2>4
  <2> QED
    BY <1>1, <2>3, <2>6, <2>7, NeedsStep
<1>3. Flags(list)[Len(list)] <=> NeedsAt(list, Len(list))
  BY <1>0, <1>2
<1> QED
  BY <1>3 DEF ShouldAppendDecouple, NeedsDecouple, NeedsAt

(* A decouple processor at the end is all that a list can need.              *)
LEMMA AppendedIsDecoupled ==
  ASSUME NEW list \in Seq(Types)
  PROVE  /\ ~NeedsDecouple(Append(list, "decouple"))
         /\ Append(list, "decouple") # list
<1>1. PICK n \in Nat : n = Len(list)
  OBVIOUS
<1>2. /\ Len(Append(list, "decouple")) = n + 1
      /\ Append(list, "decouple")[n + 1] = "decouple"
  BY <1>1
<1>3. ASSUME NEW i \in 1..(n + 1), Append(list, "decouple")[i] = "batch"
      PROVE  n + 1 \in i + 1..n + 1
  BY <1>2, <1>3
<1>4. ~NeedsDecouple(Append(list, "decouple"))
  BY <1>2, <1>3 DEF NeedsDecouple
<1> QED
  BY <1>1, <1>2, <1>4

(* What the loop over the pipelines has found: the pipelines that it has     *)
(* passed need nothing, and the one that it has picked does.                 *)
Found ==
  /\ pc = "loop" => updates = {} /\ \A p \in DOMAIN processors \ left : ~NeedsDecouple(processors[p])
  /\ pc = "apply" =>
       /\ updates \subseteq DOMAIN processors
       /\ \A p \in updates : NeedsDecouple(processors[p])
       /\ updates = {} => \A p \in DOMAIN processors : ~NeedsDecouple(processors[p])

(* Nothing was to be done, or one pipeline has got what it needed.           *)
Progressed ==
  \/ \A p \in DOMAIN processors : ~NeedsDecouple(declared[p])
  \/ \E p \in DOMAIN processors : processors[p] # declared[p] /\ ~NeedsDecouple(processors[p])

NeedInv ==
  /\ CInv /\ Found /\ OnlyWhatIsNeeded
  /\ Contains(Registered, "decoupleafterbatch") =>
       Progressed \/ "decoupleafterbatch" \in ToSet(chain)

(* A pipeline that is picked is as it was declared.                          *)
LEMMA PickedAsDeclared ==
  ASSUME NeedInv, pc = "apply", NEW p \in updates
  PROVE  /\ p \in DOMAIN processors /\ processors[p] = declared[p]
         /\ NeedsDecouple(declared[p]) /\ declared[p] \in Seq(Types)
<1>1. p \in DOMAIN processors /\ NeedsDecouple(processors[p])
  BY DEF NeedInv, Found
<1>2. declared[p] \in Seq(Types)
  BY <1>1 DEF NeedInv, CInv
<1>3. processors[p] # Append(declared[p], "decouple")
  BY <1>1, <1>2, AppendedIsDecoupled
<1> QED
  BY <1>1, <1>2, <1>3 DEF NeedInv, OnlyWhatIsNeeded

LEMMA NeedInit == Init => NeedInv
<1> SUFFICES ASSUME Init PROVE NeedInv
  OBVIOUS
<1>1. CInv
  BY CInvInit
<1>2. Found /\ OnlyWhatIsNeeded
  BY DEF Init, Found, OnlyWhatIsNeeded
<1>3. Contains(Registered, "decoupleafterbatch") => "decoupleafterbatch" \in ToSet(chain)
  BY DEF Init, Contains, ToSet
<1> QED
  BY <1>1, <1>2, <1>3 DEF NeedInv

LEMMA NeedStep == NeedInv /\ [Next]_vars => NeedInv'
<1> SUFFICES ASSUME NeedInv, [Next]_vars PROVE NeedInv'
  OBVIOUS
<1>0. CInv /\ CInv'
  BY CInvStep DEF NeedInv
<1>a. \A p \in DOMAIN processors : p \in Pipelines /\ processors[p] \in Seq(Types)
  BY <1>0 DEF CInv, TypeOK
<1>1. CASE DisableQueuedRetry
  <2>1. /\ chain \in Seq(Converter) /\ chain # <<>> /\ Head(chain) = "disablequeuedretry"
        /\ chain' = Tail(chain) /\ UNCHANGED <<processors, declared, left, updates, pc>>
    BY <1>0, <1>1 DEF DisableQueuedRetry, CInv, TypeOK, Converter
  <2>2. ToSet(chain) \subseteq {"disablequeuedretry"} \cup ToSet(chain')
    BY <2>1, TailFacts
  <2> QED
    BY <1>0, <2>1, <2>2 DEF NeedInv, Found, OnlyWhatIsNeeded, Progressed
<1>2. CASE StartConvert
  <2>1. Found'
    BY <1>2, <1>a DEF StartConvert, Found
  <2> QED
    BY <1>0, <1>2, <2>1 DEF StartConvert, NeedInv, OnlyWhatIsNeeded, Progressed
<1>3. ASSUME NEW p \in Pipelines, VisitPipeline(p) PROVE NeedInv'
  <2>1. p \in DOMAIN processors => (ShouldAppendDecouple(processors[p]) <=> NeedsDecouple(processors[p]))
    BY <1>a, FlagMeaning
  <2>2. Found'
    BY <1>3, <2>1 DEF VisitPipeline, Found, NeedInv
  <2> QED
    BY <1>0, <1>3, <2>2 DEF VisitPipeline, NeedInv, OnlyWhatIsNeeded, Progressed
<1>4. CASE ApplyUpdates
  <2>1. /\ pc = "apply" /\ pc' = "next" /\ chain' = Tail(chain) /\ UNCHANGED declared
        /\ DOMAIN processors' = DOMAIN processors
        /\ \A p \in DOMAIN processors : processors'[p] =
             IF p \in updates THEN Append(processors[p], "decouple") ELSE processors[p]
    BY <1>4 DEF ApplyUpdates
  <2>2. \A p \in updates : /\ p \in DOMAIN processors /\ processors[p] = declared[p]
                           /\ NeedsDecouple(declared[p]) /\ declared[p] \in Seq(Types)
    BY <2>1, PickedAsDeclared
  <2>3. OnlyWhatIsNeeded'
    BY <2>1, <2>2 DEF NeedInv, OnlyWhatIsNeeded
  <2>4. CASE updates = {}
    <3>1. \A p \in DOMAIN processors : ~NeedsDecouple(processors[p]) /\ processors'[p] = processors[p]
      BY <2>1, <2>4 DEF NeedInv, Found
    <3>2. Progressed'
      BY <2>1, <3>1 DEF Progressed
    <3> QED
      BY <1>0, <2>1, <2>3, <3>2 DEF NeedInv, Found
  <2>5. CASE updates # {}
    <3>1. PICK p \in updates : TRUE
      BY <2>5
    <3>2. processors'[p] = Append(declared[p], "decouple") /\ declared[p] \in Seq(Types)
      BY <2>1, <2>2
    <3>3. processors'[p] # declared[p] /\ ~NeedsDecouple(processors'[p])
      BY <3>2, AppendedIsDecoupled
    <3>4. Progressed'
      BY <2>1, <2>2, <3>3 DEF Progressed
    <3> QED
      BY <1>0, <2>1, <2>3, <3>4 DEF NeedInv, Found
  <2> QED
    BY <2>4, <2>5
<1>5. CASE Resolved
  BY <1>0, <1>5 DEF Resolved, NeedInv, Found, OnlyWhatIsNeeded, Progressed
<1>6. CASE MergeFails
  BY <1>0, <1>6 DEF MergeFails, NeedInv, Found, OnlyWhatIsNeeded, Progressed
<1>7. CASE UNCHANGED vars
  BY <1>0, <1>7 DEF vars, NeedInv, Found, OnlyWhatIsNeeded, Progressed
<1> QED
  BY <1>1, <1>2, <1>3, <1>4, <1>5, <1>6, <1>7 DEF Next

LEMMA NeedInvariant == Spec => []NeedInv
  BY NeedInit, NeedStep, PTL DEF Spec

(* However often and in whatever order converters run, a pipeline is changed *)
(* only if it needs a decouple processor, and only by one at its end.        *)
THEOREM OnlyNeededChanges == Spec => []OnlyWhatIsNeeded
<1>1. NeedInv => OnlyWhatIsNeeded
  BY DEF NeedInv
<1> QED
  BY <1>1, NeedInvariant, PTL

(* A chain with the decouple converter in it gives one of the pipelines that *)
(* need a decouple processor its own.                                        *)
THEOREM OnePipelineServed == Spec => []ConvertMakesProgress
<1>1. NeedInv => ConvertMakesProgress
  BY DEF NeedInv, CInv, Progressed, ConvertMakesProgress, ToSet
<1> QED
  BY <1>1, NeedInvariant, PTL
=============================================================================
