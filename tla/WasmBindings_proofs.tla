-------------------------- MODULE WasmBindings_proofs --------------------------
(***************************************************************************)
(* Proofs about WasmBindings, for all buffers, workers, scripts, Rust      *)
(* operations and ceilings.                                                *)
(***************************************************************************)
EXTENDS WasmBindings, TLAPS

Operations == {"compose", "decompose", "sign", "verify"}
Copies == {"copyFirst", "copySecond"}
Admission == {"admitInput", "admitOutput"}

\* The stage that measures an operand, and the operands whose octets a ceiling
\* counts.
MeasureOf(o) == IF o = "first" THEN "measureFirst" ELSE "measureSecond"
Counted(op) == IF op = "compose" THEN Operands ELSE {"first"}

StageNames ==
    {"form", "outer", "algorithm", "keyid", "measureFirst", "measureSecond", "signingKeyLength",
     "verifyingKeyLength", "admitInput", "admitOutput", "allocateFirst", "allocateSecond",
     "copyFirst", "copySecond", "parseSigningKey", "resolveKey", "schema", "operate"}

In(stage, s) == \E i \in DOMAIN s : s[i] = stage
Ahead(stage) == In(stage, todo)
Admitting == \E stage \in Admission : Ahead(stage)

-----------------------------------------------------------------------------
(* Facts about the four lists of stages.                                   *)

\* A list ends with the operation itself; in it no counted operand is measured
\* after its admission, and nothing is measured or admitted after a copy.  Two
\* inputs are admitted by their sum.
InOrder(s, op) ==
    /\ s \in Seq(StageNames) /\ s # << >> /\ s[Len(s)] = "operate"
    /\ op = "compose" => \A i \in DOMAIN s : s[i] # "admitInput"
    /\ \A i, j \in DOMAIN s : i < j =>
         /\ s[i] \in Admission => \A o \in Counted(op) : s[j] # MeasureOf(o)
         /\ s[i] \in Copies => s[j] \notin Admission \cup {"measureFirst", "measureSecond"}

LEMMA ListsInOrder ==
    ASSUME NEW c \in Calls
    PROVE  /\ InOrder(Stages(c), c.op)
           /\ \E stage \in Admission : In(stage, Stages(c))
           /\ \A o \in Counted(c.op) : In(MeasureOf(o), Stages(c))
<1> DEFINE Good(s, op) ==
              /\ InOrder(s, op)
              /\ \E stage \in Admission : In(stage, s)
              /\ \A o \in Counted(op) : In(MeasureOf(o), s)
<1> USE DEF InOrder, Admission, Copies, Counted, MeasureOf, Operands, In
<1>1. ASSUME NEW s, s = ComposeStages PROVE Good(s, "compose")
  <2>1. s \in Seq(StageNames)
    BY <1>1 DEF ComposeStages, StageNames
  <2>2. s # << >> /\ s[Len(s)] = "operate"
    BY <1>1 DEF ComposeStages
  <2>3. \A i, j \in DOMAIN s : i < j /\ s[i] \in Copies => s[j] \notin Admission \cup {"measureFirst", "measureSecond"}
    BY <1>1 DEF ComposeStages
  <2>4. \A i, j \in DOMAIN s : i < j /\ s[i] \in Admission => s[j] # "measureFirst"
    BY <1>1 DEF ComposeStages
  <2>5. \E i \in DOMAIN s : s[i] \in Admission
    BY <1>1 DEF ComposeStages
  <2>6. \E i \in DOMAIN s : s[i] = "measureFirst"
    BY <1>1 DEF ComposeStages
  <2>7. \A i, j \in DOMAIN s : i < j /\ s[i] \in Admission => s[j] # "measureSecond"
    BY <1>1 DEF ComposeStages
  <2>8. \E i \in DOMAIN s : s[i] = "measureSecond"
    BY <1>1 DEF ComposeStages
  <2>9. \A i \in DOMAIN s : s[i] # "admitInput"
    BY <1>1 DEF ComposeStages
  <2> QED BY <2>1, <2>2, <2>3, <2>4, <2>5, <2>6, <2>7, <2>8, <2>9
<1>2. ASSUME NEW s, s = DecomposeStages PROVE Good(s, "decompose")
  <2>1. s \in Seq(StageNames)
    BY <1>2 DEF DecomposeStages, StageNames
  <2>2. s # << >> /\ s[Len(s)] = "operate"
    BY <1>2 DEF DecomposeStages
  <2>3. \A i, j \in DOMAIN s : i < j /\ s[i] \in Copies => s[j] \notin Admission \cup {"measureFirst", "measureSecond"}
    BY <1>2 DEF DecomposeStages
  <2>4. \A i, j \in DOMAIN s : i < j /\ s[i] \in Admission => s[j] # "measureFirst"
    BY <1>2 DEF DecomposeStages
  <2>5. \E i \in DOMAIN s : s[i] \in Admission
    BY <1>2 DEF DecomposeStages
  <2>6. \E i \in DOMAIN s : s[i] = "measureFirst"
    BY <1>2 DEF DecomposeStages
  <2> QED BY <2>1, <2>2, <2>3, <2>4, <2>5, <2>6
<1>3. ASSUME NEW s, s = SignStages PROVE Good(s, "sign")
  <2>1. s \in Seq(StageNames)
    BY <1>3 DEF SignStages, StageNames
  <2>2. s # << >> /\ s[Len(s)] = "operate"
    BY <1>3 DEF SignStages
  <2>3. \A i, j \in DOMAIN s : i < j /\ s[i] \in Copies => s[j] \notin Admission \cup {"measureFirst", "measureSecond"}
    BY <1>3 DEF SignStages
  <2>4. \A i, j \in DOMAIN s : i < j /\ s[i] \in Admission => s[j] # "measureFirst"
    BY <1>3 DEF SignStages
  <2>5. \E i \in DOMAIN s : s[i] \in Admission
    BY <1>3 DEF SignStages
  <2>6. \E i \in DOMAIN s : s[i] = "measureFirst"
    BY <1>3 DEF SignStages
  <2> QED BY <2>1, <2>2, <2>3, <2>4, <2>5, <2>6
<1>4. ASSUME NEW s, s = VerifyStages PROVE Good(s, "verify")
  <2>1. s \in Seq(StageNames)
    BY <1>4 DEF VerifyStages, StageNames
  <2>2. s # << >> /\ s[Len(s)] = "operate"
    BY <1>4 DEF VerifyStages
  <2>3. \A i, j \in DOMAIN s : i < j /\ s[i] \in Copies => s[j] \notin Admission \cup {"measureFirst", "measureSecond"}
    BY <1>4 DEF VerifyStages
  <2>4. \A i, j \in DOMAIN s : i < j /\ s[i] \in Admission => s[j] # "measureFirst"
    BY <1>4 DEF VerifyStages
  <2>5. \E i \in DOMAIN s : s[i] \in Admission
    BY <1>4 DEF VerifyStages
  <2>6. \E i \in DOMAIN s : s[i] = "measureFirst"
    BY <1>4 DEF VerifyStages
  <2> QED BY <2>1, <2>2, <2>3, <2>4, <2>5, <2>6
<1> HIDE DEF Good
<1>5. c.op \in Operations
  BY WasmAssumption DEF Operations
<1>6. Good(Stages(c), c.op)
  BY <1>1, <1>2, <1>3, <1>4, <1>5 DEF Stages, Operations
<1> QED BY <1>6 DEF Good

\* What is ahead after a stage that is not the last.
LEMMA Onward ==
    ASSUME NEW s, NEW op, InOrder(s, op), Head(s) # "operate"
    PROVE  /\ InOrder(Tail(s), op) /\ Tail(s) # << >>
           /\ \A stage : In(stage, Tail(s)) => In(stage, s)
           /\ \A stage : In(stage, s) /\ stage # Head(s) => In(stage, Tail(s))
           /\ Head(s) \in Admission => \A o \in Counted(op) : ~In(MeasureOf(o), Tail(s))
           /\ Head(s) \in Copies =>
                \A stage \in Admission \cup {"measureFirst", "measureSecond"} : ~In(stage, Tail(s))
<1>1. s \in Seq(StageNames) /\ s # << >> /\ s[Len(s)] = "operate"
  BY DEF InOrder
<1>2. Head(s) = s[1] /\ Len(s) \in Nat /\ Len(s) > 1
  BY <1>1
<1>3. /\ Tail(s) \in Seq(StageNames) /\ Len(Tail(s)) = Len(s) - 1
      /\ \A i \in 1..(Len(s) - 1) : Tail(s)[i] = s[i + 1]
  BY <1>1, <1>2
<1>4. Tail(s) # << >> /\ Tail(s)[Len(Tail(s))] = "operate"
  <2>1. Len(s) - 1 \in 1..(Len(s) - 1) /\ Len(s) - 1 + 1 = Len(s)
    BY <1>2
  <2>2. Tail(s)[Len(s) - 1] = s[Len(s) - 1 + 1]
    BY <1>3, <2>1
  <2>3. Tail(s)[Len(Tail(s))] = "operate"
    BY <1>1, <1>3, <2>1, <2>2
  <2>4. Len(Tail(s)) # 0
    BY <1>2, <1>3
  <2>5. Len(<< >>) = 0
    OBVIOUS
  <2>6. Tail(s) # << >>
    BY <2>4, <2>5, Zenon
  <2> QED BY <2>3, <2>6
<1>5. DOMAIN s = 1..Len(s) /\ DOMAIN Tail(s) = 1..(Len(s) - 1)
  BY <1>1, <1>3
<1>6. \A i, j \in DOMAIN Tail(s) : i < j =>
         /\ Tail(s)[i] \in Admission => \A o \in Counted(op) : Tail(s)[j] # MeasureOf(o)
         /\ Tail(s)[i] \in Copies => Tail(s)[j] \notin Admission \cup {"measureFirst", "measureSecond"}
  <2> SUFFICES ASSUME NEW i \in DOMAIN Tail(s), NEW j \in DOMAIN Tail(s), i < j
               PROVE  /\ Tail(s)[i] \in Admission => \A o \in Counted(op) : Tail(s)[j] # MeasureOf(o)
                      /\ Tail(s)[i] \in Copies =>
                           Tail(s)[j] \notin Admission \cup {"measureFirst", "measureSecond"}
    OBVIOUS
  <2>1. /\ i + 1 \in DOMAIN s /\ j + 1 \in DOMAIN s /\ i + 1 < j + 1
        /\ Tail(s)[i] = s[i + 1] /\ Tail(s)[j] = s[j + 1]
    BY <1>2, <1>3, <1>5
  <2> QED BY <2>1 DEF InOrder
<1>7. ASSUME NEW stage, In(stage, Tail(s)) PROVE In(stage, s)
  BY <1>2, <1>3, <1>5, <1>7 DEF In
<1>8. ASSUME NEW stage, In(stage, s), stage # Head(s) PROVE In(stage, Tail(s))
  <2>1. PICK i \in 1..Len(s) : s[i] = stage
    BY <1>5, <1>8 DEF In
  <2>2. i - 1 \in 1..(Len(s) - 1) /\ Tail(s)[i - 1] = stage
    BY <1>2, <1>3, <1>8, <2>1
  <2> QED BY <1>5, <2>2 DEF In
<1>9. ASSUME NEW stage, In(stage, Tail(s)) PROVE \E j \in DOMAIN s : 1 < j /\ s[j] = stage
  BY <1>2, <1>3, <1>5, <1>9 DEF In
<1>10. 1 \in DOMAIN s
  BY <1>2, <1>5
<1>11. Head(s) \in Admission => \A o \in Counted(op) : ~In(MeasureOf(o), Tail(s))
  BY <1>2, <1>9, <1>10 DEF InOrder
<1>12. Head(s) \in Copies =>
         \A stage \in Admission \cup {"measureFirst", "measureSecond"} : ~In(stage, Tail(s))
  BY <1>2, <1>9, <1>10 DEF InOrder
<1>13. op = "compose" => \A i \in DOMAIN Tail(s) : Tail(s)[i] # "admitInput"
  BY <1>7 DEF InOrder, In
<1> QED BY <1>3, <1>4, <1>6, <1>7, <1>8, <1>11, <1>12, <1>13 DEF InOrder

-----------------------------------------------------------------------------
(* The parts of the inductive invariant.                                   *)

Measured(o) ==
    /\ views[o].length \in 0..MaxUsize /\ views[o].size \in Nat
    /\ Len(copies[o]) <= views[o].size

BasicInv ==
    /\ attached \subseteq Buffers
    /\ ceiling \in (1..MaxUsize) \cup {Unlimited}
    /\ borrowed \in BOOLEAN
    /\ made \in 0..MaxCalls
    /\ DOMAIN views = Operands /\ DOMAIN copies = Operands
    /\ \A o \in Operands : \E S : copies[o] \in Seq(S)

\* A call in progress follows its list.
StageInv == todo # << >> => call \in Calls /\ InOrder(todo, call.op)

\* Only a call in progress holds the policy object; a signing key is erased.
HeldInv == (todo = << >> => ~borrowed) /\ "signing_key" \notin remains

\* Nothing is copied before it is measured and admitted, and after that its
\* size stands.
CopyInv ==
    /\ \A o \in Operands : views[o] # NotBytes => Measured(o)
    /\ todo # << >> => \A o \in Operands : Ahead(MeasureOf(o)) => copies[o] = << >>
    /\ todo # << >> => \A o \in Counted(call.op) : ~Ahead(MeasureOf(o)) => Measured(o)
    /\ todo # << >> /\ Admitting => \A o \in Operands : copies[o] = << >>

\* What a limited call has admitted is within the ceiling.
AdmittedInv ==
    todo # << >> /\ call.limited /\ ceiling # Unlimited /\ ~Admitting =>
        /\ \A o \in Counted(call.op) : ~Ahead(MeasureOf(o))
        /\ Minimum <= ceiling

Inv == BasicInv /\ StageInv /\ HeldInv /\ CopyInv /\ AdmittedInv

-----------------------------------------------------------------------------
\* The invariant holds at the start.
LEMMA InitInv == Init => Inv
<1> SUFFICES ASSUME Init PROVE Inv
  OBVIOUS
<1> USE DEF Init
<1>1. \A o \in Operands : copies[o] \in Seq({})
  OBVIOUS
<1>2. BasicInv
  <2>1. /\ attached \subseteq Buffers /\ ceiling \in (1..MaxUsize) \cup {Unlimited}
        /\ made \in 0..MaxCalls /\ DOMAIN views = Operands /\ DOMAIN copies = Operands
    BY WasmAssumption
  <2>2. borrowed \in BOOLEAN
    OBVIOUS
  <2> QED BY <1>1, <2>1, <2>2, Zenon DEF BasicInv
<1>3. StageInv /\ HeldInv /\ AdmittedInv
  BY DEF StageInv, HeldInv, AdmittedInv
<1>4. CopyInv
  BY DEF CopyInv
<1> QED BY <1>2, <1>3, <1>4 DEF Inv

\* A step of the script or the worker while no call is in progress.
LEMMA Calling == ASSUME Inv, NEW c \in Calls, Call(c) PROVE Inv'
<1>1. /\ call' = c /\ todo' = Stages(c) /\ made' = made + 1 /\ made < MaxCalls
      /\ borrowed' = c.limited /\ attached' \in {attached, attached \ Module}
      /\ views' = [o \in Operands |-> NotBytes] /\ copies' = [o \in Operands |-> << >>]
      /\ UNCHANGED <<ceiling, remains>>
  BY DEF Call, ModuleGrows
<1>2. /\ InOrder(todo', c.op) /\ todo' # << >>
      /\ \E stage \in Admission : In(stage, todo')
      /\ \A o \in Counted(c.op) : In(MeasureOf(o), todo')
  BY <1>1, ListsInOrder DEF InOrder
<1>3. BasicInv'
  <2>1. \A o \in Operands : copies'[o] \in Seq({})
    BY <1>1
  <2>2. made' \in 0..MaxCalls
    BY <1>1, WasmAssumption DEF Inv, BasicInv
  <2>3. borrowed' \in BOOLEAN
    BY <1>1, WasmAssumption
  <2> QED BY <1>1, <2>1, <2>2, <2>3 DEF Inv, BasicInv
<1>4. StageInv' /\ HeldInv'
  BY <1>1, <1>2 DEF Inv, StageInv, HeldInv
<1>5. CopyInv' /\ AdmittedInv'
  BY <1>1, <1>2 DEF CopyInv, AdmittedInv, Ahead, Admitting
<1> QED BY <1>3, <1>4, <1>5 DEF Inv

LEMMA Outside == ASSUME Inv, Environment PROVE Inv'
<1>1. ASSUME UNCHANGED <<call, todo, views, copies, borrowed, remains, made>>,
             attached' \subseteq Buffers, ceiling' \in (1..MaxUsize) \cup {Unlimited},
             todo = << >> \/ UNCHANGED ceiling
      PROVE  Inv'
  <2>1. BasicInv'
    BY <1>1 DEF Inv, BasicInv
  <2>2. StageInv' /\ HeldInv'
    BY <1>1 DEF Inv, StageInv, HeldInv
  <2>3. CopyInv'
    BY <1>1 DEF Inv, CopyInv, Measured, Ahead, Admitting
  <2>4. AdmittedInv'
    BY <1>1 DEF Inv, AdmittedInv, Minimum, Ahead, Admitting
  <2> QED BY <2>1, <2>2, <2>3, <2>4 DEF Inv
<1>2. attached \subseteq Buffers /\ ceiling \in (1..MaxUsize) \cup {Unlimited}
  BY DEF Inv, BasicInv
<1>3. ASSUME NEW m \in Maxima, Configure(m) PROVE Inv'
  BY <1>1, <1>2, <1>3 DEF Configure, Idle, ValidMaximum
<1>4. CASE WithoutCeiling \/ Keep
  BY <1>1, <1>2, <1>4, WasmAssumption DEF WithoutCeiling, Keep, Idle
<1>5. ASSUME NEW b \in Buffers, Detach(b) \/ Shrink(b) PROVE Inv'
  BY <1>1, <1>2, <1>5 DEF Detach, Shrink
<1>6. ASSUME NEW b \in Shared, NEW octet \in Octets, NEW i, WorkerWrites(b, i, octet) \/ WorkerGrows(b, octet)
      PROVE  Inv'
  BY <1>1, <1>2, <1>6 DEF WorkerWrites, WorkerGrows
<1> QED BY <1>3, <1>4, <1>5, <1>6, Calling DEF Environment

-----------------------------------------------------------------------------
(* The steps of a call.                                                    *)

\* Whatever a call returns, it has let go of everything.
LEMMA Returning ==
    ASSUME Inv, NEW r, Return(r), UNCHANGED <<script, call, copies, made>>,
           \A o \in Operands : views'[o] = views[o], DOMAIN views' = Operands
    PROVE  Inv'
<1>1. todo' = << >> /\ borrowed' = FALSE /\ "signing_key" \notin remains'
  BY DEF Return, Inv, HeldInv
<1>2. BasicInv'
  <2>1. borrowed' \in BOOLEAN
    BY <1>1
  <2> QED BY <2>1, Zenon DEF Inv, BasicInv, script
<1>3. StageInv' /\ HeldInv' /\ AdmittedInv'
  BY <1>1 DEF StageInv, HeldInv, AdmittedInv
<1>4. CopyInv'
  BY <1>1 DEF Inv, CopyInv, Measured
<1> QED BY <1>2, <1>3, <1>4 DEF Inv

\* What is known of a call after any of its stages but the last.
LEMMA Advancing ==
    ASSUME Inv, todo # << >>, Head(todo) # "operate", Advance, UNCHANGED <<call, ceiling, made>>,
           attached' \subseteq Buffers
    PROVE  /\ StageInv' /\ HeldInv' /\ todo' # << >>
           /\ \A stage : Ahead(stage)' => Ahead(stage)
           /\ \A stage : Ahead(stage) /\ stage # Head(todo) => Ahead(stage)'
           /\ Head(todo) \in Admission => \A o \in Counted(call.op) : ~Ahead(MeasureOf(o))'
           /\ Head(todo) \in Copies =>
                \A stage \in Admission \cup {"measureFirst", "measureSecond"} : ~Ahead(stage)'
<1>1. todo' = Tail(todo) /\ UNCHANGED <<borrowed, remains>>
  BY DEF Advance
<1>2. call \in Calls /\ InOrder(todo, call.op)
  BY DEF Inv, StageInv
<1>3. /\ InOrder(todo', call.op) /\ todo' # << >>
      /\ \A stage : In(stage, todo') => In(stage, todo)
      /\ \A stage : In(stage, todo) /\ stage # Head(todo) => In(stage, todo')
      /\ Head(todo) \in Admission => \A o \in Counted(call.op) : ~In(MeasureOf(o), todo')
      /\ Head(todo) \in Copies =>
           \A stage \in Admission \cup {"measureFirst", "measureSecond"} : ~In(stage, todo')
  BY <1>1, <1>2, Onward, Zenon
<1>4. StageInv' /\ HeldInv'
  BY <1>1, <1>2, <1>3 DEF StageInv, HeldInv, Inv
<1> QED BY <1>3, <1>4 DEF Ahead

\* A stage that neither measures nor admits nor copies.
LEMMA Passing ==
    ASSUME Inv, todo # << >>, Advance, UNCHANGED <<call, ceiling, made, views, copies>>,
           attached' \subseteq Buffers,
           Head(todo) \notin {"operate", "measureFirst", "measureSecond"} \cup Admission
    PROVE  Inv'
<1>1. /\ StageInv' /\ HeldInv' /\ todo' # << >>
      /\ \A stage : Ahead(stage)' => Ahead(stage)
      /\ \A stage : Ahead(stage) /\ stage # Head(todo) => Ahead(stage)'
  BY Advancing
<1>2. \A o \in Operands : MeasureOf(o) # Head(todo)
  BY DEF MeasureOf
<1>3. Admitting' <=> Admitting
  BY <1>1 DEF Admitting
<1>4. Counted(call.op) \subseteq Operands
  BY DEF Counted, Operands
<1>5. CopyInv'
  BY <1>1, <1>2, <1>3, <1>4 DEF Inv, CopyInv, Measured
<1>6. AdmittedInv'
  BY <1>1, <1>3 DEF Inv, AdmittedInv, Minimum
<1>7. BasicInv'
  BY Zenon DEF Inv, BasicInv, Advance
<1> QED BY <1>1, <1>5, <1>6, <1>7 DEF Inv

\* A check that is no admission passes on, or ends the call.
LEMMA Checking ==
    ASSUME Inv, NEW stage, NEW passes, NEW failure, Check(stage, passes, failure),
           stage \notin {"operate", "measureFirst", "measureSecond"} \cup Admission
    PROVE  Inv'
<1>1. /\ todo # << >> /\ Head(todo) = stage /\ UNCHANGED <<script, call, views, copies, made>>
      /\ Advance \/ Return(failure)
  BY DEF Check, At
<1>2. UNCHANGED <<ceiling, attached>> /\ attached \subseteq Buffers /\ DOMAIN views = Operands
  BY <1>1 DEF script, Inv, BasicInv
<1> QED BY <1>1, <1>2, Passing, Returning

\* An admission that passes bounds the sizes.
LEMMA AdmissionPasses ==
    ASSUME Inv, NEW stage \in Admission, NEW passes, NEW failure, Check(stage, passes, failure),
           passes /\ call.limited => ~Exceeds(Minimum)
    PROVE  Inv'
<1>1. /\ todo # << >> /\ Head(todo) = stage /\ UNCHANGED <<script, call, views, copies, made>>
      /\ (passes /\ Advance) \/ Return(failure)
  BY DEF Check, At
<1>2. UNCHANGED <<ceiling, attached>> /\ attached \subseteq Buffers /\ DOMAIN views = Operands
  BY <1>1 DEF script, Inv, BasicInv
<1>3. CASE Return(failure)
  BY <1>1, <1>2, <1>3, Returning
<1>4. CASE passes /\ Advance
  <2>1. /\ StageInv' /\ HeldInv' /\ todo' # << >>
        /\ \A s : Ahead(s)' => Ahead(s)
        /\ \A s : Ahead(s) /\ s # stage => Ahead(s)'
        /\ \A o \in Counted(call.op) : ~Ahead(MeasureOf(o))'
    BY <1>1, <1>2, <1>4, Advancing DEF Admission
  <2>2. Ahead(stage) /\ Admitting
    BY <1>1 DEF Ahead, In, Admitting, Inv, StageInv, InOrder
  <2>3. \A o \in Operands : MeasureOf(o) # stage
    BY DEF MeasureOf, Admission
  <2>4. \A o \in Operands : copies[o] = << >>
    BY <1>1, <2>2 DEF Inv, CopyInv
  <2>5. Counted(call.op) \subseteq Operands /\ "first" \in Counted(call.op)
    BY DEF Counted, Operands
  <2>6. \A o \in Counted(call.op) : Measured(o)
    BY <1>1, <2>1, <2>3, <2>5 DEF Inv, CopyInv
  <2>7. CopyInv'
    BY <1>1, <2>1, <2>4, <2>5, <2>6 DEF Inv, CopyInv, Measured
  <2>8. Minimum \in Nat
    BY <2>5, <2>6 DEF Minimum, Measured, Counted, Operands
  <2>9. call.limited /\ ceiling # Unlimited => Minimum <= ceiling
    BY <1>4, <2>8, WasmAssumption DEF Exceeds, Inv, BasicInv
  <2>10. AdmittedInv'
    BY <1>1, <1>2, <2>1, <2>9 DEF AdmittedInv, Minimum
  <2>11. BasicInv'
    BY <1>1, <1>4, Zenon DEF Inv, BasicInv, Advance, script
  <2> QED BY <2>1, <2>7, <2>10, <2>11 DEF Inv
<1> QED BY <1>1, <1>3, <1>4

LEMMA Admitted == ASSUME Inv, AdmitInput \/ AdmitOutput PROVE Inv'
<1>1. CASE AdmitOutput
  <2> DEFINE passes == call.limited => ~TooLong(Minimum)
  <2>1. PICK failure : Check("admitOutput", passes, failure)
    BY <1>1 DEF AdmitOutput
  <2>2. passes /\ call.limited => ~Exceeds(Minimum)
    BY DEF TooLong
  <2> HIDE DEF passes
  <2> QED BY <2>1, <2>2, AdmissionPasses DEF Admission
<1>2. CASE AdmitInput
  <2> DEFINE passes == call.limited => ~Exceeds(views.first.size)
  <2>1. PICK failure : Check("admitInput", passes, failure)
    BY <1>2 DEF AdmitInput
  <2>2. todo # << >> /\ Head(todo) = "admitInput"
    BY <2>1 DEF Check, At
  <2>3. call.op # "compose"
    BY <2>2 DEF Inv, StageInv, InOrder
  <2>4. passes /\ call.limited => ~Exceeds(Minimum)
    BY <2>3 DEF Minimum
  <2> HIDE DEF passes
  <2> QED BY <2>1, <2>4, AdmissionPasses DEF Admission
<1> QED BY <1>1, <1>2

\* Measuring fixes the length and the size of a view.
LEMMA Measuring ==
    ASSUME Inv, NEW o \in Operands, Measure(MeasureOf(o), o)
    PROVE  Inv'
<1>1. /\ todo # << >> /\ Head(todo) = MeasureOf(o) /\ UNCHANGED <<script, call, copies, made>>
      /\ \/ Measurable(call[o]) /\ Advance /\ views' = [views EXCEPT ![o] = Fixed(call[o])]
         \/ Return(InvalidByteInput) /\ UNCHANGED views
  BY DEF Measure, At
<1>2. UNCHANGED <<ceiling, attached>> /\ attached \subseteq Buffers /\ DOMAIN views = Operands
  BY <1>1 DEF script, Inv, BasicInv
<1>3. CASE Return(InvalidByteInput) /\ UNCHANGED views
  BY <1>1, <1>2, <1>3, Returning
<1>4. CASE Measurable(call[o]) /\ Advance /\ views' = [views EXCEPT ![o] = Fixed(call[o])]
  <2>1. /\ StageInv' /\ HeldInv' /\ todo' # << >>
        /\ \A s : Ahead(s)' => Ahead(s)
        /\ \A s : Ahead(s) /\ s # MeasureOf(o) => Ahead(s)'
    BY <1>1, <1>2, <1>4, Advancing DEF MeasureOf
  <2>2. Ahead(MeasureOf(o))
    BY <1>1 DEF Ahead, In, Inv, StageInv, InOrder
  <2>3. copies[o] = << >> /\ Len(copies[o]) = 0
    BY <1>1, <2>2 DEF Inv, CopyInv
  <2>4. Length(call[o]) \in 0..MaxUsize
    BY <1>4 DEF Measurable
  <2>5. /\ views'[o].length \in 0..MaxUsize /\ views'[o].size \in Nat
        /\ \A p \in Operands : p # o => views'[p] = views[p]
    BY <1>2, <1>4, <2>4, WasmAssumption DEF Fixed
  <2>6. Measured(o)'
    BY <1>1, <2>3, <2>5 DEF Measured
  <2>7. \A p \in Operands : p # o => MeasureOf(p) # MeasureOf(o)
    BY DEF MeasureOf, Operands
  <2>8. Admitting' <=> Admitting
    BY <2>1 DEF Admitting, Admission, MeasureOf
  <2>9. Counted(call.op) \subseteq Operands
    BY DEF Counted, Operands
  <2>10. CopyInv'
    BY <1>1, <2>1, <2>5, <2>6, <2>7, <2>8, <2>9 DEF Inv, CopyInv, Measured
  <2>11. AdmittedInv'
    <3>1. CASE o \in Counted(call.op)
      BY <1>1, <1>2, <2>2, <2>8, <3>1 DEF Inv, AdmittedInv
    <3>2. CASE o \notin Counted(call.op)
      <4>1. Minimum' = Minimum
        BY <1>1, <2>5, <3>2 DEF Minimum, Counted, Operands
      <4> QED BY <1>1, <1>2, <2>1, <2>8, <4>1 DEF Inv, AdmittedInv
    <3> QED BY <3>1, <3>2
  <2>12. BasicInv'
    BY <1>1, <1>2, <1>4, Zenon DEF Inv, BasicInv, Advance, script
  <2> QED BY <2>1, <2>10, <2>11, <2>12 DEF Inv
<1> QED BY <1>1, <1>3, <1>4

\* A copy never grows beyond what was measured.
LEMMA Copying ==
    ASSUME Inv, NEW stage \in Copies, NEW o \in Operands, Copy(stage, o)
    PROVE  Inv'
<1>1. /\ todo # << >> /\ Head(todo) = stage /\ UNCHANGED <<script, call, views, made>>
      /\ \/ /\ Len(copies[o]) < views[o].size
            /\ \E x : copies' = [copies EXCEPT ![o] = Append(@, x)]
            /\ UNCHANGED <<todo, borrowed, remains, result, signed>>
         \/ Advance /\ UNCHANGED copies
  BY DEF Copy, At
<1>2. UNCHANGED <<ceiling, attached>> /\ attached \subseteq Buffers
  BY <1>1 DEF script, Inv, BasicInv
<1>3. CASE Advance /\ UNCHANGED copies
  BY <1>1, <1>2, <1>3, Passing DEF Copies, Admission
<1>4. ASSUME Len(copies[o]) < views[o].size, NEW x, copies' = [copies EXCEPT ![o] = Append(@, x)],
             UNCHANGED <<todo, borrowed, remains>>
      PROVE  Inv'
  <2>1. Ahead(stage) /\ ~Admitting /\ \A p \in Operands : ~Ahead(MeasureOf(p))
    <3>1. InOrder(todo, call.op)
      BY <1>1 DEF Inv, StageInv
    <3>2. \A s \in Admission \cup {"measureFirst", "measureSecond"} : ~In(s, Tail(todo))
      BY <1>1, <3>1, Onward DEF Copies
    <3>3. \A s \in Admission \cup {"measureFirst", "measureSecond"} : s # Head(todo) /\ ~In(s, todo)
      BY <1>1, <3>1, <3>2, Onward DEF Copies, Admission
    <3>4. In(stage, todo)
      BY <1>1, <3>1 DEF In, InOrder
    <3> QED BY <3>3, <3>4 DEF Ahead, Admitting, MeasureOf
  <2>2. PICK S : copies[o] \in Seq(S)
    BY DEF Inv, BasicInv
  <2>3. copies'[o] = Append(copies[o], x) /\ \A p \in Operands : p # o => copies'[p] = copies[p]
    BY <1>4 DEF Inv, BasicInv
  <2>4. copies[o] \in Seq(S \cup {x})
    BY <2>2
  <2>5. copies'[o] \in Seq(S \cup {x}) /\ Len(copies'[o]) = Len(copies[o]) + 1 /\ Len(copies[o]) \in Nat
    BY <2>3, <2>4
  <2>6. Measured(o) => Measured(o)'
    BY <1>1, <1>4, <2>5 DEF Measured
  <2>7. \A p \in Operands : p # o => (Measured(p) => Measured(p)')
    BY <1>1, <2>3 DEF Measured
  <2>8. Counted(call.op) \subseteq Operands
    BY DEF Counted, Operands
  <2>9. CopyInv'
    BY <1>1, <1>4, <2>1, <2>6, <2>7, <2>8 DEF Inv, CopyInv, Ahead, Admitting
  <2>10. AdmittedInv'
    BY <1>1, <1>2, <1>4 DEF Inv, AdmittedInv, Minimum, Ahead, Admitting
  <2>11. StageInv' /\ HeldInv'
    BY <1>1, <1>4 DEF Inv, StageInv, HeldInv
  <2>12. BasicInv'
    <3>1. \A p \in Operands : \E T : copies'[p] \in Seq(T)
      BY <2>3, <2>5 DEF Inv, BasicInv
    <3>2. DOMAIN copies' = Operands /\ UNCHANGED <<attached, ceiling, borrowed, made, views>>
      BY <1>1, <1>4 DEF Inv, BasicInv, script
    <3> QED BY <3>1, <3>2, Zenon DEF Inv, BasicInv
  <2> QED BY <2>9, <2>10, <2>11, <2>12 DEF Inv
<1> QED BY <1>1, <1>3, <1>4

\* Every stage keeps the invariant.
LEMMA InvStep == Inv /\ [Next]_vars => Inv'
<1> SUFFICES ASSUME Inv, [Next]_vars PROVE Inv'
  OBVIOUS
<1>1. CASE UNCHANGED vars
  <2>1. UNCHANGED <<call, todo, views, copies, borrowed, remains, made, attached, ceiling>>
    BY <1>1 DEF vars, script
  <2> QED BY <2>1 DEF Inv, BasicInv, StageInv, HeldInv, CopyInv, AdmittedInv, Measured, Minimum,
                      Ahead, Admitting
<1>2. CASE \/ CheckForm \/ CheckOuter \/ CheckAlgorithm \/ CheckKeyid \/ CheckSigningKeyLength
           \/ CheckVerifyingKeyLength \/ ParseSigningKey \/ ResolveKey \/ Schema
  BY <1>2, Checking DEF CheckForm, CheckOuter, CheckAlgorithm, CheckKeyid, CheckSigningKeyLength,
     CheckVerifyingKeyLength, ParseSigningKey, ResolveKey, Schema, Admission
<1>3. CASE Measure("measureFirst", "first") \/ Measure("measureSecond", "second")
  BY <1>3, Measuring DEF MeasureOf, Operands
<1>4. ASSUME NEW stage \in {"allocateFirst", "allocateSecond"}, Allocate(stage) PROVE Inv'
  <2>1. /\ todo # << >> /\ Head(todo) = stage /\ Advance
        /\ UNCHANGED <<ceiling, call, views, copies, made>> /\ attached' \subseteq Buffers
    BY <1>4 DEF Allocate, At, ModuleGrows, Inv, BasicInv
  <2> QED BY <2>1, Passing DEF Admission
<1>5. CASE Copy("copyFirst", "first") \/ Copy("copySecond", "second")
  BY <1>5, Copying DEF Copies, Operands
<1>6. ASSUME NEW r, Return(r), UNCHANGED <<script, call, views, copies, made, changes>> PROVE Inv'
  BY <1>6, Returning DEF Inv, BasicInv
<1>7. CASE CopyFails("copyFirst", "first") \/ CopyFails("copySecond", "second") \/ Operate
  BY <1>6, <1>7 DEF CopyFails, Operate
<1> QED BY <1>1, <1>2, <1>3, <1>4, <1>5, <1>7, Outside, Admitted DEF Next, Binding

-----------------------------------------------------------------------------
(* The theorems.                                                           *)

\* Every reachable state satisfies the invariant.
LEMMA Always == Spec => []Inv
  BY InitInv, InvStep, PTL DEF Spec

\* Types; no copy outgrows the length its view was measured at, whatever a
\* worker does to the buffer meanwhile (ByteInput).
THEOREM TypeCorrect == Spec => []TypeOK
<1>1. Inv => TypeOK
  BY DEF Inv, BasicInv, CopyInv, Measured, TypeOK
<1> QED BY <1>1, Always, PTL

LEMMA SumBound ==
    ASSUME NEW a \in Nat, NEW b \in Nat, NEW m \in Nat, NEW n \in Nat, NEW k \in Nat,
           a <= m, b <= n, m + n <= k
    PROVE  a + b <= k
  OBVIOUS

\* Under a ceiling nothing above it is copied into the module, for any call,
\* buffer and schedule of the worker (with_admitted_input, with_admitted_output).
THEOREM CopiesAreAdmitted == Spec => []OnlyAdmittedOctets
<1>1. Inv => OnlyAdmittedOctets
  <2> SUFFICES ASSUME Inv, call.limited, ceiling # Unlimited, todo # << >> PROVE Copied <= ceiling
    BY DEF OnlyAdmittedOctets
  <2>1. ceiling \in Nat
    BY WasmAssumption DEF Inv, BasicInv
  <2>2. CASE Admitting
    <3>1. copies.first = << >> /\ copies.second = << >> /\ Len(<< >>) = 0
      BY <2>2 DEF Inv, CopyInv, Operands
    <3>2. Copied = 0
      BY <3>1 DEF Copied
    <3> QED BY <2>1, <3>2
  <2>3. CASE ~Admitting
    <3>1. \A o \in Counted(call.op) : Measured(o)
      BY <2>3 DEF Inv, AdmittedInv, CopyInv
    <3>2. Minimum <= ceiling
      BY <2>3 DEF Inv, AdmittedInv
    <3>3. \A o \in Operands : Len(copies[o]) \in Nat
      BY DEF Inv, BasicInv
    <3>4. CASE call.op = "compose"
      <4>1. Measured("first") /\ Measured("second") /\ Len(copies.first) \in Nat /\ Len(copies.second) \in Nat
        BY <3>1, <3>3, <3>4 DEF Counted, Operands
      <4>2. /\ Len(copies.first) <= views.first.size /\ views.first.size \in Nat
            /\ Len(copies.second) <= views.second.size /\ views.second.size \in Nat
        BY <4>1, Zenon DEF Measured
      <4>3. /\ Minimum = views.first.size + views.second.size
            /\ Copied = Len(copies.first) + Len(copies.second)
        BY <3>4 DEF Minimum, Copied
      <4> QED BY <2>1, <3>2, <4>1, <4>2, <4>3, SumBound, Zenon
    <3>5. CASE call.op # "compose"
      <4>1. Measured("first") /\ Len(copies.first) \in Nat
        BY <3>1, <3>3, <3>5 DEF Counted, Operands
      <4> QED BY <2>1, <3>2, <3>5, <4>1 DEF Minimum, Copied, Measured
    <3> QED BY <3>4, <3>5
  <2> QED BY <2>2, <2>3
<1> QED BY <1>1, Always, PTL

\* Every return, by whatever path, drops the borrow of the policy object and
\* leaves no octet of a signing key behind (ArtifactResourceLimits, to_secret_vec).
THEOREM ReturnsRelease == Spec => []NothingHeld
<1>1. Inv => NothingHeld
  BY DEF Inv, HeldInv, NothingHeld, Idle
<1> QED BY <1>1, Always, PTL

-----------------------------------------------------------------------------
(* Octets in sequences.                                                    *)

LEMMA OctetsIn ==
    ASSUME NEW S, NEW s \in Seq(S)
    PROVE  IsOctets(s) /\ OctetsOf(s) \subseteq S
<1>1. Len(s) \in Nat /\ DOMAIN s = 1..Len(s) /\ \A i \in DOMAIN s : s[i] \in S
  OBVIOUS
<1>2. s \in [1..Len(s) -> OctetsOf(s)]
  <2>1. s = [i \in 1..Len(s) |-> s[i]]
    OBVIOUS
  <2>2. \A i \in 1..Len(s) : s[i] \in OctetsOf(s)
    BY <1>1 DEF OctetsOf
  <2> QED BY <2>1, <2>2
<1>3. s \in Seq(OctetsOf(s))
  BY <1>1, <1>2
<1> QED BY <1>1, <1>3 DEF IsOctets, OctetsOf

LEMMA Reading ==
    ASSUME NEW s, IsOctets(s)
    PROVE  /\ Len(s) \in Nat /\ DOMAIN s = 1..Len(s)
           /\ \A i \in 1..Len(s) : s[i] \in OctetsOf(s)
<1>1. s \in Seq(OctetsOf(s))
  BY DEF IsOctets
<1> QED BY <1>1

LEMMA NoOctets == IsOctets(<< >>) /\ OctetsOf(<< >>) = {}
<1>1. << >> \in Seq({})
  OBVIOUS
<1>2. OctetsOf(<< >>) = {}
  BY DEF OctetsOf
<1> QED BY <1>1, <1>2 DEF IsOctets

LEMMA Appending ==
    ASSUME NEW s, IsOctets(s), NEW x
    PROVE  /\ IsOctets(Append(s, x)) /\ OctetsOf(Append(s, x)) \subseteq OctetsOf(s) \cup {x}
           /\ Len(Append(s, x)) = Len(s) + 1
           /\ \A i \in 1..Len(s) : Append(s, x)[i] = s[i]
           /\ Append(s, x)[Len(s) + 1] = x
<1>1. s \in Seq(OctetsOf(s) \cup {x})
  BY DEF IsOctets
<1>2. Append(s, x) \in Seq(OctetsOf(s) \cup {x})
  BY <1>1
<1>3. IsOctets(Append(s, x)) /\ OctetsOf(Append(s, x)) \subseteq OctetsOf(s) \cup {x}
  BY <1>2, OctetsIn, Zenon
<1> QED BY <1>1, <1>3

LEMMA Shrinking ==
    ASSUME NEW s, IsOctets(s), s # << >>
    PROVE  LET t == SubSeq(s, 1, Len(s) - 1) IN IsOctets(t) /\ OctetsOf(t) \subseteq OctetsOf(s)
<1>1. s \in Seq(OctetsOf(s)) /\ Len(s) \in Nat /\ Len(s) > 0
  BY DEF IsOctets
<1>2. SubSeq(s, 1, Len(s) - 1) \in Seq(OctetsOf(s))
  BY <1>1
<1> QED BY <1>2, OctetsIn

LEMMA Overwriting ==
    ASSUME NEW s, IsOctets(s), NEW i \in DOMAIN s, NEW x
    PROVE  LET t == [s EXCEPT ![i] = x] IN
             IsOctets(t) /\ OctetsOf(t) \subseteq OctetsOf(s) \cup {x} /\ Len(t) = Len(s)
<1>1. s \in Seq(OctetsOf(s) \cup {x})
  BY DEF IsOctets
<1>2. [s EXCEPT ![i] = x] \in Seq(OctetsOf(s) \cup {x}) /\ Len([s EXCEPT ![i] = x]) = Len(s)
  BY <1>1
<1> QED BY <1>2, OctetsIn

-----------------------------------------------------------------------------
(* Every signature there is was made by somebody.                          *)

\* The Rust operations keep what the boundary asks of them, whatever octets they read.
SoundCore ==
    \A copied :
        copied = [o \in Operands |-> copied[o]] /\ (\A o \in Operands : IsOctets(copied[o]))
          => CoreKeeps(copied)

Vouched(x) == \A g \in Attested(x) : WasSigned(g.payload, g.algorithm, g.key)
Clean(s) == IsOctets(s) /\ \A x \in OctetsOf(s) : Vouched(x)

TruthInv ==
    /\ DOMAIN memory = Buffers /\ \A b \in Buffers : Clean(memory[b])
    /\ \A o \in Operands : Clean(copies[o])
    /\ result.output # << >> => Clean(result.output[1])
    /\ todo # << >> => result = Nothing
    /\ VerifiedIsSigned

LEMMA WorldIsSigned ==
    /\ \A b \in Buffers : \A s \in Contents(b) : Clean(s)
    /\ \A x \in Octets : Vouched(x)
<1>1. ASSUME NEW b \in Buffers, NEW s \in Contents(b) PROVE Clean(s)
  <2>1. IsOctets(s)
    BY WasmAssumption
  <2>2. \A x \in OctetsOf(s) : x \in UNION {OctetsOf(t) : t \in UNION {Contents(d) : d \in Buffers}}
    OBVIOUS
  <2>3. \A x \in OctetsOf(s) : \A g \in Attested(x) : Signed(g.payload, g.algorithm, g.key)
    BY <2>2, WasmAssumption
  <2> QED BY <2>1, <2>3 DEF Clean, Vouched, WasSigned
<1>2. \A x \in Octets : Vouched(x)
  BY WasmAssumption DEF Vouched, WasSigned
<1> QED BY <1>1, <1>2

LEMMA CleanIn ==
    ASSUME NEW s, IsOctets(s), NEW S, OctetsOf(s) \subseteq S, \A x \in S : Vouched(x)
    PROVE  Clean(s)
  BY DEF Clean

LEMMA CleanEmpty == Clean(<< >>)
  BY NoOctets DEF Clean

LEMMA SignedStays ==
    ASSUME signed \subseteq signed'
    PROVE  /\ \A p, a, k : WasSigned(p, a, k) => WasSigned(p, a, k)'
           /\ \A x : Vouched(x) => Vouched(x)'
           /\ \A s : Clean(s) => Clean(s)'
<1>1. ASSUME NEW p, NEW a, NEW k, WasSigned(p, a, k) PROVE WasSigned(p, a, k)'
  BY <1>1 DEF WasSigned
<1>2. ASSUME NEW x, Vouched(x) PROVE Vouched(x)'
  BY <1>1, <1>2 DEF Vouched
<1>3. ASSUME NEW s, Clean(s) PROVE Clean(s)'
  BY <1>2, <1>3 DEF Clean
<1> QED BY <1>1, <1>2, <1>3

LEMMA TruthInit == Init => TruthInv
<1> SUFFICES ASSUME Init PROVE TruthInv
  OBVIOUS
<1>1. DOMAIN memory = Buffers /\ \A b \in Buffers : Clean(memory[b])
  BY WorldIsSigned DEF Init
<1>2. \A o \in Operands : Clean(copies[o])
  BY CleanEmpty DEF Init
<1>3. result = Nothing
  BY DEF Init
<1> QED BY <1>1, <1>2, <1>3 DEF TruthInv, VerifiedIsSigned, Nothing, Failure

\* A step that only touches the memory.
LEMMA TruthInMemory ==
    ASSUME TruthInv, UNCHANGED <<copies, result, todo, signed, call>>,
           DOMAIN memory' = Buffers, \A b \in Buffers : Clean(memory'[b])
    PROVE  TruthInv'
<1>1. \A s : Clean(s) => Clean(s)'
  BY SignedStays
<1>2. VerifiedIsSigned'
  BY DEF TruthInv, VerifiedIsSigned, WasSigned
<1> QED BY <1>1, <1>2 DEF TruthInv

LEMMA TruthOutside == ASSUME TruthInv, Environment PROVE TruthInv'
<1>1. DOMAIN memory = Buffers /\ \A b \in Buffers : Clean(memory[b])
  BY DEF TruthInv
<1>2. ASSUME NEW c \in Calls, Call(c) PROVE TruthInv'
  <2>1. UNCHANGED <<memory, signed>> /\ result' = Nothing /\ copies' = [o \in Operands |-> << >>]
    BY <1>2 DEF Call
  <2>2. \A s : Clean(s) => Clean(s)'
    BY <2>1, SignedStays
  <2>3. Clean(<< >>)'
    BY <2>2, CleanEmpty, Zenon
  <2>4. \A o \in Operands : copies'[o] = << >>
    BY <2>1
  <2>5. \A o \in Operands : Clean(copies[o])'
    BY <2>3, <2>4, Zenon
  <2>6. result'.output = << >> /\ result'.status = "none"
    BY <2>1 DEF Nothing, Failure
  <2>7. \A b \in Buffers : Clean(memory[b])'
    BY <1>1, <2>1, <2>2
  <2> QED BY <1>1, <2>1, <2>5, <2>6, <2>7 DEF TruthInv, VerifiedIsSigned
<1>3. ASSUME NEW m \in Maxima, Configure(m) PROVE TruthInv'
  BY <1>1, <1>3, TruthInMemory DEF Configure
<1>4. CASE WithoutCeiling
  BY <1>1, <1>4, TruthInMemory DEF WithoutCeiling
<1>5. CASE Keep
  <2>1. Fresh \in Buffers
    BY WasmAssumption
  <2>2. Clean(IF result.output = << >> THEN << >> ELSE result.output[1])
    BY CleanEmpty DEF TruthInv
  <2>3. memory' = [memory EXCEPT ![Fresh] = IF result.output = << >> THEN << >> ELSE result.output[1]]
    BY <1>5 DEF Keep
  <2>4. DOMAIN memory' = Buffers /\ \A b \in Buffers : Clean(memory'[b])
    BY <1>1, <2>1, <2>2, <2>3
  <2> QED BY <1>5, <2>4, TruthInMemory DEF Keep
<1>6. ASSUME NEW b \in Buffers, Detach(b) PROVE TruthInv'
  BY <1>1, <1>6, TruthInMemory DEF Detach
<1>7. ASSUME NEW b \in Buffers, Shrink(b) PROVE TruthInv'
  <2>1. Clean(SubSeq(memory[b], 1, Len(memory[b]) - 1))
    BY <1>1, <1>7, Shrinking DEF Shrink, Clean
  <2>2. memory' = [memory EXCEPT ![b] = SubSeq(memory[b], 1, Len(memory[b]) - 1)]
    BY <1>7 DEF Shrink
  <2>3. DOMAIN memory' = Buffers /\ \A d \in Buffers : Clean(memory'[d])
    BY <1>1, <2>1, <2>2
  <2> QED BY <1>7, <2>3, TruthInMemory DEF Shrink
<1>8. ASSUME NEW b \in Shared, NEW octet \in Octets, NEW i \in DOMAIN memory[b], WorkerWrites(b, i, octet)
      PROVE  TruthInv'
  <2>1. b \in Buffers /\ Vouched(octet)
    BY WasmAssumption, WorldIsSigned
  <2> DEFINE t == [memory[b] EXCEPT ![i] = octet]
  <2>5. Clean(memory[b])
    BY <1>1, <2>1
  <2>6. IsOctets(t) /\ OctetsOf(t) \subseteq OctetsOf(memory[b]) \cup {octet}
    BY <2>5, Overwriting DEF Clean
  <2>2. Clean(t)
    BY <2>1, <2>5, <2>6, Zenon DEF Clean
  <2>3. memory' = [memory EXCEPT ![b] = [memory[b] EXCEPT ![i] = octet]]
    BY <1>8 DEF WorkerWrites
  <2>4. DOMAIN memory' = Buffers /\ \A d \in Buffers : Clean(memory'[d])
    BY <1>1, <2>1, <2>2, <2>3
  <2> QED BY <1>8, <2>4, TruthInMemory DEF WorkerWrites
<1>9. ASSUME NEW b \in Shared, NEW octet \in Octets, WorkerGrows(b, octet) PROVE TruthInv'
  <2>1. b \in Buffers /\ Vouched(octet)
    BY WasmAssumption, WorldIsSigned
  <2>2. Clean(Append(memory[b], octet))
    BY <1>1, <2>1, Appending DEF Clean
  <2>3. memory' = [memory EXCEPT ![b] = Append(memory[b], octet)]
    BY <1>9 DEF WorkerGrows
  <2>4. DOMAIN memory' = Buffers /\ \A d \in Buffers : Clean(memory'[d])
    BY <1>1, <2>1, <2>2, <2>3
  <2> QED BY <1>9, <2>4, TruthInMemory DEF WorkerGrows
<1> QED BY <1>2, <1>3, <1>4, <1>5, <1>6, <1>7, <1>8, <1>9 DEF Environment

-----------------------------------------------------------------------------
(* What a call knows of the operands it takes.                             *)

CopyOf(o) == IF o = "first" THEN "copyFirst" ELSE "copySecond"
Taken(op) == IF op = "decompose" THEN {"first"} ELSE Operands

Tidy(s, op) ==
    /\ \A i \in DOMAIN s : s[i] = "operate" => i = Len(s)
    /\ op = "decompose" => ~In("measureSecond", s) /\ ~In("copySecond", s)
    /\ In("admitOutput", s) => op \in Framing
    /\ In("admitInput", s) => op \notin Framing

LEMMA ListsTidy ==
    ASSUME NEW c \in Calls
    PROVE  /\ Tidy(Stages(c), c.op)
           /\ \A o \in Taken(c.op) : In(MeasureOf(o), Stages(c)) /\ In(CopyOf(o), Stages(c))
<1> DEFINE Good(s, op) ==
              /\ Tidy(s, op)
              /\ \A o \in Taken(op) : In(MeasureOf(o), s) /\ In(CopyOf(o), s)
<1> USE DEF Tidy, Taken, MeasureOf, CopyOf, Operands, In, Framing
<1>1. ASSUME NEW s, s = ComposeStages PROVE Good(s, "compose")
  <2>1. Len(s) = 9 /\ \A i \in DOMAIN s : s[i] = "operate" => i = 9
    BY <1>1 DEF ComposeStages
  <2>2. \A i \in DOMAIN s : s[i] # "admitInput"
    BY <1>1 DEF ComposeStages
  <2>3. 2 \in DOMAIN s /\ 3 \in DOMAIN s /\ 6 \in DOMAIN s /\ 8 \in DOMAIN s
    BY <1>1 DEF ComposeStages
  <2>4. s[2] = "measureFirst" /\ s[3] = "measureSecond" /\ s[6] = "copyFirst" /\ s[8] = "copySecond"
    BY <1>1 DEF ComposeStages
  <2> QED BY <2>1, <2>2, <2>3, <2>4
<1>2. ASSUME NEW s, s = DecomposeStages PROVE Good(s, "decompose")
  <2>1. Len(s) = 7 /\ \A i \in DOMAIN s : s[i] = "operate" => i = 7
    BY <1>2 DEF DecomposeStages
  <2>2. \A i \in DOMAIN s : s[i] \notin {"admitOutput", "measureSecond", "copySecond"}
    BY <1>2 DEF DecomposeStages
  <2>3. 1 \in DOMAIN s /\ 6 \in DOMAIN s /\ s[1] = "measureFirst" /\ s[6] = "copyFirst"
    BY <1>2 DEF DecomposeStages
  <2> QED BY <2>1, <2>2, <2>3
<1>3. ASSUME NEW s, s = SignStages PROVE Good(s, "sign")
  <2>1. Len(s) = 13 /\ \A i \in DOMAIN s : s[i] = "operate" => i = 13
    BY <1>3 DEF SignStages
  <2>2. \A i \in DOMAIN s : s[i] # "admitInput"
    BY <1>3 DEF SignStages
  <2>3. 3 \in DOMAIN s /\ 6 \in DOMAIN s /\ 9 \in DOMAIN s /\ 11 \in DOMAIN s
    BY <1>3 DEF SignStages
  <2>4. s[6] = "measureFirst" /\ s[3] = "measureSecond" /\ s[9] = "copyFirst" /\ s[11] = "copySecond"
    BY <1>3 DEF SignStages
  <2> QED BY <2>1, <2>2, <2>3, <2>4
<1>4. ASSUME NEW s, s = VerifyStages PROVE Good(s, "verify")
  <2>1. Len(s) = 13 /\ \A i \in DOMAIN s : s[i] = "operate" => i = 13
    BY <1>4 DEF VerifyStages
  <2>2. \A i \in DOMAIN s : s[i] # "admitOutput"
    BY <1>4 DEF VerifyStages
  <2>3. 1 \in DOMAIN s /\ 5 \in DOMAIN s /\ 8 \in DOMAIN s /\ 10 \in DOMAIN s
    BY <1>4 DEF VerifyStages
  <2>4. s[1] = "measureFirst" /\ s[5] = "measureSecond" /\ s[8] = "copyFirst" /\ s[10] = "copySecond"
    BY <1>4 DEF VerifyStages
  <2> QED BY <2>1, <2>2, <2>3, <2>4
<1> HIDE DEF Good
<1>5. c.op \in Operations
  BY WasmAssumption DEF Operations
<1>6. Good(Stages(c), c.op)
  BY <1>1, <1>2, <1>3, <1>4, <1>5 DEF Stages, Operations
<1> QED BY <1>6 DEF Good

LEMMA OnwardTidy ==
    ASSUME NEW s, NEW op, InOrder(s, op), Tidy(s, op), Head(s) # "operate"
    PROVE  Tidy(Tail(s), op)
<1>1. s \in Seq(StageNames) /\ s # << >>
  BY DEF InOrder
<1>2. /\ Len(s) \in Nat /\ Len(Tail(s)) = Len(s) - 1 /\ DOMAIN s = 1..Len(s)
      /\ DOMAIN Tail(s) = 1..(Len(s) - 1)
      /\ \A i \in 1..(Len(s) - 1) : Tail(s)[i] = s[i + 1]
  BY <1>1
<1>3. \A i \in DOMAIN Tail(s) : Tail(s)[i] = "operate" => i = Len(Tail(s))
  <2> SUFFICES ASSUME NEW i \in 1..(Len(s) - 1), Tail(s)[i] = "operate" PROVE i = Len(s) - 1
    BY <1>2
  <2>1. i + 1 \in DOMAIN s /\ s[i + 1] = "operate"
    BY <1>2
  <2>2. i + 1 = Len(s)
    BY <2>1 DEF Tidy
  <2>3. Len(s) \in Nat
    BY <1>2
  <2> QED BY <2>2, <2>3
<1>4. \A stage : In(stage, Tail(s)) => In(stage, s)
  BY Onward
<1> QED BY <1>3, <1>4 DEF Tidy

TidyInv == todo # << >> => Tidy(todo, call.op)

\* A view with a fixed length, in bounds of a buffer that may only have grown,
\* and then only if it is shared, since it was measured.
Sight(o) ==
    /\ IsView(call[o])
    /\ views[o].buffer = call[o].buffer /\ views[o].offset = call[o].offset
    /\ views[o].size \in Nat /\ views[o].length = views[o].size
    /\ call[o].offset + views[o].size <= Len(memory[call[o].buffer])
    /\ call[o].length # Tracking => views[o].size = call[o].length
    /\ call[o].length = Tracking /\ call[o].buffer \notin Shared =>
         call[o].offset + views[o].size = Len(memory[call[o].buffer])

SightInv ==
    todo # << >> => \A o \in Taken(call.op) :
        /\ ~Ahead(MeasureOf(o)) => Sight(o)
        /\ Ahead(MeasureOf(o)) => Ahead(CopyOf(o))

\* What is copied so far of a buffer that nobody shares is what it holds.
CopiedSoFar(o) ==
    \A n \in 1..Len(copies[o]) :
        call[o].buffer \notin Shared => copies[o][n] = memory[call[o].buffer][call[o].offset + n]

FaithInv ==
    todo # << >> => \A o \in Taken(call.op) :
        /\ CopiedSoFar(o)
        /\ ~Ahead(CopyOf(o)) => Len(copies[o]) = views[o].size
        /\ ~Ahead(MeasureOf(o)) => Len(copies[o]) <= views[o].size

Pair == copies = [o \in Operands |-> copies[o]]

All == Inv /\ TruthInv /\ TidyInv /\ SightInv /\ FaithInv /\ Pair

Known == TidyInv /\ SightInv /\ FaithInv

LEMMA Returned == ASSUME todo' = << >> PROVE Known'
  BY DEF Known, TidyInv, SightInv, FaithInv

\* A change of the memory that a call may meet.
Grows ==
    \A b \in Buffers :
        /\ IsOctets(memory[b]) /\ IsOctets(memory'[b])
        /\ Len(memory[b]) <= Len(memory'[b])
        /\ b \notin Shared => memory'[b] = memory[b]

LEMMA GrowsNot == ASSUME TruthInv, memory' = memory PROVE Grows
<1> SUFFICES ASSUME NEW b \in Buffers PROVE IsOctets(memory[b]) /\ Len(memory[b]) <= Len(memory[b])
  BY DEF Grows
<1>1. IsOctets(memory[b])
  BY DEF TruthInv, Clean
<1>2. Len(memory[b]) \in Nat
  BY <1>1, Reading
<1> QED BY <1>1, <1>2

LEMMA GrowsAt ==
    ASSUME Grows, NEW d \in Buffers
    PROVE  /\ Len(memory[d]) \in Nat /\ Len(memory'[d]) \in Nat /\ Len(memory[d]) <= Len(memory'[d])
           /\ d \notin Shared => memory'[d] = memory[d]
<1>1. /\ IsOctets(memory[d]) /\ IsOctets(memory'[d]) /\ Len(memory[d]) <= Len(memory'[d])
      /\ d \notin Shared => memory'[d] = memory[d]
  BY DEF Grows
<1> QED BY <1>1, Reading

LEMMA SightStays ==
    ASSUME NEW o \in Operands, Sight(o), Grows, UNCHANGED call, views'[o] = views[o]
    PROVE  Sight(o)'
<1> DEFINE b == call[o].buffer
           m == Len(memory[b])
           n == Len(memory'[b])
<1>1. b \in Buffers /\ call[o].offset \in Nat /\ views[o].size \in Nat
  BY DEF Sight, IsView
<1>2. m \in Nat /\ n \in Nat /\ m <= n /\ (b \notin Shared => m = n)
  BY <1>1, GrowsAt
<1>3. call[o].offset + views[o].size <= n
  <2>1. call[o].offset + views[o].size <= m
    BY DEF Sight
  <2> HIDE DEF m, n
  <2> QED BY <1>1, <1>2, <2>1
<1>4. call[o].length = Tracking /\ b \notin Shared => call[o].offset + views[o].size = n
  BY <1>2 DEF Sight
<1> QED BY <1>3, <1>4 DEF Sight

LEMMA FaithStays ==
    ASSUME NEW o \in Operands, CopiedSoFar(o), copies[o] = << >> \/ Sight(o), Grows,
           UNCHANGED call, copies'[o] = copies[o]
    PROVE  CopiedSoFar(o)'
<1>1. CASE copies[o] = << >>
  <2>1. 1..Len(copies'[o]) = {}
    BY <1>1
  <2> QED BY <2>1 DEF CopiedSoFar
<1>2. CASE Sight(o)
  <2>1. call[o].buffer \in Buffers
    BY <1>2 DEF Sight, IsView
  <2>2. call[o].buffer \notin Shared => memory'[call[o].buffer] = memory[call[o].buffer]
    BY <2>1, GrowsAt
  <2> QED BY <2>2 DEF CopiedSoFar
<1> QED BY <1>1, <1>2

LEMMA KnownOutside == ASSUME All, Environment PROVE Known'
<1>1. ASSUME NEW c \in Calls, Call(c) PROVE Known'
  <2>1. call' = c /\ todo' = Stages(c) /\ copies' = [o \in Operands |-> << >>]
    BY <1>1 DEF Call
  <2>2. Tidy(todo', call'.op) /\ \A o \in Taken(call'.op) : Ahead(MeasureOf(o))' /\ Ahead(CopyOf(o))'
    BY <2>1, ListsTidy DEF Ahead
  <2>3. \A o \in Taken(call'.op) : copies'[o] = << >>
    BY <2>1 DEF Taken, Operands
  <2>4. \A o \in Taken(call'.op) : 1..Len(copies'[o]) = {}
    BY <2>3
  <2>5. \A o \in Taken(call'.op) : CopiedSoFar(o)'
    BY <2>4 DEF CopiedSoFar
  <2> QED BY <2>2, <2>5 DEF Known, TidyInv, SightInv, FaithInv
<1>2. ASSUME todo = << >>, todo' = todo PROVE Known'
  BY <1>2, Returned
<1>3. ASSUME Grows, todo # << >>, UNCHANGED <<call, todo, views, copies>> PROVE Known'
  <2>1. \A stage : Ahead(stage)' <=> Ahead(stage)
    BY <1>3 DEF Ahead
  <2>2. \A o \in Taken(call.op) : o \in Operands
    BY DEF Taken, Operands
  <2>3. SightInv'
    BY <1>3, <2>1, <2>2, SightStays DEF All, SightInv
  <2>4. \A o \in Taken(call.op) : copies[o] = << >> \/ Sight(o)
    BY <1>3, <2>2 DEF All, SightInv, Inv, CopyInv
  <2>5. \A o \in Taken(call.op) : CopiedSoFar(o)'
    BY <1>3, <2>2, <2>4, FaithStays DEF All, FaithInv
  <2>6. FaithInv'
    BY <1>3, <2>1, <2>5 DEF All, FaithInv
  <2>7. TidyInv'
    BY <1>3 DEF All, TidyInv
  <2> QED BY <2>3, <2>6, <2>7 DEF Known
<1>4. \A b \in Buffers : IsOctets(memory[b]) /\ Len(memory[b]) \in Nat
  BY Reading DEF All, TruthInv, Clean
<1>5. ASSUME NEW b \in Shared, NEW x, IsOctets(x), Len(memory[b]) <= Len(x), memory' = [memory EXCEPT ![b] = x]
      PROVE  Grows
  <2>1. \A d \in Buffers : d # b => memory'[d] = memory[d]
    BY <1>5 DEF All, TruthInv
  <2>2. b \in Buffers => memory'[b] = x
    BY <1>5 DEF All, TruthInv
  <2> QED BY <1>4, <1>5, <2>1, <2>2 DEF Grows
<1>6. ASSUME NEW b \in Shared, NEW octet \in Octets, NEW i \in DOMAIN memory[b], WorkerWrites(b, i, octet)
      PROVE  Known'
  <2> DEFINE x == [memory[b] EXCEPT ![i] = octet]
  <2>1. b \in Buffers
    BY WasmAssumption
  <2>2. IsOctets(x) /\ Len(x) = Len(memory[b])
    BY <1>4, <2>1, Overwriting
  <2>3. memory' = [memory EXCEPT ![b] = x] /\ UNCHANGED <<call, todo, views, copies>>
    BY <1>6 DEF WorkerWrites
  <2> HIDE DEF x
  <2>5. Len(memory[b]) <= Len(x)
    BY <1>4, <2>1, <2>2
  <2>4. Grows
    BY <1>5, <2>2, <2>3, <2>5
  <2> QED BY <1>2, <1>3, <2>3, <2>4
<1>7. ASSUME NEW b \in Shared, NEW octet \in Octets, WorkerGrows(b, octet) PROVE Known'
  <2> DEFINE x == Append(memory[b], octet)
  <2>1. b \in Buffers
    BY WasmAssumption
  <2>2. IsOctets(x) /\ Len(x) = Len(memory[b]) + 1
    BY <1>4, <2>1, Appending
  <2>3. memory' = [memory EXCEPT ![b] = x] /\ UNCHANGED <<call, todo, views, copies>>
    BY <1>7 DEF WorkerGrows
  <2> HIDE DEF x
  <2>5. Len(memory[b]) <= Len(x)
    BY <1>4, <2>1, <2>2
  <2>4. Grows
    BY <1>5, <2>2, <2>3, <2>5
  <2> QED BY <1>2, <1>3, <2>3, <2>4
<1>8. ASSUME NEW b, NEW m, Configure(m) \/ WithoutCeiling \/ Keep \/ Detach(b) \/ Shrink(b) PROVE Known'
  BY <1>2, <1>8 DEF Configure, WithoutCeiling, Keep, Detach, Shrink, Idle
<1> QED BY <1>1, <1>6, <1>7, <1>8 DEF Environment

\* A stage that takes nothing from the script.
LEMMA KnownAdvance ==
    ASSUME All, todo # << >>, Advance, UNCHANGED <<call, memory, ceiling, made, views, copies>>,
           attached' \subseteq Buffers,
           Head(todo) \notin {"operate", "measureFirst", "measureSecond", "copyFirst", "copySecond"}
    PROVE  Known'
<1>1. /\ todo' = Tail(todo) /\ todo' # << >>
      /\ \A stage : Ahead(stage)' => Ahead(stage)
      /\ \A stage : Ahead(stage) /\ stage # Head(todo) => Ahead(stage)'
  BY Advancing DEF All, Advance
<1>2. Tidy(todo', call'.op)
  BY <1>1, OnwardTidy DEF All, Inv, StageInv, TidyInv
<1>3. \A o \in Operands : MeasureOf(o) # Head(todo) /\ CopyOf(o) # Head(todo)
  BY DEF MeasureOf, CopyOf
<1>4. \A o \in Taken(call.op) : o \in Operands
  BY DEF Taken, Operands
<1>5. \A o \in Operands : (Ahead(MeasureOf(o))' <=> Ahead(MeasureOf(o))) /\ (Ahead(CopyOf(o))' <=> Ahead(CopyOf(o)))
  BY <1>1, <1>3
<1>6. \A o : (Sight(o)' <=> Sight(o)) /\ (CopiedSoFar(o)' <=> CopiedSoFar(o))
  BY DEF Sight, CopiedSoFar
<1>7. SightInv'
  BY <1>4, <1>5, <1>6 DEF All, SightInv
<1>8. FaithInv'
  BY <1>4, <1>5, <1>6 DEF All, FaithInv
<1> QED BY <1>2, <1>7, <1>8 DEF Known, TidyInv

\* Measuring an operand fixes what the call will see of it.
LEMMA KnownMeasure ==
    ASSUME All, NEW o \in Operands, Measure(MeasureOf(o), o)
    PROVE  Known'
<1>1. /\ todo # << >> /\ Head(todo) = MeasureOf(o) /\ UNCHANGED <<script, call, copies, made>>
      /\ \/ Measurable(call[o]) /\ Advance /\ views' = [views EXCEPT ![o] = Fixed(call[o])]
         \/ Return(InvalidByteInput)
  BY DEF Measure, At
<1>2. CASE Return(InvalidByteInput)
  BY <1>2, Returned DEF Return
<1>3. CASE Measurable(call[o]) /\ Advance /\ views' = [views EXCEPT ![o] = Fixed(call[o])]
  <2>1. Head(todo) # "operate" /\ UNCHANGED <<memory, attached, ceiling>> /\ attached \subseteq Buffers
    BY <1>1 DEF MeasureOf, script, All, Inv, BasicInv
  <2>2. /\ todo' = Tail(todo) /\ todo' # << >>
        /\ \A stage : Ahead(stage)' => Ahead(stage)
        /\ \A stage : Ahead(stage) /\ stage # Head(todo) => Ahead(stage)'
    BY <1>1, <1>3, <2>1, Advancing DEF All, Advance
  <2>3. Tidy(todo', call'.op)
    BY <1>1, <2>1, <2>2, OnwardTidy DEF All, Inv, StageInv, TidyInv
  <2>4. Ahead(MeasureOf(o)) /\ In("measureSecond", todo) => call.op # "decompose"
    BY <1>1 DEF All, TidyInv, Tidy
  <2>5. \A p \in Operands : CopyOf(p) # Head(todo) /\ (p # o => MeasureOf(p) # Head(todo))
    BY <1>1 DEF CopyOf, MeasureOf, Operands
  <2>6. \A p \in Taken(call.op) : p \in Operands
    BY DEF Taken, Operands
  <2>7. \A p \in Operands : (Ahead(CopyOf(p))' <=> Ahead(CopyOf(p)))
    BY <2>2, <2>5
  <2>8. \A p \in Operands : p # o => (Ahead(MeasureOf(p))' <=> Ahead(MeasureOf(p)))
    BY <2>2, <2>5
  <2>9. Ahead(MeasureOf(o))
    BY <1>1 DEF Ahead, In, All, Inv, StageInv, InOrder
  <2>10. copies[o] = << >>
    BY <1>1, <2>9 DEF All, Inv, CopyInv
  <2>11. views'[o] = Fixed(call[o]) /\ \A p \in Operands : p # o => views'[p] = views[p]
    BY <1>3 DEF All, Inv, BasicInv
  <2>12. Sight(o)'
    <3> DEFINE v == call[o]
               m == Len(memory[v.buffer])
    <3>1. v # NotBytes /\ Usable(v) /\ Length(v) \in 0..MaxUsize
      BY <1>3 DEF Measurable
    <3>2. IsView(v)
      BY <1>1, <3>1, WasmAssumption DEF All, Inv, StageInv
    <3>3. IsOctets(memory[v.buffer])
      BY <3>2 DEF IsView, All, TruthInv, Clean
    <3>4. m \in Nat /\ v.offset \in Nat
      BY <3>2, <3>3, Reading DEF IsView
    <3>5. Length(v) \in Nat
      BY <3>1, WasmAssumption
    <3>6. /\ v.length # Tracking => Length(v) = v.length /\ v.offset + v.length <= m
          /\ v.length = Tracking => Length(v) = m - v.offset
      BY <3>1 DEF Length, Usable
    <3> DEFINE n == Length(v)
    <3>7. v.offset + n <= m /\ (v.length = Tracking => v.offset + n = m)
      <4>1. CASE v.length = Tracking
        <5> HIDE DEF m
        <5>1. n = m - v.offset
          BY <3>6, <4>1
        <5> HIDE DEF n
        <5> QED BY <3>4, <4>1, <5>1
      <4>2. CASE v.length # Tracking
        BY <3>6, <4>2
      <4> QED BY <4>1, <4>2
    <3>8. /\ views'[o].buffer = v.buffer /\ views'[o].offset = v.offset
          /\ views'[o].size = n /\ views'[o].length = n
      BY <2>11 DEF Fixed
    <3>9. call' = call /\ memory' = memory
      BY <1>1, <2>1
    <3>10. v.length # Tracking => n = v.length
      BY <3>6
    <3>11. n \in Nat
      BY <3>5
    <3> HIDE DEF n
    <3> QED BY <3>2, <3>11, <3>7, <3>8, <3>9, <3>10 DEF Sight
  <2>13. \A p \in Operands : p # o => (Sight(p)' <=> Sight(p))
    BY <1>1, <2>1, <2>11 DEF Sight
  <2>14. SightInv'
    BY <1>1, <2>2, <2>6, <2>7, <2>8, <2>9, <2>12, <2>13 DEF All, SightInv
  <2>15. \A p : CopiedSoFar(p)' <=> CopiedSoFar(p)
    BY <1>1, <2>1 DEF CopiedSoFar
  <2>16. ASSUME NEW p \in Taken(call.op), ~Ahead(CopyOf(p))' PROVE Len(copies'[p]) = views'[p].size
    <3>1. ~Ahead(CopyOf(p)) /\ ~Ahead(MeasureOf(p))
      BY <1>1, <2>6, <2>7, <2>16 DEF All, SightInv
    <3>2. p # o
      BY <2>9, <3>1
    <3> QED BY <1>1, <2>6, <2>11, <3>1, <3>2 DEF All, FaithInv
  <2>17. ASSUME NEW p \in Taken(call.op), ~Ahead(MeasureOf(p))' PROVE Len(copies'[p]) <= views'[p].size
    <3>1. CASE p = o
      <4>1. Len(copies'[o]) = 0 /\ views'[o].size \in Nat
        BY <1>1, <2>10, <2>12 DEF Sight
      <4> QED BY <3>1, <4>1
    <3>2. CASE p # o
      BY <1>1, <2>6, <2>8, <2>11, <2>17, <3>2 DEF All, FaithInv
    <3> QED BY <3>1, <3>2
  <2>18. FaithInv'
    BY <1>1, <2>15, <2>16, <2>17 DEF All, FaithInv
  <2> QED BY <2>3, <2>14, <2>18 DEF Known, TidyInv
<1> QED BY <1>1, <1>2, <1>3

\* At a copy stage the view is in bounds, so the copy fails only for a buffer
\* that is detached.
LEMMA AtCopy ==
    ASSUME All, NEW o \in Operands, At(CopyOf(o))
    PROVE  /\ o \in Taken(call.op) /\ Sight(o) /\ ~Ahead(MeasureOf(o)) /\ CopiedSoFar(o)
           /\ (Copyable(views[o]) <=> call[o].buffer \in attached)
<1>1. todo # << >> /\ Head(todo) = CopyOf(o) /\ CopyOf(o) \in Copies
  BY DEF At, CopyOf, Copies
<1>2. InOrder(todo, call.op) /\ Tidy(todo, call.op)
  BY <1>1 DEF All, Inv, StageInv, TidyInv
<1>3. In(CopyOf(o), todo) /\ Head(todo) # "operate"
  BY <1>1, <1>2 DEF In, InOrder, CopyOf
<1>4. o \in Taken(call.op)
  BY <1>2, <1>3 DEF Tidy, Taken, CopyOf, Operands
<1>5. ~In(MeasureOf(o), Tail(todo))
  BY <1>1, <1>2, <1>3, Onward DEF MeasureOf
<1>6. MeasureOf(o) # Head(todo)
  BY <1>1 DEF MeasureOf, CopyOf
<1>7. ~Ahead(MeasureOf(o))
  BY <1>2, <1>3, <1>5, <1>6, Onward DEF Ahead
<1>8. Sight(o) /\ CopiedSoFar(o)
  BY <1>1, <1>4, <1>7 DEF All, SightInv, FaithInv
<1>9. Copyable(views[o]) <=> call[o].buffer \in attached
  <2> DEFINE v == views[o]
             n == v.size
  <2>1. /\ v.buffer = call[o].buffer /\ v.offset = call[o].offset /\ n \in Nat /\ v.length = n
        /\ v.offset + n <= Len(memory[v.buffer])
    BY <1>8 DEF Sight
  <2>2. n # Tracking
    BY <2>1, WasmAssumption
  <2>3. Length(v) = n /\ n <= n
    BY <2>1, <2>2 DEF Length
  <2>4. Usable(v) <=> v.buffer \in attached
    BY <2>1, <2>2 DEF Usable
  <2> QED BY <2>1, <2>3, <2>4 DEF Copyable
<1> QED BY <1>4, <1>7, <1>8, <1>9

\* What a copy takes is an octet of its buffer.
LEMMA CopyTakes ==
    ASSUME All, NEW o \in Operands, At(CopyOf(o)), Len(copies[o]) < views[o].size
    PROVE  LET v == views[o]  i == v.offset + Len(copies[o]) + 1 IN
             v.buffer \in Buffers /\ memory[v.buffer][i] \in OctetsOf(memory[v.buffer])
<1> DEFINE b == views[o].buffer
           n == Len(copies[o])
           s == views[o].size
           f == views[o].offset
           m == Len(memory[b])
<1>1. b \in Buffers /\ f \in Nat /\ s \in Nat /\ f + s <= m
  BY AtCopy DEF Sight, IsView
<1>2. IsOctets(memory[b]) /\ IsOctets(copies[o])
  BY <1>1 DEF All, TruthInv, Clean
<1>3. m \in Nat /\ n \in Nat
  BY <1>2, Reading
<1>4. f + n + 1 \in 1..m
  <2>1. n < s
    OBVIOUS
  <2> HIDE DEF m, n, s, f
  <2> QED BY <1>1, <1>3, <2>1
<1>5. memory[b][f + n + 1] \in OctetsOf(memory[b])
  BY <1>2, <1>4, Reading
<1> QED BY <1>1, <1>5

LEMMA KnownCopy ==
    ASSUME All, NEW o \in Operands, Copy(CopyOf(o), o)
    PROVE  Known'
<1> DEFINE v == views[o]
           n == Len(copies[o])
           x == memory[v.buffer][v.offset + n + 1]
<1>1. At(CopyOf(o)) /\ UNCHANGED <<script, call, views, made>>
  BY DEF Copy
<1>2. /\ o \in Taken(call.op) /\ Sight(o) /\ ~Ahead(MeasureOf(o)) /\ CopiedSoFar(o)
      /\ todo # << >> /\ Head(todo) = CopyOf(o)
  BY <1>1, AtCopy DEF At
<1>3. \/ n < v.size /\ copies' = [copies EXCEPT ![o] = Append(@, x)] /\ UNCHANGED todo
      \/ ~(n < v.size) /\ Advance /\ UNCHANGED copies
  BY DEF Copy
<1>4. UNCHANGED <<memory, attached, ceiling>> /\ attached \subseteq Buffers
  BY <1>1 DEF script, All, Inv, BasicInv
<1>5. \A p : Sight(p)' <=> Sight(p)
  BY <1>1, <1>4 DEF Sight
<1>6. \A p \in Taken(call.op) : p \in Operands
  BY DEF Taken, Operands
<1>7. IsOctets(copies[o]) /\ n \in Nat
  BY Reading DEF All, TruthInv, Clean
<1>8. CASE n < v.size /\ copies' = [copies EXCEPT ![o] = Append(@, x)] /\ UNCHANGED todo
  <2>1. \A stage : Ahead(stage)' <=> Ahead(stage)
    BY <1>8 DEF Ahead
  <2>2. TidyInv' /\ SightInv'
    BY <1>1, <1>5, <1>8, <2>1 DEF All, TidyInv, SightInv
  <2>3. copies'[o] = Append(copies[o], x) /\ \A p \in Operands : p # o => copies'[p] = copies[p]
    BY <1>8 DEF All, Inv, BasicInv
  <2>4. /\ Len(copies'[o]) = n + 1 /\ copies'[o][n + 1] = x
        /\ \A i \in 1..n : copies'[o][i] = copies[o][i]
    BY <1>7, <2>3, Appending
  <2>5. CopiedSoFar(o)'
    <3> SUFFICES ASSUME NEW i \in 1..(n + 1), call[o].buffer \notin Shared
                 PROVE  copies'[o][i] = memory[call[o].buffer][call[o].offset + i]
      BY <1>1, <1>4, <2>4 DEF CopiedSoFar
    <3>1. CASE i \in 1..n
      BY <1>2, <2>4, <3>1 DEF CopiedSoFar
    <3>2. CASE i = n + 1
      <4>1. v.buffer = call[o].buffer /\ v.offset = call[o].offset /\ v.offset \in Nat
        BY <1>2 DEF Sight, IsView
      <4>2. v.offset + n + 1 = v.offset + i
        BY <1>7, <3>2, <4>1
      <4>3. copies'[o][i] = x
        BY <2>4, <3>2
      <4> QED BY <4>1, <4>2, <4>3
    <3>3. i \in 1..n \/ i = n + 1
      BY <1>7
    <3> QED BY <3>1, <3>2, <3>3
  <2>6. \A p \in Operands : p # o => (CopiedSoFar(p)' <=> CopiedSoFar(p))
    BY <1>1, <1>4, <2>3 DEF CopiedSoFar
  <2>7. Ahead(CopyOf(o))
    BY <1>2 DEF Ahead, In, All, Inv, StageInv, InOrder
  <2>8. FaithInv'
    <3> SUFFICES ASSUME NEW p \in Taken(call.op)
                 PROVE  /\ CopiedSoFar(p)'
                        /\ ~Ahead(CopyOf(p)) => Len(copies'[p]) = views[p].size
                        /\ ~Ahead(MeasureOf(p)) => Len(copies'[p]) <= views[p].size
      BY <1>1, <2>1 DEF FaithInv
    <3>1. CASE p = o
      <4>1. v.size \in Nat
        BY <1>2 DEF Sight
      <4>2. n + 1 <= v.size
        BY <1>7, <1>8, <4>1
      <4> QED BY <2>4, <2>5, <2>7, <3>1, <4>2
    <3>2. CASE p # o
      BY <1>2, <1>6, <2>3, <2>6, <3>2 DEF All, FaithInv
    <3> QED BY <3>1, <3>2
  <2> QED BY <2>2, <2>8 DEF Known
<1>9. CASE ~(n < v.size) /\ Advance /\ UNCHANGED copies
  <2>1. Head(todo) # "operate"
    BY <1>2 DEF CopyOf
  <2>2. /\ todo' = Tail(todo) /\ todo' # << >>
        /\ \A stage : Ahead(stage)' => Ahead(stage)
        /\ \A stage : Ahead(stage) /\ stage # Head(todo) => Ahead(stage)'
    BY <1>1, <1>2, <1>4, <1>9, <2>1, Advancing DEF All, Advance
  <2>3. Tidy(todo', call'.op)
    BY <1>1, <1>2, <2>1, <2>2, OnwardTidy DEF All, Inv, StageInv, TidyInv
  <2>4. \A p \in Operands : MeasureOf(p) # Head(todo) /\ (p # o => CopyOf(p) # Head(todo))
    BY <1>2 DEF CopyOf, MeasureOf, Operands
  <2>5. \A p \in Operands : (Ahead(MeasureOf(p))' <=> Ahead(MeasureOf(p)))
    BY <2>2, <2>4
  <2>6. \A p \in Operands : p # o => (Ahead(CopyOf(p))' <=> Ahead(CopyOf(p)))
    BY <2>2, <2>4
  <2>7. InOrder(todo, call.op) /\ CopyOf(o) \in Copies
    BY <1>2 DEF All, Inv, StageInv, CopyOf, Copies
  <2>8. \A p \in Operands : ~Ahead(MeasureOf(p))'
    BY <1>2, <2>1, <2>2, <2>7, Onward DEF Ahead, MeasureOf
  <2>9. SightInv'
    BY <1>1, <1>5, <1>6, <2>2, <2>5, <2>8 DEF All, SightInv
  <2>10. Len(copies[o]) = views[o].size
    <3>1. views[o].size \in Nat /\ n <= views[o].size
      BY <1>2 DEF Sight, All, FaithInv
    <3> QED BY <1>7, <1>9, <3>1
  <2>11. \A p : CopiedSoFar(p)' <=> CopiedSoFar(p)
    BY <1>1, <1>4, <1>9 DEF CopiedSoFar
  <2>12. FaithInv'
    BY <1>1, <1>2, <1>6, <1>9, <2>5, <2>6, <2>10, <2>11 DEF All, FaithInv
  <2> QED BY <2>3, <2>9, <2>12 DEF Known, TidyInv
<1> HIDE DEF v, n, x
<1> QED BY <1>3, <1>8, <1>9

-----------------------------------------------------------------------------
(* The steps of a call keep what is known.                                 *)

LEMMA TruthAdvance ==
    ASSUME TruthInv, todo # << >>, Advance, UNCHANGED <<memory, copies>>
    PROVE  TruthInv'
<1>1. UNCHANGED <<result, signed>> /\ result = Nothing
  BY DEF Advance, TruthInv
<1>2. \A s : Clean(s) => Clean(s)'
  BY <1>1, SignedStays
<1>3. result'.output = << >> /\ result'.status = "none" /\ result' = Nothing
  BY <1>1 DEF Nothing, Failure
<1>4. VerifiedIsSigned'
  BY <1>3 DEF VerifiedIsSigned
<1>5. \A b \in Buffers : Clean(memory[b])'
  BY <1>2 DEF TruthInv
<1>6. \A o \in Operands : Clean(copies[o])'
  BY <1>2 DEF TruthInv
<1> QED BY <1>3, <1>4, <1>5, <1>6 DEF TruthInv

LEMMA TruthReturn ==
    ASSUME TruthInv, NEW r, Return(r), UNCHANGED <<memory, copies>>,
           r.output # << >> => Clean(r.output[1])', VerifiedIsSigned'
    PROVE  TruthInv'
<1>1. todo' = << >> /\ result' = r /\ signed \subseteq signed'
  BY DEF Return
<1>2. \A s : Clean(s) => Clean(s)'
  BY <1>1, SignedStays
<1>3. \A b \in Buffers : Clean(memory[b])'
  BY <1>2 DEF TruthInv
<1>4. \A o \in Operands : Clean(copies[o])'
  BY <1>2 DEF TruthInv
<1>5. result'.output # << >> => Clean(result.output[1])'
  BY <1>1
<1> QED BY <1>1, <1>3, <1>4, <1>5 DEF TruthInv

LEMMA TruthFailure ==
    ASSUME TruthInv, NEW r, Return(r), UNCHANGED <<memory, copies>>,
           r.output = << >>, r.status # "verified"
    PROVE  TruthInv'
<1>1. VerifiedIsSigned'
  BY DEF Return, VerifiedIsSigned
<1> QED BY <1>1, TruthReturn

\* The failures of the checks, and what they are about.
Refusal(r) == r.output = << >> /\ r.status # "verified"

Unrelated(r) == r.code # "invalid_byte_input" /\ r.status # "resource_error"

Checks ==
    CheckForm \/ CheckOuter \/ CheckAlgorithm \/ CheckKeyid \/ CheckSigningKeyLength
    \/ CheckVerifyingKeyLength \/ ParseSigningKey \/ ResolveKey \/ Schema

\* What a check leads to.
Leads ==
    /\ todo # << >> /\ UNCHANGED <<script, call, views, copies, made>>
    /\ Head(todo) \notin {"operate", "measureFirst", "measureSecond", "copyFirst", "copySecond"}
    /\ Advance \/ \E r : Return(r) /\ Refusal(r) /\ Unrelated(r)

LEMMA CheckLeads ==
    ASSUME NEW stage, NEW passes, NEW r, Check(stage, passes, r), Refusal(r), Unrelated(r),
           stage \notin {"operate", "measureFirst", "measureSecond", "copyFirst", "copySecond"}
    PROVE  Leads
  BY DEF Leads, Check, At

LEMMA InvocationsUnrelated ==
    ASSUME NEW code, code # "invalid_byte_input"
    PROVE  Refusal(Invocation(code)) /\ Unrelated(Invocation(code))
  BY DEF Refusal, Unrelated, Invocation, Failure

LEMMA ChecksMean == ASSUME Checks PROVE Leads
<1>1. CASE CheckForm
  <2> DEFINE code == IF call.op = "sign" THEN "invalid_or_unsupported_output_form"
                                         ELSE "invalid_or_unsupported_form"
  <2>1. code # "invalid_byte_input"
    OBVIOUS
  <2>2. Check("form", call.form \in Forms, Invocation(code))
    BY <1>1 DEF CheckForm
  <2> HIDE DEF code
  <2> QED BY <2>1, <2>2, CheckLeads, InvocationsUnrelated
<1>2. CASE CheckOuter
  BY <1>2, CheckLeads, InvocationsUnrelated DEF CheckOuter
<1>3. CASE CheckAlgorithm
  BY <1>3, CheckLeads, InvocationsUnrelated DEF CheckAlgorithm
<1>4. CASE CheckKeyid
  BY <1>4, CheckLeads, InvocationsUnrelated DEF CheckKeyid
<1>5. CASE CheckSigningKeyLength
  BY <1>5, CheckLeads, InvocationsUnrelated DEF CheckSigningKeyLength
<1>6. CASE CheckVerifyingKeyLength
  BY <1>6, CheckLeads, InvocationsUnrelated DEF CheckVerifyingKeyLength
<1>7. CASE ParseSigningKey
  BY <1>7, CheckLeads, InvocationsUnrelated DEF ParseSigningKey
<1>8. CASE ResolveKey
  BY <1>8, CheckLeads, InvocationsUnrelated DEF ResolveKey
<1>9. CASE Schema
  <2>1. LET r == Failure("malformed_attempted_signed", "none") IN Refusal(r) /\ Unrelated(r)
    BY DEF Refusal, Unrelated, Failure
  <2> QED BY <1>9, <2>1, CheckLeads DEF Schema
<1> QED BY <1>1, <1>2, <1>3, <1>4, <1>5, <1>6, <1>7, <1>8, <1>9 DEF Checks

LEMMA AdmissionsMean ==
    ASSUME AdmitInput \/ AdmitOutput
    PROVE  /\ todo # << >> /\ UNCHANGED <<script, call, views, copies, made>>
           /\ Head(todo) \in Admission
           /\ \/ Advance
              \/ \E r : /\ Return(r) /\ Refusal(r) /\ r.code # "invalid_byte_input"
                        /\ call.limited
                        /\ IF Head(todo) = "admitInput" THEN Exceeds(views.first.size)
                           ELSE TooLong(Minimum)
<1>1. CASE AdmitInput
  <2> DEFINE f == TooLarge("input_artifact_too_large")
  <2>1. Refusal(f) /\ f.code # "invalid_byte_input"
    BY DEF TooLarge, Refusal, Failure
  <2>2. /\ todo # << >> /\ UNCHANGED <<script, call, views, copies, made>> /\ Head(todo) = "admitInput"
        /\ Advance \/ (call.limited /\ Exceeds(views.first.size) /\ Return(f))
    BY <1>1 DEF AdmitInput, Check, At
  <2> HIDE DEF f
  <2> QED BY <2>1, <2>2 DEF Admission
<1>2. CASE AdmitOutput
  <2> DEFINE f == OutputRefusal(Minimum)
  <2>1. Refusal(f) /\ f.code # "invalid_byte_input"
    BY DEF OutputRefusal, TooLarge, Refusal, Failure
  <2>2. /\ todo # << >> /\ UNCHANGED <<script, call, views, copies, made>> /\ Head(todo) = "admitOutput"
        /\ Advance \/ (call.limited /\ TooLong(Minimum) /\ Return(f))
    BY <1>2 DEF AdmitOutput, Check, At
  <2> HIDE DEF f
  <2> QED BY <2>1, <2>2 DEF Admission
<1> QED BY <1>1, <1>2

\* A size that a limited operation is refused for.
EmittedOrProjected(n, r, projected) ==
    n = projected \/ (r.status = "success" /\ n = Len(r.output[1]))

\* What an operation returns is a refusal of a size, or is what Core says.
LEMMA OperateMeans ==
    ASSUME All, SoundCore, Operate
    PROVE  /\ todo # << >> /\ Head(todo) = "operate" /\ UNCHANGED <<script, call, views, copies, made>>
           /\ call \in Calls /\ CoreKeeps(copies)
           /\ \/ Return(Core(call, copies))
              \/ \E n : /\ Return(OutputRefusal(n)) /\ call.limited /\ call.op \in Framing /\ TooLong(n)
                        /\ EmittedOrProjected(n, Core(call, copies), Projected(call, copies))
<1>1. /\ todo # << >> /\ Head(todo) = "operate" /\ UNCHANGED <<script, call, views, copies, made>>
      /\ Return(Limited(Core(call, copies)))
  BY DEF Operate, At
<1>2. call \in Calls /\ CoreKeeps(copies)
  <2>1. call \in Calls
    BY <1>1 DEF All, Inv, StageInv
  <2>2. copies = [o \in Operands |-> copies[o]] /\ \A o \in Operands : IsOctets(copies[o])
    BY DEF All, Pair, TruthInv, Clean
  <2> QED BY <2>1, <2>2 DEF SoundCore
<1> DEFINE r == Core(call, copies)
           projected == Projected(call, copies)
           emitted == Len(r.output[1])
<1>3. CASE ~(call.limited /\ call.op \in Framing)
  <2>1. Limited(r) = r
    BY <1>3 DEF Limited
  <2> QED BY <1>1, <1>2, <2>1
<1>4. CASE call.limited /\ call.op \in Framing
  <2> HIDE DEF r
  <2>1. Limited(r) = IF TooLong(projected) THEN OutputRefusal(projected)
                     ELSE IF r.status = "success" /\ TooLong(emitted) THEN OutputRefusal(emitted) ELSE r
    BY <1>4 DEF Limited
  <2> HIDE DEF projected, emitted
  <2>2. \/ Limited(r) = r
        \/ TooLong(projected) /\ Limited(r) = OutputRefusal(projected)
        \/ r.status = "success" /\ TooLong(emitted) /\ Limited(r) = OutputRefusal(emitted)
    BY <2>1
  <2>3. CASE Limited(r) = r
    BY <1>1, <1>2, <2>3 DEF r
  <2>4. CASE TooLong(projected) /\ Limited(r) = OutputRefusal(projected)
    BY <1>1, <1>2, <1>4, <2>4 DEF EmittedOrProjected, r, projected
  <2>5. CASE r.status = "success" /\ TooLong(emitted) /\ Limited(r) = OutputRefusal(emitted)
    BY <1>1, <1>2, <1>4, <2>5 DEF EmittedOrProjected, r, emitted
  <2> QED BY <2>2, <2>3, <2>4, <2>5
<1> QED BY <1>3, <1>4

LEMMA TruthOperate == ASSUME All, SoundCore, Operate PROVE TruthInv'
<1> DEFINE read == OctetsOf(copies.first) \cup OctetsOf(copies.second)
<1>1. UNCHANGED <<memory, call, copies>> /\ call \in Calls /\ CoreKeeps(copies)
  BY OperateMeans DEF script
<1>2. ASSUME NEW n, Return(OutputRefusal(n)) PROVE TruthInv'
  <2> DEFINE f == OutputRefusal(n)
  <2>1. f.output = << >> /\ f.status # "verified"
    BY DEF OutputRefusal, TooLarge, Failure
  <2> HIDE DEF f
  <2> QED BY <1>1, <1>2, <2>1, TruthFailure DEF All, f
<1>3. ASSUME NEW r, r = Core(call, copies), Return(r) PROVE TruthInv'
  <2>1. /\ r.status \in {"success", "verified"} => r.output # << >>
        /\ r.status = "verified" =>
             \E x \in OctetsOf(copies.first) :
                [payload |-> r.output[1], algorithm |-> call.algorithm, key |-> copies.second] \in Attested(x)
        /\ r.output # << >> =>
             /\ IsOctets(r.output[1])
             /\ \A x \in OctetsOf(r.output[1]) \ read : \A g \in Attested(x) :
                  /\ call.op = "sign" /\ r.status = "success"
                  /\ g.payload = copies.first /\ g.algorithm = call.algorithm
                  /\ Belongs(g.key, copies.second)
    BY <1>1, <1>3 DEF CoreKeeps
  <2>2. /\ result' = r /\ todo' = << >>
        /\ signed' = IF call.op = "sign" /\ r.status = "success"
                      THEN signed \cup {[payload |-> copies.first, algorithm |-> call.algorithm,
                                         key |-> copies.second]}
                      ELSE signed
    BY <1>3 DEF Return
  <2>3. signed \subseteq signed'
    BY <2>2
  <2>4. /\ \A p, a, k : WasSigned(p, a, k) => WasSigned(p, a, k)'
        /\ \A x : Vouched(x) => Vouched(x)'
        /\ \A s : Clean(s) => Clean(s)'
    BY <2>3, SignedStays
  <2>5. \A x \in read : Vouched(x)
    BY DEF All, TruthInv, Clean, Operands
  <2>6. ASSUME NEW x \in OctetsOf(r.output[1]), r.output # << >> PROVE Vouched(x)'
    <3>1. CASE x \in read
      BY <2>4, <2>5, <3>1
    <3>2. CASE x \notin read
      <4> SUFFICES ASSUME NEW g \in Attested(x) PROVE WasSigned(g.payload, g.algorithm, g.key)'
        BY DEF Vouched
      <4>1. /\ call.op = "sign" /\ r.status = "success"
            /\ g.payload = copies.first /\ g.algorithm = call.algorithm
            /\ Belongs(g.key, copies.second)
        BY <2>1, <2>6, <3>2
      <4> DEFINE s == [payload |-> copies.first, algorithm |-> call.algorithm, key |-> copies.second]
      <4>2. s \in signed'
        BY <2>2, <4>1
      <4>3. s.payload = g.payload /\ s.algorithm = g.algorithm /\ Belongs(g.key, s.key)
        BY <4>1
      <4> HIDE DEF s
      <4> QED BY <4>2, <4>3 DEF WasSigned
    <3> QED BY <3>1, <3>2
  <2>7. r.output # << >> => Clean(r.output[1])'
    BY <2>1, <2>6 DEF Clean
  <2>8. VerifiedIsSigned'
    <3> SUFFICES ASSUME r.status = "verified"
                 PROVE  WasSigned(r.output[1], call.algorithm, copies.second)'
      BY <1>1, <2>2 DEF VerifiedIsSigned
    <3>1. PICK x \in OctetsOf(copies.first) :
             [payload |-> r.output[1], algorithm |-> call.algorithm, key |-> copies.second] \in Attested(x)
      BY <2>1
    <3>2. Vouched(x)
      BY <2>5
    <3>3. WasSigned(r.output[1], call.algorithm, copies.second)
      BY <3>1, <3>2 DEF Vouched
    <3> QED BY <1>1, <2>4, <3>3
  <2> QED BY <1>1, <1>3, <2>7, <2>8, TruthReturn DEF All
<1> QED BY <1>2, <1>3, OperateMeans

\* One step of the binding keeps what is known of the call and of the octets.
LEMMA BindingKnows == ASSUME All, SoundCore, Binding PROVE TruthInv' /\ Known'
<1>1. TruthInv /\ attached \subseteq Buffers /\ DOMAIN copies = Operands
  BY DEF All, Inv, BasicInv
<1>2. ASSUME NEW r, Return(r), Refusal(r), UNCHANGED <<memory, copies>> PROVE TruthInv' /\ Known'
  BY <1>1, <1>2, TruthFailure, Returned DEF Refusal, Return
<1>3. CASE Checks
  <2>1. Leads
    BY <1>3, ChecksMean
  <2>2. CASE Advance
    <3>1. TruthInv'
      BY <1>1, <2>1, <2>2, TruthAdvance DEF Leads, script
    <3>2. Known'
      BY <1>1, <2>1, <2>2, KnownAdvance DEF Leads, script
    <3> QED BY <3>1, <3>2
  <2> QED BY <1>2, <2>1, <2>2 DEF Leads, script
<1>4. CASE AdmitInput \/ AdmitOutput
  <2>1. /\ todo # << >> /\ UNCHANGED <<script, call, views, copies, made>>
        /\ Head(todo) \in Admission
        /\ Advance \/ \E r : Return(r) /\ Refusal(r)
    BY <1>4, AdmissionsMean
  <2>2. CASE Advance
    <3>1. TruthInv'
      BY <1>1, <2>1, <2>2, TruthAdvance DEF script
    <3>2. Known'
      BY <1>1, <2>1, <2>2, KnownAdvance DEF Admission, script
    <3> QED BY <3>1, <3>2
  <2> QED BY <1>2, <2>1, <2>2 DEF script
<1>5. ASSUME NEW o \in Operands, Measure(MeasureOf(o), o) PROVE TruthInv' /\ Known'
  <2>1. /\ todo # << >> /\ UNCHANGED <<memory, copies>>
        /\ Advance \/ Return(InvalidByteInput)
    BY <1>5 DEF Measure, At, script
  <2>2. Refusal(InvalidByteInput)
    BY DEF Refusal, InvalidByteInput, Invocation, Failure
  <2>3. TruthInv'
    BY <1>1, <1>2, <2>1, <2>2, TruthAdvance
  <2> QED BY <1>5, <2>3, KnownMeasure
<1>6. ASSUME NEW stage \in {"allocateFirst", "allocateSecond"}, Allocate(stage) PROVE TruthInv' /\ Known'
  <2>1. /\ todo # << >> /\ Head(todo) = stage /\ Advance
        /\ UNCHANGED <<memory, ceiling, call, views, copies, made>> /\ attached' \subseteq Buffers
    BY <1>1, <1>6 DEF Allocate, At, ModuleGrows
  <2>2. TruthInv'
    BY <1>1, <2>1, TruthAdvance
  <2>3. Known'
    BY <2>1, KnownAdvance
  <2> QED BY <2>2, <2>3
<1>7. ASSUME NEW o \in Operands, Copy(CopyOf(o), o) PROVE TruthInv' /\ Known'
  <2> DEFINE i == views[o].offset + Len(copies[o]) + 1
             x == memory[views[o].buffer][i]
  <2>1. At(CopyOf(o)) /\ todo # << >> /\ UNCHANGED memory
    BY <1>7 DEF Copy, At, script
  <2>2. \/ /\ Len(copies[o]) < views[o].size /\ copies' = [copies EXCEPT ![o] = Append(@, x)]
           /\ UNCHANGED <<todo, result, signed>>
        \/ Advance /\ UNCHANGED copies
    BY <1>7 DEF Copy
  <2>3. ASSUME Advance, UNCHANGED copies PROVE TruthInv'
    <3>1. UNCHANGED <<memory, copies>> /\ TruthInv /\ todo # << >> /\ Advance
      BY <1>1, <2>1, <2>3
    <3> QED BY <3>1, TruthAdvance
  <2>4. ASSUME Len(copies[o]) < views[o].size, copies' = [copies EXCEPT ![o] = Append(@, x)],
               UNCHANGED <<todo, result, signed>>
        PROVE  TruthInv'
    <3>1. views[o].buffer \in Buffers /\ x \in OctetsOf(memory[views[o].buffer])
      BY <2>1, <2>4, CopyTakes
    <3>2. Vouched(x)
      BY <1>1, <3>1 DEF TruthInv, Clean
    <3>3. Clean(copies[o])
      BY <1>1 DEF TruthInv
    <3> HIDE DEF x
    <3>4. Clean(Append(copies[o], x))
      BY <3>2, <3>3, Appending DEF Clean
    <3>5. \A p \in Operands : Clean(copies'[p])
      BY <1>1, <2>4, <3>4 DEF TruthInv
    <3>6. \A s : Clean(s) => Clean(s)'
      BY <2>4, SignedStays
    <3>7. result' = Nothing /\ result'.output = << >> /\ result'.status = "none"
      BY <1>1, <2>1, <2>4 DEF TruthInv, Nothing, Failure
    <3>8. \A b \in Buffers : Clean(memory[b])'
      BY <1>1, <2>1, <3>6 DEF TruthInv
    <3>9. \A p \in Operands : Clean(copies[p])'
      BY <3>5, <3>6
    <3>10. DOMAIN memory' = Buffers
      BY <1>1, <2>1 DEF TruthInv
    <3>11. VerifiedIsSigned'
      BY <3>7 DEF VerifiedIsSigned
    <3> QED BY <3>7, <3>8, <3>9, <3>10, <3>11 DEF TruthInv
  <2>5. TruthInv'
    BY <2>2, <2>3, <2>4
  <2> QED BY <1>7, <2>5, KnownCopy
<1>8. ASSUME NEW stage, NEW o, CopyFails(stage, o) PROVE TruthInv' /\ Known'
  <2>1. Refusal(InvalidByteInput)
    BY DEF Refusal, InvalidByteInput, Invocation, Failure
  <2> QED BY <1>2, <1>8, <2>1 DEF CopyFails, script
<1>9. CASE Operate
  BY <1>9, TruthOperate, Returned DEF Operate, Return
<1>10. Measure("measureFirst", "first") \/ Measure("measureSecond", "second") =>
         \E o \in Operands : Measure(MeasureOf(o), o)
  BY DEF MeasureOf, Operands
<1>11. Copy("copyFirst", "first") \/ Copy("copySecond", "second") =>
         \E o \in Operands : Copy(CopyOf(o), o)
  BY DEF CopyOf, Operands
<1> QED BY <1>3, <1>4, <1>5, <1>6, <1>7, <1>8, <1>9, <1>10, <1>11 DEF Binding, Checks

LEMMA PairStep == ASSUME Pair, [Next]_vars PROVE Pair'
<1>1. CASE UNCHANGED copies
  BY <1>1 DEF Pair
<1>2. ASSUME NEW c \in Calls, Call(c) PROVE Pair'
  BY <1>2 DEF Call, Pair
<1>3. ASSUME NEW stage, NEW o, Copy(stage, o) PROVE Pair'
  <2>1. UNCHANGED copies \/ \E x : copies' = [copies EXCEPT ![o] = Append(@, x)]
    BY <1>3 DEF Copy
  <2>2. ASSUME NEW x, copies' = [copies EXCEPT ![o] = x] PROVE Pair'
    <3>1. copies' = [p \in Operands |-> IF p = o THEN x ELSE copies[p]]
      BY <2>2 DEF Pair
    <3> QED BY <3>1 DEF Pair
  <2> QED BY <1>1, <2>1, <2>2
<1>4. CASE UNCHANGED vars
  BY <1>1, <1>4 DEF vars
<1>5. CASE Checks \/ AdmitInput \/ AdmitOutput
  BY <1>1, <1>5, ChecksMean, AdmissionsMean DEF Leads
<1>6. ASSUME NEW stage, NEW o, Measure(stage, o) \/ Allocate(stage) \/ CopyFails(stage, o) PROVE Pair'
  BY <1>1, <1>6 DEF Measure, Allocate, CopyFails
<1>7. CASE Operate
  BY <1>1, <1>7 DEF Operate
<1>8. ASSUME NEW m, NEW b, Configure(m) \/ WithoutCeiling \/ Keep \/ Detach(b) \/ Shrink(b) PROVE Pair'
  BY <1>1, <1>8 DEF Configure, WithoutCeiling, Keep, Detach, Shrink
<1>9. ASSUME NEW b, NEW i, NEW octet, WorkerWrites(b, i, octet) \/ WorkerGrows(b, octet) PROVE Pair'
  BY <1>1, <1>9 DEF WorkerWrites, WorkerGrows
<1> QED BY <1>2, <1>3, <1>4, <1>5, <1>6, <1>7, <1>8, <1>9 DEF Next, Environment, Binding, Checks

LEMMA AllStep == ASSUME SoundCore PROVE All /\ [Next]_vars => All'
<1> SUFFICES ASSUME All, [Next]_vars PROVE All'
  OBVIOUS
<1>1. Inv'
  BY InvStep DEF All
<1>5. Pair'
  BY PairStep DEF All
<1>2. CASE UNCHANGED vars
  <2>1. UNCHANGED <<memory, call, todo, views, copies, result, signed>>
    BY <1>2 DEF vars, script
  <2>2. TruthInv'
    BY <2>1, TruthInMemory DEF All, TruthInv
  <2>3. Known'
    BY <2>1 DEF All, Known, TidyInv, SightInv, FaithInv, Sight, CopiedSoFar, Ahead
  <2> QED BY <1>1, <1>5, <2>2, <2>3 DEF All, Known
<1>3. CASE Environment
  BY <1>1, <1>3, <1>5, TruthOutside, KnownOutside DEF All, Known
<1>4. CASE Binding
  BY <1>1, <1>4, <1>5, BindingKnows DEF All, Known
<1> QED BY <1>2, <1>3, <1>4 DEF Next

LEMMA AllInit == Init => All
<1> SUFFICES ASSUME Init PROVE All
  OBVIOUS
<1>1. todo = << >>
  BY DEF Init
<1>2. Pair
  BY DEF Init, Pair
<1> QED BY <1>1, <1>2, InitInv, TruthInit DEF All, TidyInv, SightInv, FaithInv

LEMMA AlwaysAll == ASSUME SoundCore PROVE Spec => []All
  BY AllInit, AllStep, PTL DEF Spec

\* A payload reported as verified was signed under the key octets that the call
\* copied, for any worker that writes any octets at any moment, if the Rust
\* operations verify only what a signature they read attests (verify).
THEOREM VerifiedWasSigned == ASSUME SoundCore PROVE Spec => []VerifiedIsSigned
<1>1. All => VerifiedIsSigned
  BY DEF All, TruthInv
<1> QED BY <1>1, AlwaysAll, PTL

-----------------------------------------------------------------------------
(* Refusals.                                                               *)

\* A buffer that nobody can change holds what the call measured.
LEMMA PartOfOctets ==
    ASSUME NEW m, IsOctets(m), NEW f \in Nat, NEW s \in Nat, f + s <= Len(m)
    PROVE  LET t == SubSeq(m, f + 1, f + s) IN
           IsOctets(t) /\ Len(t) = s /\ \A n \in 1..s : t[n] = m[f + n]
<1> DEFINE t == SubSeq(m, f + 1, f + s)
<1>1. Len(m) \in Nat /\ m \in Seq(OctetsOf(m))
  BY Reading DEF IsOctets
<1>2. t \in Seq(OctetsOf(m)) /\ Len(t) = s /\ \A n \in 1..s : t[n] = m[f + n]
  <2>1. CASE s = 0
    <3>1. t = << >>
      BY <1>1, <2>1
    <3>2. 1..s = {}
      BY <2>1
    <3>4. << >> \in Seq(OctetsOf(m)) /\ Len(<< >>) = 0
      OBVIOUS
    <3>3. t \in Seq(OctetsOf(m)) /\ Len(t) = 0
      BY <3>1, <3>4, Zenon
    <3> HIDE DEF t
    <3> QED BY <2>1, <3>2, <3>3
  <2>2. CASE s # 0
    <3>1. f + 1 \in 1..Len(m) /\ f + s \in 1..Len(m) /\ f + 1 <= f + s
      BY <1>1, <2>2
    <3>2. Len(t) = s /\ t \in Seq(OctetsOf(m))
      BY <1>1, <3>1
    <3>3. \A n \in 1..s : t[n] = m[f + n]
      BY <1>1, <3>1
    <3> QED BY <3>2, <3>3
  <2> QED BY <2>1, <2>2
<1>3. IsOctets(t)
  BY <1>2, OctetsIn
<1> QED BY <1>2, <1>3

LEMMA SourceIsOctets ==
    ASSUME All, call \in Calls, NEW o \in Operands, Stable(o)
    PROVE  IsOctets(Source(o))
<1> DEFINE v == call[o]
           m == memory[v.buffer]
           n == Length(v)
<1>1. v.buffer \in Buffers /\ v.offset \in Nat /\ (v.length \in Nat \/ v.length = Tracking)
  BY WasmAssumption DEF Stable, Measurable, IsView
<1>2. IsOctets(m) /\ Len(m) \in Nat
  BY <1>1, Reading DEF All, TruthInv, Clean
<1>3. n \in Nat /\ v.offset + n <= Len(m)
  <2>1. MaxUsize \in Nat /\ Tracking \notin Nat /\ n \in 0..MaxUsize /\ Usable(v)
    BY WasmAssumption DEF Stable, Measurable
  <2>2. CASE v.length = Tracking
    BY <1>1, <1>2, <2>1, <2>2 DEF Length
  <2>3. CASE v.length # Tracking
    BY <1>1, <1>2, <2>1, <2>3 DEF Length, Usable
  <2> QED BY <2>2, <2>3
<1> HIDE DEF m, n
<1>4. IsOctets(SubSeq(m, v.offset + 1, v.offset + n))
  BY <1>1, <1>2, <1>3, PartOfOctets
<1> QED BY <1>4 DEF Source, m, n

LEMMA SourceSeen ==
    ASSUME All, NEW o \in Operands, Sight(o), Stable(o)
    PROVE  /\ Length(call[o]) = views[o].size /\ IsOctets(Source(o))
           /\ Len(Source(o)) = views[o].size
           /\ \A n \in 1..views[o].size :
                Source(o)[n] = memory[call[o].buffer][call[o].offset + n]
<1> DEFINE v == call[o]
           m == memory[v.buffer]
           s == views[o].size
           f == v.offset
<1>1. v.buffer \in Buffers /\ f \in Nat /\ s \in Nat /\ f + s <= Len(m)
  BY DEF Sight, IsView
<1>2. IsOctets(m) /\ Len(m) \in Nat
  BY <1>1, Reading DEF All, TruthInv, Clean
<1>3. Length(v) = s
  <2>1. CASE v.length = Tracking
    <3>1. f + s = Len(m) /\ Length(v) = Len(m) - f
      BY <2>1 DEF Sight, Stable, Length
    <3> QED BY <1>1, <1>2, <3>1
  <2>2. CASE v.length # Tracking
    BY <2>2 DEF Sight, Length
  <2> QED BY <2>1, <2>2
<1>4. Source(o) = SubSeq(m, f + 1, f + s)
  BY <1>3 DEF Source
<1> HIDE DEF m, s, f
<1>5. /\ IsOctets(SubSeq(m, f + 1, f + s)) /\ Len(SubSeq(m, f + 1, f + s)) = s
      /\ \A n \in 1..s : SubSeq(m, f + 1, f + s)[n] = m[f + n]
  BY <1>1, <1>2, PartOfOctets
<1> QED BY <1>3, <1>4, <1>5 DEF m, s, f

\* Its copy is what it holds.
LEMMA CopyIsSource ==
    ASSUME All, NEW o \in Taken(call.op), todo # << >>, ~Ahead(CopyOf(o)), Stable(o)
    PROVE  copies[o] = Source(o)
<1>1. o \in Operands
  BY DEF Taken, Operands
<1>2. ~Ahead(MeasureOf(o)) /\ Sight(o) /\ CopiedSoFar(o) /\ Len(copies[o]) = views[o].size
  BY DEF All, SightInv, FaithInv
<1>3. IsOctets(copies[o])
  BY <1>1 DEF All, TruthInv, Clean
<1>4. /\ IsOctets(Source(o)) /\ Len(Source(o)) = views[o].size
      /\ \A n \in 1..views[o].size : Source(o)[n] = memory[call[o].buffer][call[o].offset + n]
  BY <1>1, <1>2, SourceSeen
<1>5. \A n \in 1..views[o].size : copies[o][n] = Source(o)[n]
  BY <1>2, <1>4 DEF CopiedSoFar, Stable
<1>6. copies[o] \in Seq(OctetsOf(copies[o])) /\ Source(o) \in Seq(OctetsOf(Source(o)))
  BY <1>3, <1>4 DEF IsOctets
<1> DEFINE S == OctetsOf(copies[o]) \cup OctetsOf(Source(o))
           s == copies[o]
           t == Source(o)
<1>7. s \in Seq(S) /\ t \in Seq(S)
  BY <1>6
<1>8. Len(s) = Len(t) /\ \A n \in 1..Len(s) : s[n] = t[n]
  BY <1>2, <1>4, <1>5
<1> HIDE DEF S, s, t
<1>9. s = t
  BY <1>7, <1>8
<1> QED BY <1>9 DEF s, t

\* A refusal for an argument.
LEMMA ArgumentRefused ==
    ASSUME All, NEW o \in Operands, Measure(MeasureOf(o), o) \/ CopyFails(CopyOf(o), o), todo' = << >>
    PROVE  Unusable(o)
<1>1. CASE CopyFails(CopyOf(o), o)
  <2>1. At(CopyOf(o)) /\ ~Copyable(views[o])
    BY <1>1 DEF CopyFails
  <2>2. call[o].buffer \notin attached
    BY <2>1, AtCopy
  <2> QED BY <2>2 DEF Unusable, Usable
<1>2. CASE Measure(MeasureOf(o), o)
  <2>1. /\ todo # << >> /\ Head(todo) = MeasureOf(o) /\ UNCHANGED <<script, call, copies, made>>
        /\ (Measurable(call[o]) /\ Advance) \/ ~Measurable(call[o])
    BY <1>2 DEF Measure, At
  <2>2. ~Measurable(call[o])
    <3> SUFFICES ASSUME Advance PROVE FALSE
      BY <2>1
    <3>1. Head(todo) # "operate" /\ UNCHANGED <<call, ceiling, made>> /\ attached' \subseteq Buffers
      BY <2>1 DEF MeasureOf, script, All, Inv, BasicInv
    <3>2. todo' # << >>
      BY <2>1, <3>1, Advancing DEF All
    <3> QED BY <3>2
  <2> DEFINE v == call[o]
             n == Length(v)
  <2>3. CASE v # NotBytes /\ Usable(v)
    <3>1. IsView(v)
      BY <2>1, <2>3, WasmAssumption DEF All, Inv, StageInv
    <3>2. v.offset \in Nat /\ Len(memory[v.buffer]) \in Nat
      BY <3>1, Reading DEF IsView, All, TruthInv, Clean
    <3>3. n \in Nat
      <4>1. CASE v.length = Tracking
        <5>1. n = Len(memory[v.buffer]) - v.offset
          BY <4>1 DEF Length
        <5>2. v.offset + 0 <= Len(memory[v.buffer])
          BY <2>3, <4>1 DEF Usable
        <5> HIDE DEF n
        <5> QED BY <3>2, <5>1, <5>2
      <4>2. CASE v.length # Tracking
        BY <3>1, <4>2 DEF Length, IsView
      <4> QED BY <4>1, <4>2
    <3>4. ~(n \in 0..MaxUsize)
      BY <2>2, <2>3 DEF Measurable
    <3>5. n > MaxUsize
      <4> HIDE DEF n
      <4> QED BY <3>3, <3>4, WasmAssumption
    <3> QED BY <3>5 DEF Unusable
  <2>4. CASE ~(v # NotBytes /\ Usable(v))
    BY <2>4 DEF Unusable
  <2> QED BY <2>3, <2>4
<1> QED BY <1>1, <1>2

\* What is longer than a size that is too long is too long.
LEMMA LongerStill ==
    ASSUME BasicInv, NEW m \in Nat, NEW n \in Nat, n >= m, TooLong(m) PROVE TooLong(n)
<1>1. MaxUsize \in Nat /\ (ceiling # Unlimited => ceiling \in Nat)
  BY WasmAssumption DEF BasicInv
<1> QED BY <1>1 DEF TooLong, Exceeds

\* A refusal for a size at admission, and after the operation.
LEMMA AdmissionRefused ==
    ASSUME All, SoundCore, AdmitInput \/ AdmitOutput, todo' = << >>
    PROVE  Oversized
<1>1. /\ todo # << >> /\ UNCHANGED <<script, call, views, copies, made>>
      /\ Head(todo) \in Admission
      /\ \/ Advance
         \/ /\ call.limited
            /\ IF Head(todo) = "admitInput" THEN Exceeds(views.first.size)
               ELSE TooLong(Minimum)
  BY AdmissionsMean
<1>2. InOrder(todo, call.op) /\ Tidy(todo, call.op) /\ call \in Calls
  BY <1>1 DEF All, Inv, StageInv, TidyInv
<1>3. Head(todo) # "operate" /\ \A o \in Operands : Head(todo) # MeasureOf(o)
  BY <1>1 DEF Admission, MeasureOf
<1>4. ~Advance
  <2> SUFFICES ASSUME Advance PROVE FALSE
    OBVIOUS
  <2>1. UNCHANGED <<call, ceiling, made>> /\ attached' \subseteq Buffers
    BY <1>1 DEF script, All, Inv, BasicInv
  <2>2. todo' # << >>
    BY <1>1, <1>3, <2>1, Advancing DEF All
  <2> QED BY <2>2
<1>5. In(Head(todo), todo)
  BY <1>2 DEF In, InOrder
<1>6. \A o \in Counted(call.op) : ~Ahead(MeasureOf(o)) /\ o \in Operands
  <2>1. \A o \in Counted(call.op) : ~In(MeasureOf(o), Tail(todo))
    BY <1>1, <1>2, <1>3, Onward
  <2>2. \A o \in Counted(call.op) : o \in Operands
    BY DEF Counted, Operands
  <2> QED BY <1>2, <1>3, <2>1, <2>2, Onward DEF Ahead
<1>7. \A o \in Counted(call.op) : o \in Taken(call.op) /\ Sight(o)
  <2>1. \A o \in Counted(call.op) : o \in Taken(call.op)
    BY DEF Counted, Taken, Operands
  <2> QED BY <1>1, <1>6, <2>1 DEF All, SightInv
<1>8. "first" \in Counted(call.op) /\ (call.op = "compose" => "second" \in Counted(call.op))
  BY DEF Counted, Operands
<1>9. \A o \in Counted(call.op) : Stable(o) =>
         /\ IsOctets(Source(o)) /\ Len(Source(o)) = views[o].size /\ views[o].size \in Nat
  BY <1>6, <1>7, SourceSeen DEF Sight
<1>10. CASE Head(todo) = "admitInput"
  <2>1. call.op \notin Framing /\ Exceeds(views.first.size)
    BY <1>1, <1>2, <1>4, <1>5, <1>10 DEF Tidy
  <2> QED BY <1>8, <1>9, <2>1 DEF Oversized
<1>11. CASE Head(todo) = "admitOutput"
  <2>1. call.op \in Framing /\ TooLong(Minimum)
    BY <1>1, <1>2, <1>4, <1>5, <1>11 DEF Tidy
  <2>2. CASE ~Stable("first") \/ ~Stable("second")
    BY <2>1, <2>2 DEF Oversized
  <2>3. CASE Stable("first") /\ Stable("second")
    <3> DEFINE copied == [o \in Operands |-> Source(o)]
               r == Core(call, copied)
               size == IF r.status = "success" THEN Len(r.output[1]) ELSE Projected(call, copied)
    <3>1. copied.first = Source("first") /\ copied.second = Source("second")
      BY DEF Operands
    <3>2. CoreKeeps(copied)
      <4>1. \A o \in Operands : IsOctets(Source(o))
        BY <1>2, <2>3, SourceIsOctets DEF Operands
      <4>2. copied = [o \in Operands |-> copied[o]] /\ \A o \in Operands : IsOctets(copied[o])
        BY <4>1
      <4> HIDE DEF copied
      <4> QED BY <4>2 DEF SoundCore
    <3>3. /\ Projected(call, copied) \in Nat
          /\ Projected(call, copied) >=
                Len(copied.first) + (IF call.op = "compose" THEN Len(copied.second) ELSE 0)
          /\ r.status = "success" =>
                r.output # << >> /\ IsOctets(r.output[1]) /\ Len(r.output[1]) >= Projected(call, copied)
      BY <1>2, <2>1, <3>2 DEF CoreKeeps
    <3>4. r.status = "success" => Len(r.output[1]) \in Nat
      BY <3>3, Reading
    <3>5. size \in Nat /\ size >= Projected(call, copied)
      BY <3>3, <3>4
    <3>6. Minimum \in Nat /\ Projected(call, copied) >= Minimum
      <4>1. views.first.size \in Nat /\ Len(Source("first")) = views.first.size
        BY <1>8, <1>9, <2>3
      <4>2. CASE call.op = "compose"
        <5>1. views.second.size \in Nat /\ Len(Source("second")) = views.second.size
          BY <1>8, <1>9, <2>3, <4>2
        <5>2. Minimum = views.first.size + views.second.size
          BY <4>2 DEF Minimum
        <5>3. Projected(call, copied) >= views.first.size + views.second.size
          BY <3>1, <3>3, <4>1, <4>2, <5>1
        <5> QED BY <4>1, <5>1, <5>2, <5>3
      <4>3. CASE call.op # "compose"
        <5>1. Minimum = views.first.size
          BY <4>3 DEF Minimum
        <5>2. Projected(call, copied) >= views.first.size + 0
          BY <3>1, <3>3, <4>1, <4>3
        <5> QED BY <4>1, <5>1, <5>2
      <4> QED BY <4>2, <4>3
    <3>7. TooLong(size)
      <4>1. size >= Minimum
        BY <3>3, <3>5, <3>6
      <4> HIDE DEF size
      <4> QED BY <2>1, <3>5, <3>6, <4>1, LongerStill DEF All, Inv
    <3> QED BY <2>1, <3>7 DEF Oversized
  <2> QED BY <2>2, <2>3
<1> QED BY <1>1, <1>10, <1>11 DEF Admission

LEMMA OperationRefused ==
    ASSUME All, SoundCore, Operate
    PROVE  result'.code # "invalid_byte_input" /\ (result'.status = "resource_error" => Oversized)
<1>1. /\ todo # << >> /\ Head(todo) = "operate"
      /\ call \in Calls /\ CoreKeeps(copies)
      /\ \/ Return(Core(call, copies))
         \/ \E n : /\ Return(OutputRefusal(n)) /\ call.limited /\ call.op \in Framing /\ TooLong(n)
                   /\ EmittedOrProjected(n, Core(call, copies), Projected(call, copies))
  BY OperateMeans
<1>2. CASE Return(Core(call, copies))
  <2>1. Core(call, copies).status # "resource_error" /\ Core(call, copies).code # "invalid_byte_input"
    BY <1>1 DEF CoreKeeps
  <2> QED BY <1>2, <2>1 DEF Return
<1>3. ASSUME NEW n, Return(OutputRefusal(n)), call.op \in Framing, TooLong(n),
             EmittedOrProjected(n, Core(call, copies), Projected(call, copies))
      PROVE  result'.code # "invalid_byte_input" /\ (result'.status = "resource_error" => Oversized)
  <2>1. result'.code # "invalid_byte_input"
    BY <1>3 DEF Return, OutputRefusal, TooLarge, Failure
  <2>2. CASE ~Stable("first") \/ ~Stable("second")
    BY <1>3, <2>1, <2>2 DEF Oversized
  <2>3. CASE Stable("first") /\ Stable("second")
    <3>1. \A o \in Operands : o \in Taken(call.op)
      BY <1>3 DEF Taken, Framing
    <3>2. \A o \in Operands : ~Ahead(CopyOf(o))
      <4>1. InOrder(todo, call.op) /\ Tidy(todo, call.op)
        BY <1>1 DEF All, Inv, StageInv, TidyInv
      <4>2. todo \in Seq(StageNames) /\ todo[1] = "operate" /\ 1 \in DOMAIN todo
        BY <1>1, <4>1 DEF InOrder
      <4>3. Len(todo) = 1
        BY <1>1, <4>1, <4>2 DEF Tidy
      <4>4. \A i \in DOMAIN todo : todo[i] = "operate"
        BY <4>2, <4>3
      <4> QED BY <4>4 DEF Ahead, In, CopyOf
    <3>3. \A o \in Operands : copies[o] = Source(o)
      BY <1>1, <2>3, <3>1, <3>2, CopyIsSource DEF Operands
    <3>4. copies = [o \in Operands |-> Source(o)]
      BY <3>3 DEF All, Pair
    <3> DEFINE r == Core(call, copies)
               projected == Projected(call, copies)
               size == IF r.status = "success" THEN Len(r.output[1]) ELSE projected
    <3>5. /\ projected \in Nat
          /\ r.status = "success" =>
                r.output # << >> /\ IsOctets(r.output[1]) /\ Len(r.output[1]) >= projected
      BY <1>1, <1>3 DEF CoreKeeps
    <3>6. r.status = "success" => Len(r.output[1]) \in Nat
      BY <3>5, Reading
    <3>7. n \in Nat /\ size \in Nat /\ size >= n
      <4>1. n = projected \/ (r.status = "success" /\ n = Len(r.output[1]))
        BY <1>3 DEF EmittedOrProjected
      <4> HIDE DEF r, projected
      <4> QED BY <3>5, <3>6, <4>1
    <3>8. TooLong(size)
      <4> HIDE DEF size
      <4> QED BY <1>3, <3>7, LongerStill DEF All, Inv
    <3>9. LET given == [o \in Operands |-> Source(o)]
              q == Core(call, given)
          IN  TooLong(IF q.status = "success" THEN Len(q.output[1]) ELSE Projected(call, given))
      BY <3>4, <3>8, Zenon
    <3>10. Oversized
      BY <1>3, <3>9, Zenon DEF Oversized
    <3> QED BY <2>1, <3>10
  <2> QED BY <2>2, <2>3
<1> QED BY <1>1, <1>2, <1>3

\* No step of the script or the worker ends a call.
LEMMA OutsideReturnsNothing == ASSUME Environment PROVE ~Returns
<1> SUFFICES ASSUME Returns PROVE FALSE
  OBVIOUS
<1>1. todo # << >> /\ todo' # todo
  BY DEF Returns
<1>2. ASSUME NEW c \in Calls, Call(c) PROVE FALSE
  BY <1>1, <1>2 DEF Call, Idle
<1>3. ASSUME NEW m, NEW b, Configure(m) \/ WithoutCeiling \/ Keep \/ Detach(b) \/ Shrink(b) PROVE FALSE
  BY <1>1, <1>3 DEF Configure, WithoutCeiling, Keep, Detach, Shrink
<1>4. ASSUME NEW b, NEW i, NEW octet, WorkerWrites(b, i, octet) \/ WorkerGrows(b, octet) PROVE FALSE
  BY <1>1, <1>4 DEF WorkerWrites, WorkerGrows
<1> QED BY <1>2, <1>3, <1>4 DEF Environment

Conclusive ==
    /\ result'.code = "invalid_byte_input" => \E o \in Operands : Unusable(o)
    /\ result'.status = "resource_error" => Oversized

LEMMA RefusalStep == ASSUME All, SoundCore, [Next]_vars, Returns PROVE Conclusive
<1>1. todo # << >> /\ todo' = << >> /\ Binding
  <2>1. todo # << >> /\ todo' = << >>
    BY DEF Returns
  <2>2. ~UNCHANGED vars
    BY <2>1 DEF vars
  <2> QED BY <2>1, <2>2, OutsideReturnsNothing DEF Next
<1>2. attached \subseteq Buffers
  BY DEF All, Inv, BasicInv
<1>3. ASSUME Advance, Head(todo) # "operate", UNCHANGED <<ceiling, call, made>>, attached' \subseteq Buffers
      PROVE  Conclusive
  <2>1. todo' # << >>
    BY <1>1, <1>3, Advancing DEF All
  <2> QED BY <1>1, <2>1
<1>4. CASE Checks
  <2>1. Leads
    BY <1>4, ChecksMean
  <2>2. ASSUME NEW r, Return(r), Unrelated(r) PROVE Conclusive
    BY <2>2 DEF Return, Unrelated, Conclusive
  <2> QED BY <1>2, <1>3, <2>1, <2>2 DEF Leads, script
<1>5. CASE AdmitInput \/ AdmitOutput
  <2>1. Oversized
    BY <1>1, <1>5, AdmissionRefused
  <2>2. /\ UNCHANGED <<script, call, made>> /\ Head(todo) # "operate"
        /\ Advance \/ \E r : Return(r) /\ r.code # "invalid_byte_input"
    BY <1>5, AdmissionsMean DEF Admission
  <2>3. ASSUME NEW r, Return(r), r.code # "invalid_byte_input" PROVE Conclusive
    BY <2>1, <2>3 DEF Return, Conclusive
  <2> QED BY <1>2, <1>3, <2>2, <2>3 DEF script
<1>6. ASSUME NEW o \in Operands, Measure(MeasureOf(o), o) \/ CopyFails(CopyOf(o), o) PROVE Conclusive
  <2>1. Unusable(o)
    BY <1>1, <1>6, ArgumentRefused
  <2>2. /\ UNCHANGED <<script, call, made>>
        /\ Advance \/ Return(InvalidByteInput)
        /\ Head(todo) # "operate"
    BY <1>6 DEF Measure, CopyFails, At, MeasureOf, CopyOf
  <2>3. CASE Return(InvalidByteInput)
    <3>1. result'.status # "resource_error"
      BY <2>3 DEF Return, InvalidByteInput, Invocation, Failure
    <3> QED BY <2>1, <3>1 DEF Conclusive
  <2> QED BY <1>2, <1>3, <2>2, <2>3 DEF script
<1>7. ASSUME NEW stage \in {"allocateFirst", "allocateSecond"}, Allocate(stage) PROVE Conclusive
  BY <1>2, <1>3, <1>7 DEF Allocate, At, ModuleGrows
<1>8. ASSUME NEW o \in Operands, Copy(CopyOf(o), o) PROVE Conclusive
  <2>1. UNCHANGED <<script, call, made>> /\ (UNCHANGED todo \/ Advance) /\ Head(todo) # "operate"
    BY <1>8 DEF Copy, At, CopyOf
  <2> QED BY <1>1, <1>2, <1>3, <2>1 DEF script
<1>9. CASE Operate
  BY <1>9, OperationRefused DEF Conclusive
<1>10. \/ Checks \/ AdmitInput \/ AdmitOutput \/ Operate
       \/ \E o \in Operands : Measure(MeasureOf(o), o) \/ CopyFails(CopyOf(o), o) \/ Copy(CopyOf(o), o)
       \/ Allocate("allocateFirst") \/ Allocate("allocateSecond")
  <2>1. /\ "first" \in Operands /\ MeasureOf("first") = "measureFirst" /\ CopyOf("first") = "copyFirst"
        /\ "second" \in Operands /\ MeasureOf("second") = "measureSecond" /\ CopyOf("second") = "copySecond"
    BY DEF Operands, MeasureOf, CopyOf
  <2> QED BY <1>1, <2>1, Zenon DEF Binding, Checks
<1> QED BY <1>4, <1>5, <1>6, <1>7, <1>8, <1>9, <1>10

\* A call is refused for an argument only if the script broke the argument, and
\* for a size only if an operand that nobody else can change, or what would be
\* made of it, exceeds the ceiling (ByteInput, with_admitted_output).
THEOREM RefusedForCause == ASSUME SoundCore PROVE Spec => RefusalsConclusive
<1>1. All /\ [Next]_vars /\ Returns => Conclusive
  BY RefusalStep
<1>3. All /\ [Next]_vars =>
        [Returns =>
          /\ result'.code = "invalid_byte_input" => \E o \in Operands : Unusable(o)
          /\ result'.status = "resource_error" => Oversized]_vars
  BY <1>1, Zenon DEF Conclusive
<1> QED BY <1>3, AlwaysAll, PTL DEF Spec, RefusalsConclusive
=============================================================================
