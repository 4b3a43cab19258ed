---------------------- MODULE ProviderVerification_proofs ----------------------
(***************************************************************************)
(* Proofs about ProviderVerification, for every set of calls, requests,    *)
(* keys, faults and bounds.                                                *)
(***************************************************************************)
EXTENDS ProviderVerification, SequenceTheorems, TLAPS

Handles == [alg: Algs, value: Values]

-----------------------------------------------------------------------------
(* Lemmas about the suites and the decisions.                              *)

SuiteSteps ==
    [op: {"bind"}, handle: {"first", "later"}, value: Values]
      \cup [op: {"expect"}, handle: {"first", "later"}, outcome: Outcomes,
            signature: {Rfc8032, MixedR, MixedA, Low, High, Alternate},
            message: {"empty", "r_message", "a_message", "not_empty", "p256", "different"}]

\* One round of the Ed25519 suite is six steps and does not end with a bind.
LEMMA RoundShape ==
    ASSUME NEW v \in {MixedR, MixedA}
    PROVE  Round(v) \in Seq(SuiteSteps) /\ Len(Round(v)) = 6 /\ Round(v)[6].op = "expect"
<1> DEFINE m == {"empty", "r_message", "a_message", "not_empty", "p256", "different"}
<1>1. v.key \in Values /\ v.message \in m
  BY DEF MixedR, MixedA, Signature, Values
<1>2. Bind("later", v.key) \in SuiteSteps
  BY <1>1 DEF Bind, SuiteSteps
<1>3. /\ Valid("later", v) \in SuiteSteps /\ Valid("first", Rfc8032) \in SuiteSteps
      /\ Invalid("later", Rfc8032, Rfc8032.message) \in SuiteSteps
      /\ Invalid("first", v, v.message) \in SuiteSteps
  <2>1. Rfc8032.message \in m
    BY DEF Rfc8032, Signature
  <2>2. QED
    BY <1>1, <2>1 DEF Valid, Invalid, Expect, SuiteSteps, Outcomes
<1>4. Valid("later", v).op = "expect"
  BY DEF Valid, Expect
<1>5. QED
  BY <1>2, <1>3, <1>4 DEF Round

\* A sequence that is extended ends where its extension ends.
LEMMA ConcatEnd ==
    ASSUME NEW S, NEW s1 \in Seq(S), NEW s2 \in Seq(S), Len(s2) > 0
    PROVE  /\ s1 \o s2 \in Seq(S)
           /\ Len(s1 \o s2) = Len(s1) + Len(s2)
           /\ (s1 \o s2)[Len(s1) + Len(s2)] = s2[Len(s2)]
<1>1. Len(s1) \in Nat /\ Len(s2) \in Nat
  OBVIOUS
<1>2. Len(s1) + Len(s2) \in 1..Len(s1) + Len(s2) /\ ~(Len(s1) + Len(s2) <= Len(s1))
  BY <1>1
<1>3. Len(s1) + Len(s2) - Len(s1) = Len(s2)
  BY <1>1
<1>4. QED
  BY <1>2, <1>3, ConcatProperties

\* Both suites are sequences of steps, and neither ends with a bind.
LEMMA SuiteShape ==
    ASSUME NEW alg \in Algs
    PROVE  /\ Suite(alg) \in Seq(SuiteSteps)
           /\ Len(Suite(alg)) \in Nat /\ Len(Suite(alg)) >= 1
           /\ Suite(alg)[Len(Suite(alg))].op = "expect"
<1>1. CASE alg = "ed25519"
  <2> DEFINE a == << Bind("first", Rfc8032.key), Valid("first", Rfc8032),
                     Invalid("first", Rfc8032, "not_empty") >>
  <2>1. a \in Seq(SuiteSteps) /\ Len(a) = 3
    BY DEF Bind, Valid, Invalid, Expect, SuiteSteps, Outcomes, Values, Rfc8032, Signature
  <2> HIDE DEF a
  <2> DEFINE r == Round(MixedR)
  <2>r. r \in Seq(SuiteSteps) /\ Len(r) = 6
    BY RoundShape
  <2> HIDE DEF r
  <2>2. a \o r \in Seq(SuiteSteps) /\ Len(a \o r) = 9
    <3>1. Len(r) > 0
      BY <2>r
    <3>2. a \o r \in Seq(SuiteSteps) /\ Len(a \o r) = Len(a) + Len(r)
      BY <2>1, <2>r, <3>1, ConcatEnd, Zenon
    <3>3. QED
      BY <2>1, <2>r, <3>2
  <2> DEFINE b == a \o r
  <2>3. b \in Seq(SuiteSteps) /\ Len(b) = 9
    BY <2>2
  <2> HIDE DEF b
  <2> DEFINE q == Round(MixedA)
  <2>4. q \in Seq(SuiteSteps) /\ Len(q) = 6 /\ q[6].op = "expect"
    BY RoundShape
  <2>6. Suite(alg) = b \o q
    BY <1>1 DEF Suite, Ed25519Suite, a, b, r
  <2> HIDE DEF q
  <2>5. b \o q \in Seq(SuiteSteps) /\ Len(b \o q) = 15 /\ (b \o q)[15] = q[6]
    <3>1. Len(b) + Len(q) = 15 /\ Len(q) > 0
      BY <2>3, <2>4
    <3>2. /\ b \o q \in Seq(SuiteSteps)
          /\ Len(b \o q) = Len(b) + Len(q)
          /\ (b \o q)[Len(b) + Len(q)] = q[Len(q)]
      BY <2>3, <2>4, <3>1, ConcatEnd, Zenon
    <3>3. QED
      BY <2>4, <3>1, <3>2, Zenon
  <2>7. Len(Suite(alg)) = 15 /\ Suite(alg) \in Seq(SuiteSteps) /\ Suite(alg)[15].op = "expect"
    BY <2>4, <2>5, <2>6, Zenon
  <2>8. QED
    BY <2>7
<1>2. CASE alg = "p256"
  <2>1. /\ Bind("first", Low.key) \in SuiteSteps /\ Bind("later", Alternate.key) \in SuiteSteps
        /\ \A n \in {"first", "later"}, s \in {Low, High, Alternate} :
             /\ Valid(n, s) \in SuiteSteps
             /\ Invalid(n, s, s.message) \in SuiteSteps
             /\ Invalid(n, s, "different") \in SuiteSteps
    BY DEF Bind, Valid, Invalid, Expect, SuiteSteps, Outcomes, Values, Low, High, Alternate, Signature
  <2>2. Valid("later", Alternate).op = "expect"
    BY DEF Valid, Expect
  <2>3. Suite(alg) = P256Suite
    BY <1>2 DEF Suite
  <2>4. P256Suite \in Seq(SuiteSteps)
    BY <2>1 DEF P256Suite
  <2>5. Len(P256Suite) = 13 /\ P256Suite[13] = Valid("later", Alternate)
    BY DEF P256Suite
  <2>6. QED
    BY <2>2, <2>3, <2>4, <2>5
<1>3. QED
  BY <1>1, <1>2 DEF Algs

\* Any step of a suite names one of its two handles; a bind has a known key
\* and is followed by another step.
LEMMA StepShape ==
    ASSUME NEW alg \in Algs, NEW i \in 1..Len(Suite(alg))
    PROVE  /\ Suite(alg)[i].handle \in {"first", "later"}
           /\ Suite(alg)[i].op = "bind" =>
                Suite(alg)[i].value \in Values /\ i + 1 \in 1..Len(Suite(alg))
<1>1. Suite(alg)[i] \in SuiteSteps /\ Len(Suite(alg)) \in Nat
  BY SuiteShape
<1>2. Suite(alg)[i].handle \in {"first", "later"}
  BY <1>1 DEF SuiteSteps
<1>3. ASSUME Suite(alg)[i].op = "bind"
      PROVE  Suite(alg)[i].value \in Values /\ i # Len(Suite(alg))
  <2>1. Suite(alg)[i].value \in Values
    BY <1>1, <1>3 DEF SuiteSteps
  <2>2. i # Len(Suite(alg))
    BY <1>3, SuiteShape
  <2>3. QED
    BY <2>1, <2>2
<1>4. QED
  BY <1>1, <1>2, <1>3

\* Taking one element out of a sequence leaves a sequence of the same kind.
LEMMA WithoutType ==
    ASSUME NEW S, NEW s \in Seq(S), NEW i \in 1..Len(s)
    PROVE  Without(s, i) \in Seq(S)
<1>1. i \in Int /\ i - 1 \in Int /\ i + 1 \in Int /\ Len(s) \in Int /\ 1 \in Int
  OBVIOUS
<1>2. (\A j \in 1..(i - 1) : s[j] \in S) /\ (\A j \in (i + 1)..Len(s) : s[j] \in S)
  <2>1. \A j \in 1..Len(s) : s[j] \in S
    BY ElementOfSeq
  <2>2. (\A j \in 1..(i - 1) : j \in 1..Len(s)) /\ (\A j \in (i + 1)..Len(s) : j \in 1..Len(s))
    BY <1>1
  <2>3. QED
    BY <2>1, <2>2
<1>3. SubSeq(s, 1, i - 1) \in Seq(S)
  BY <1>1, <1>2, SubSeqProperties, Zenon
<1>4. SubSeq(s, i + 1, Len(s)) \in Seq(S)
  BY <1>1, <1>2, SubSeqProperties, Zenon
<1>5. QED
  BY <1>3, <1>4, ConcatProperties, Zenon DEF Without

\* A sequence over a set is one over any larger set.
LEMMA SeqGrows ==
    ASSUME NEW S, NEW T, S \subseteq T, NEW s \in Seq(S)
    PROVE  s \in Seq(T)
<1>1. Len(s) \in Nat /\ s \in [1..Len(s) -> S]
  BY LenProperties
<1>2. s \in [1..Len(s) -> T]
  BY <1>1
<1>3. QED
  BY <1>1, <1>2

\* What is known of the constants.
LEMMA Constants ==
    /\ \A k \in AppKeys : k \in Handles /\ k.alg \in Algs /\ k.value \in Values
    /\ \A c \in Calls : \A q \in Universe[c] : IsArtifact(q.artifact)
    /\ MaxOutages \in Nat
<1>1. \A k \in AppKeys : k \in Handles /\ k.alg \in Algs /\ k.value \in Values
  <2> SUFFICES ASSUME NEW k \in AppKeys PROVE k \in Handles /\ k.alg \in Algs /\ k.value \in Values
    OBVIOUS
  <2>1. k = [alg |-> k.alg, value |-> k.value] /\ k.alg \in Algs
    BY ProviderAssumption
  <2>2. k.value \in Values
    BY DEF Values
  <2>3. QED
    BY <2>1, <2>2 DEF Handles
<1>2. QED
  BY <1>1, ProviderAssumption

-----------------------------------------------------------------------------
(* The decisions that await nothing.                                       *)

\* A finished call's verdict, and an outcome classified, are results.
LEMMA ResultShape ==
    /\ \A name \in {"Unsigned", "MalformedAttemptedSigned"} : State(name) \in Results
    /\ \A name \in {"InputArtifactTooLarge", "InvalidAlgorithmParameters",
                    "InvalidPreVerifyResult", "KeyResolutionFailure"} : Error(name) \in Results
    /\ \A alg \in Algs : StateOf("SignedButAlgorithmUnsupported", alg) \in Results
    /\ \A alg \in Algs, outcome \in Outcomes : Classify(outcome, alg) \in Results
<1>1. \A alg \in Algs, outcome \in Outcomes : Classify(outcome, alg) \in Results
  <2> SUFFICES ASSUME NEW alg \in Algs, NEW outcome \in Outcomes
               PROVE  Classify(outcome, alg) \in Results
    OBVIOUS
  <2>1. CASE outcome = "Verified"
    BY <2>1 DEF Classify, StateOf, Results
  <2>2. CASE outcome = "SignatureMismatch"
    BY <2>2 DEF Classify, State, Results
  <2>3. CASE outcome = "ProviderFailure"
    BY <2>3 DEF Classify, KeyResolutionFailure, Error, Results
  <2>4. QED
    BY <2>1, <2>2, <2>3 DEF Outcomes
<1>2. QED
  BY <1>1 DEF State, StateOf, Error, Results

\* The work left for a key, whatever the request: an enabled algorithm, octets
\* in proper form, and the admissible key of that slot.
Fitting(q, w) ==
    /\ w.alg = AlgorithmOf(q.artifact.alg) /\ w.alg \in q.enabled
    /\ q.artifact.shape = "proper"
    /\ w.key = q.keys[w.alg] /\ w.key # NoKey /\ w.key.alg = w.alg

LEMMA PrepareShape ==
    ASSUME NEW q, IsArtifact(q.artifact)
    PROVE  LET w == Prepare(q.artifact.alg, q.artifact.shape, q.keys, q.enabled)
           IN  IF w.work THEN Fitting(q, w) ELSE w.result \in Results
<1> DEFINE w == Prepare(q.artifact.alg, q.artifact.shape, q.keys, q.enabled)
           alg == AlgorithmOf(q.artifact.alg)
           vk == q.keys[alg]
<1> SUFFICES IF w.work THEN Fitting(q, w) ELSE w.result \in Results
  OBVIOUS
<1>1. alg \in Algs
  BY DEF AlgorithmOf, Algs
<1>2. \/ w = Complete(Malformed)
      \/ w = Complete(StateOf("SignedButAlgorithmUnsupported", alg))
      \/ w = Complete(KeyResolutionFailure)
      \/ /\ w = Work(alg, vk)
         /\ q.artifact.shape \notin {"empty", "wrong_length", "out_of_range"}
         /\ alg \in q.enabled /\ vk # NoKey /\ AdmissibleIn(alg, vk)
  BY Zenon DEF Prepare
<1>3. \A r : Complete(r).work = FALSE /\ Complete(r).result = r
  BY DEF Complete
<1>4. Work(alg, vk).work = TRUE /\ Work(alg, vk).alg = alg /\ Work(alg, vk).key = vk
  BY DEF Work
<1> HIDE DEF w
<1>5. CASE /\ w = Work(alg, vk)
           /\ q.artifact.shape \notin {"empty", "wrong_length", "out_of_range"}
           /\ alg \in q.enabled /\ vk # NoKey /\ AdmissibleIn(alg, vk)
  <2>1. q.artifact.shape = "proper"
    BY <1>5 DEF IsArtifact
  <2>2. QED
    BY <1>4, <1>5, <2>1, Zenon DEF Fitting, AdmissibleIn
<1>6. CASE \E r \in Results : w = Complete(r)
  BY <1>3, <1>6, Zenon
<1>7. /\ Malformed \in Results /\ KeyResolutionFailure \in Results
      /\ StateOf("SignedButAlgorithmUnsupported", alg) \in Results
  BY <1>1, ResultShape DEF Malformed, KeyResolutionFailure
<1>8. QED
  BY <1>2, <1>5, <1>6, <1>7, Zenon

LEMMA AdmitShape ==
    ASSUME NEW q, NEW seen, IsArtifact(q.artifact)
    PROVE  IF Admit(q, seen).work THEN Fitting(q, Admit(q, seen))
                                  ELSE Admit(q, seen).result \in Results
<1> DEFINE w == Admit(q, seen)
<1>1. \/ \E r \in Results : w = Complete(r)
      \/ w = Prepare(q.artifact.alg, q.artifact.shape, q.keys, q.enabled)
  <2>1. /\ Malformed \in Results /\ State("Unsigned") \in Results
        /\ Error("InvalidAlgorithmParameters") \in Results
        /\ Error("InvalidPreVerifyResult") \in Results
    BY ResultShape DEF Malformed
  <2>2. QED
    BY <2>1, Zenon DEF Admit
<1>2. \A r : Complete(r).work = FALSE /\ Complete(r).result = r
  BY DEF Complete
<1> HIDE DEF w
<1>3. IF w.work THEN Fitting(q, w) ELSE w.result \in Results
  BY <1>1, <1>2, PrepareShape, Zenon
<1>4. QED
  BY <1>3 DEF w

-----------------------------------------------------------------------------
(* How the parts of the state move.                                        *)

\* A slot's key is none, or a native one, or one of the handles callers hold.
LEMMA KeyShape ==
    ASSUME ServiceTypeOK, BindTypeOK, NEW api, api # "builtin", NEW alg,
           NEW k \in KeysFor(api, alg), k # NoKey
    PROVE  k.handle \in 1..Len(handles) /\ handles[k.handle].alg = k.alg
<1>1. k \in BoundKeys
  BY DEF KeysFor
<1>2. PICK i \in 1..Len(held) :
        k = [alg |-> handles[held[i]].alg, value |-> handles[held[i]].value, handle |-> held[i]]
  BY <1>1 DEF BoundKeys
<1>3. held[i] \in 1..Len(handles)
  BY ElementOfSeq DEF BindTypeOK
<1>4. QED
  BY <1>2, <1>3

\* Handles are made one at a time, of a known algorithm and key, and the ones
\* made before stay what they were.
Grows(now, then) ==
    /\ Len(now) <= Len(then)
    /\ \A i \in 1..Len(now) : i \in 1..Len(then) /\ then[i] = now[i]

LEMMA Makes ==
    ASSUME ServiceTypeOK, NEW alg \in Algs, NEW value \in Values, MakeHandle(alg, value)
    PROVE  /\ handles' \in Seq(Handles) /\ Grows(handles, handles')
           /\ Len(handles') = Len(handles) + 1
           /\ handles'[Len(handles) + 1] = [alg |-> alg, value |-> value]
           /\ outages' = outages
<1>1. handles \in Seq(Handles) /\ Len(handles) \in Nat /\ [alg |-> alg, value |-> value] \in Handles
  BY DEF ServiceTypeOK, Handles
<1>2. handles' = Append(handles, [alg |-> alg, value |-> value]) /\ outages' = outages
  BY DEF MakeHandle
<1>3. QED
  BY <1>1, <1>2, AppendProperties DEF Grows

LEMMA Refuses ==
    ASSUME ServiceTypeOK, NEW alg, RefuseHandle(alg)
    PROVE  handles' = handles /\ outages' \in 0..MaxOutages
BY Constants DEF ServiceTypeOK, RefuseHandle

\* A step either leaves every call alone or belongs to one call, and then
\* leaves the rest alone.
Elsewhere == UNCHANGED <<providerVars, handles, suiteVars, bindVars>>
CallStep(c) == \/ VerifyWhole(c) \/ ReadFirst(c) \/ VerifyRead(c)
               \/ ProviderAnswers(c) \/ Resume(c) \/ DropCall(c)

LEMMA CallStepsLeave == ASSUME NEW c \in Calls, CallStep(c) PROVE Elsewhere
<1>1. CASE VerifyWhole(c)
  BY <1>1, Zenon DEF VerifyWhole, Elsewhere
<1>2. CASE ReadFirst(c)
  BY <1>2, Zenon DEF ReadFirst, Elsewhere
<1>3. CASE VerifyRead(c)
  BY <1>3, Zenon DEF VerifyRead, Elsewhere
<1>4. CASE ProviderAnswers(c)
  BY <1>4, Zenon DEF ProviderAnswers, Elsewhere
<1>5. CASE Resume(c)
  BY <1>5, Zenon DEF Resume, Elsewhere
<1>6. CASE DropCall(c)
  BY <1>6, Zenon DEF DropCall, Elsewhere
<1>7. QED
  BY <1>1, <1>2, <1>3, <1>4, <1>5, <1>6 DEF CallStep

-----------------------------------------------------------------------------
(* The invariant of verification calls: a call that has read its artifact  *)
(* holds one, and a call that waits for the provider holds the work that   *)
(* fits its request, with a handle bound for that algorithm.               *)

Phases == {"new", "read", "asked", "answered", "done", "dropped"}

Holds(q, w, hs) ==
    /\ Fitting(q, w)
    /\ w.key.handle \in 1..Len(hs) /\ hs[w.key.handle].alg = w.key.alg

RecordsOK ==
    /\ request = [c \in Calls |-> request[c]]
    /\ pre = [c \in Calls |-> pre[c]]
    /\ work = [c \in Calls |-> work[c]]

CallInv ==
    /\ CallTypeOK /\ RecordsOK
    /\ \A c \in Calls : phase[c] = "read" => IsArtifact(request[c].artifact)
    /\ \A c \in Calls : phase[c] \in {"asked", "answered"} => Holds(request[c], work[c], handles)

\* One call moves, to phase p with request q, and so on.
Moved(c, p, q, s, w, a, v) ==
    /\ phase' = [phase EXCEPT ![c] = p] /\ request' = [request EXCEPT ![c] = q]
    /\ pre' = [pre EXCEPT ![c] = s] /\ work' = [work EXCEPT ![c] = w]
    /\ answer' = [answer EXCEPT ![c] = a] /\ verdict' = [verdict EXCEPT ![c] = v]

LEMMA Stays ==
    ASSUME CallInv, NEW c \in Calls
    PROVE  /\ phase = [phase EXCEPT ![c] = phase[c]] /\ request = [request EXCEPT ![c] = request[c]]
           /\ pre = [pre EXCEPT ![c] = pre[c]] /\ work = [work EXCEPT ![c] = work[c]]
           /\ answer = [answer EXCEPT ![c] = answer[c]]
           /\ verdict = [verdict EXCEPT ![c] = verdict[c]]
BY DEF CallInv, CallTypeOK, RecordsOK

LEMMA MoveKeeps ==
    ASSUME CallInv, NEW c \in Calls, handles' = handles,
           NEW p \in Phases, NEW q, NEW s, NEW w, NEW a \in Outcomes \cup {"none"},
           NEW v \in Results \cup {Nothing}, Moved(c, p, q, s, w, a, v),
           p = "answered" => a \in Outcomes, p = "done" => v \in Results,
           p = "read" => IsArtifact(q.artifact),
           p \in {"asked", "answered"} => Holds(q, w, handles)
    PROVE  CallInv'
<1>1. \A d \in Calls : d # c => /\ phase'[d] = phase[d] /\ request'[d] = request[d]
                                /\ work'[d] = work[d] /\ answer'[d] = answer[d]
                                /\ verdict'[d] = verdict[d]
  BY DEF Moved, CallInv, CallTypeOK, RecordsOK
<1>2. /\ phase'[c] = p /\ request'[c] = q /\ work'[c] = w /\ answer'[c] = a /\ verdict'[c] = v
  BY DEF Moved, CallInv, CallTypeOK, RecordsOK
<1>3. RecordsOK'
  BY DEF Moved, CallInv, RecordsOK
<1>4. CallTypeOK'
  <2>1. phase' \in [Calls -> Phases] /\ answer' \in [Calls -> Outcomes \cup {"none"}]
        /\ verdict' \in [Calls -> Results \cup {Nothing}]
    BY DEF Moved, CallInv, CallTypeOK, Phases
  <2>2. \A d \in Calls : /\ phase'[d] = "answered" => answer'[d] \in Outcomes
                         /\ phase'[d] = "done" => verdict'[d] \in Results
    BY <1>1, <1>2, Zenon DEF CallInv, CallTypeOK
  <2>3. QED
    BY <2>1, <2>2 DEF CallTypeOK, Phases
<1>5. \A d \in Calls : phase'[d] = "read" => IsArtifact(request'[d].artifact)
  BY <1>1, <1>2, Zenon DEF CallInv
<1>6. \A d \in Calls : phase'[d] \in {"asked", "answered"} => Holds(request'[d], work'[d], handles')
  BY <1>1, <1>2, Zenon DEF CallInv
<1>7. QED
  BY <1>3, <1>4, <1>5, <1>6, Zenon DEF CallInv

\* The first half of a call ends it or leaves it waiting with fitting work.
LEMMA ProceedKeeps ==
    ASSUME CallInv, ServiceTypeOK, BindTypeOK, handles' = handles,
           NEW c \in Calls, NEW q, NEW seen, IsArtifact(q.artifact), Proceed(c, q, seen),
           q.api # "builtin" => \A alg \in Algs : q.keys[alg] \in KeysFor(q.api, alg)
    PROVE  CallInv'
<1> DEFINE w == Admit(q, seen)
<1>1. /\ request' = [request EXCEPT ![c] = q] /\ pre' = [pre EXCEPT ![c] = seen]
      /\ work' = [work EXCEPT ![c] = w] /\ answer' = answer
      /\ IF ~w.work THEN Finish(c, w.result)
         ELSE IF q.api = "builtin" THEN Finish(c, Classify(NativeOutcome(q.artifact, w.key), w.alg))
         ELSE phase' = [phase EXCEPT ![c] = "asked"] /\ verdict' = verdict
  BY Zenon DEF Proceed
<1>2. IF w.work THEN Fitting(q, w) ELSE w.result \in Results
  BY AdmitShape, Zenon
<1> HIDE DEF w
<1>3. ASSUME NEW r \in Results, Finish(c, r) PROVE CallInv'
  <2>1. Moved(c, "done", q, seen, w, answer[c], r)
    BY <1>1, <1>3, Stays, Zenon DEF Moved, Finish
  <2>2. answer[c] \in Outcomes \cup {"none"}
    BY DEF CallInv, CallTypeOK
  <2>3. QED
    BY <2>1, <2>2, MoveKeeps DEF Phases
<1>4. CASE ~w.work
  BY <1>1, <1>2, <1>3, <1>4, Zenon
<1>5. CASE w.work /\ q.api = "builtin"
  <2>1. w.alg \in Algs
    BY <1>2, <1>5 DEF Fitting, AlgorithmOf, Algs
  <2>2. NativeOutcome(q.artifact, w.key) \in Outcomes
    BY DEF NativeOutcome, Outcomes
  <2>3. QED
    BY <1>1, <1>3, <1>5, <2>1, <2>2, ResultShape, Zenon
<1>6. CASE w.work /\ q.api # "builtin"
  <2>1. Fitting(q, w)
    BY <1>2, <1>6, Zenon
  <2>2. w.alg \in Algs
    BY <2>1 DEF Fitting, AlgorithmOf, Algs
  <2>3. w.key \in KeysFor(q.api, w.alg) /\ w.key # NoKey
    BY <1>6, <2>1, <2>2, Zenon DEF Fitting
  <2>4. Holds(q, w, handles)
    BY <1>6, <2>1, <2>3, KeyShape, Zenon DEF Holds
  <2>5. Moved(c, "asked", q, seen, w, answer[c], verdict[c])
    BY <1>1, <1>6, Stays, Zenon DEF Moved
  <2>6. answer[c] \in Outcomes \cup {"none"} /\ verdict[c] \in Results \cup {Nothing}
    BY DEF CallInv, CallTypeOK
  <2>7. QED
    BY <2>4, <2>5, <2>6, MoveKeeps DEF Phases
<1>7. QED
  BY <1>4, <1>5, <1>6, Zenon

LEMMA KeptWith ==
    ASSUME NEW q, NEW ed, NEW p2
    PROVE  /\ WithKeys(q, ed, p2).api = q.api /\ WithKeys(q, ed, p2).artifact = q.artifact
           /\ WithKeys(q, ed, p2).keys["ed25519"] = ed /\ WithKeys(q, ed, p2).keys["p256"] = p2
BY DEF WithKeys

LEMMA ArtifactKept ==
    ASSUME NEW q, NEW ed, NEW p2, IsArtifact(q.artifact)
    PROVE  IsArtifact(WithKeys(q, ed, p2).artifact)
<1>1. WithKeys(q, ed, p2).artifact = q.artifact
  BY KeptWith
<1>2. QED
  BY <1>1

LEMMA KeysChosen ==
    ASSUME NEW q, NEW ed \in KeysFor(q.api, "ed25519"), NEW p2 \in KeysFor(q.api, "p256")
    PROVE  \A alg \in Algs : WithKeys(q, ed, p2).keys[alg] \in KeysFor(WithKeys(q, ed, p2).api, alg)
<1> DEFINE z == WithKeys(q, ed, p2)
<1>1. z.api = q.api /\ z.keys["ed25519"] = ed /\ z.keys["p256"] = p2
  BY KeptWith
<1> HIDE DEF z
<1>2. \A alg \in Algs : z.keys[alg] \in KeysFor(z.api, alg)
  BY <1>1 DEF Algs
<1>3. QED
  BY <1>2 DEF z

LEMMA CallInvStep ==
    ASSUME CallInv, ServiceTypeOK, BindTypeOK, NEW c \in Calls, CallStep(c)
    PROVE  CallInv'
<1>0. handles' = handles
  BY CallStepsLeave DEF Elsewhere
<1>v. answer[c] \in Outcomes \cup {"none"} /\ verdict[c] \in Results \cup {Nothing}
  BY DEF CallInv, CallTypeOK
<1>1. CASE VerifyWhole(c)
  <2>1. PICK q \in Universe[c], ed \in KeysFor("builtin", "ed25519") \cup BoundKeys,
             p2 \in KeysFor("builtin", "p256") \cup BoundKeys :
          /\ ed \in KeysFor(q.api, "ed25519") /\ p2 \in KeysFor(q.api, "p256")
          /\ IF q.oversized
               THEN /\ Finish(c, Error("InputArtifactTooLarge"))
                    /\ request' = [request EXCEPT ![c] = WithKeys(q, ed, p2)]
                    /\ UNCHANGED <<pre, work, answer>>
               ELSE Proceed(c, WithKeys(q, ed, p2), PreVerify(q.artifact, FALSE))
    BY <1>1, Zenon DEF VerifyWhole
  <2>2. IsArtifact(WithKeys(q, ed, p2).artifact)
    BY ArtifactKept, Constants, Zenon
  <2>3. CASE q.oversized
    <3>1. Moved(c, "done", WithKeys(q, ed, p2), pre[c], work[c], answer[c], Error("InputArtifactTooLarge"))
      BY <2>1, <2>3, Stays, Zenon DEF Moved, Finish
    <3>2. Error("InputArtifactTooLarge") \in Results
      BY ResultShape
    <3>3. QED
      BY <1>0, <1>v, <3>1, <3>2, MoveKeeps DEF Phases
  <2>4. CASE ~q.oversized
    <3>1. Proceed(c, WithKeys(q, ed, p2), PreVerify(q.artifact, FALSE))
      BY <2>1, <2>4, Zenon
    <3>2. QED
      BY <1>0, <2>1, <2>2, <3>1, KeysChosen, ProceedKeeps, Zenon
  <2>5. QED
    BY <2>3, <2>4, Zenon
<1>2. CASE ReadFirst(c)
  <2>1. PICK q \in Universe[c] :
          /\ request' = [request EXCEPT ![c] = WithKeys(q, NoKey, NoKey)]
          /\ IF q.oversized
               THEN Finish(c, Error("InputArtifactTooLarge")) /\ UNCHANGED pre
               ELSE /\ phase' = [phase EXCEPT ![c] = "read"]
                    /\ pre' = [pre EXCEPT ![c] = PreVerify(q.artifact, q.allowUnsigned)]
                    /\ UNCHANGED verdict
    BY <1>2, Zenon DEF ReadFirst
  <2>2. work' = work /\ answer' = answer
    BY <1>2, Zenon DEF ReadFirst
  <2>3. CASE q.oversized
    <3>1. Moved(c, "done", WithKeys(q, NoKey, NoKey), pre[c], work[c], answer[c],
                Error("InputArtifactTooLarge"))
      BY <2>1, <2>2, <2>3, Stays, Zenon DEF Moved, Finish
    <3>2. Error("InputArtifactTooLarge") \in Results
      BY ResultShape
    <3>3. QED
      BY <1>0, <1>v, <3>1, <3>2, MoveKeeps DEF Phases
  <2>4. CASE ~q.oversized
    <3>1. Moved(c, "read", WithKeys(q, NoKey, NoKey), PreVerify(q.artifact, q.allowUnsigned),
                work[c], answer[c], verdict[c])
      BY <2>1, <2>2, <2>4, Stays, Zenon DEF Moved
    <3>2. IsArtifact(WithKeys(q, NoKey, NoKey).artifact)
      BY ArtifactKept, Constants, Zenon
    <3>3. QED
      BY <1>0, <1>v, <3>1, <3>2, MoveKeeps DEF Phases
  <2>5. QED
    BY <2>3, <2>4, Zenon
<1>3. CASE VerifyRead(c)
  <2>1. phase[c] = "read"
    BY <1>3, Zenon DEF VerifyRead
  <2>2. PICK ed \in KeysFor(request[c].api, "ed25519"), p2 \in KeysFor(request[c].api, "p256") :
          Proceed(c, WithKeys(request[c], ed, p2), pre[c])
    BY <1>3, Zenon DEF VerifyRead
  <2>3. IsArtifact(WithKeys(request[c], ed, p2).artifact)
    BY <2>1, ArtifactKept, Zenon DEF CallInv
  <2>4. QED
    BY <1>0, <2>2, <2>3, KeysChosen, ProceedKeeps, Zenon
<1>4. CASE ProviderAnswers(c)
  <2>1. PICK result \in Answers(work[c].key.handle, request[c].artifact.signature,
                                request[c].artifact.payload) :
          answer' = [answer EXCEPT ![c] = Reported(result)]
    BY <1>4, Zenon DEF ProviderAnswers
  <2>2. /\ phase[c] = "asked" /\ phase' = [phase EXCEPT ![c] = "answered"]
        /\ request' = request /\ pre' = pre /\ work' = work /\ verdict' = verdict
    BY <1>4, Zenon DEF ProviderAnswers
  <2>3. Reported(result) \in Outcomes
    BY <2>1 DEF Answers, Reported, Outcomes
  <2>4. Holds(request[c], work[c], handles)
    BY <2>2 DEF CallInv
  <2>5. Moved(c, "answered", request[c], pre[c], work[c], Reported(result), verdict[c])
    BY <2>1, <2>2, Stays, Zenon DEF Moved
  <2>6. QED
    BY <1>0, <1>v, <2>3, <2>4, <2>5, MoveKeeps DEF Phases
<1>5. CASE Resume(c)
  <2>1. /\ phase[c] = "answered" /\ Finish(c, Classify(answer[c], work[c].alg))
        /\ request' = request /\ pre' = pre /\ work' = work /\ answer' = answer
    BY <1>5, Zenon DEF Resume
  <2>2. answer[c] \in Outcomes /\ Fitting(request[c], work[c])
    BY <2>1 DEF CallInv, CallTypeOK, Holds
  <2>3. work[c].alg \in Algs
    BY <2>2 DEF Fitting, AlgorithmOf, Algs
  <2>4. Classify(answer[c], work[c].alg) \in Results
    BY <2>2, <2>3, ResultShape, Zenon
  <2>5. Moved(c, "done", request[c], pre[c], work[c], answer[c], Classify(answer[c], work[c].alg))
    BY <2>1, Stays, Zenon DEF Moved, Finish
  <2>6. QED
    BY <1>0, <1>v, <2>4, <2>5, MoveKeeps DEF Phases
<1>6. CASE DropCall(c)
  <2>1. /\ phase' = [phase EXCEPT ![c] = "dropped"] /\ request' = request /\ pre' = pre
        /\ work' = work /\ answer' = answer /\ verdict' = verdict
    BY <1>6, Zenon DEF DropCall
  <2>2. Moved(c, "dropped", request[c], pre[c], work[c], answer[c], verdict[c])
    BY <2>1, Stays, Zenon DEF Moved
  <2>3. QED
    BY <1>0, <1>v, <2>2, MoveKeeps DEF Phases
<1>7. QED
  BY <1>1, <1>2, <1>3, <1>4, <1>5, <1>6 DEF CallStep

\* Calls are left alone while the provider makes handles.
LEMMA CallInvKept ==
    ASSUME CallInv, UNCHANGED callVars, Grows(handles, handles')
    PROVE  CallInv'
<1>1. /\ phase' = phase /\ request' = request /\ pre' = pre /\ work' = work
      /\ answer' = answer /\ verdict' = verdict
  BY DEF callVars
<1>2. ASSUME NEW c \in Calls, phase[c] \in {"asked", "answered"}
      PROVE  Holds(request[c], work[c], handles')
  BY <1>2 DEF CallInv, Holds, Grows
<1>3. CallTypeOK' /\ RecordsOK'
  BY <1>1 DEF CallInv, CallTypeOK, RecordsOK
<1>4. QED
  BY <1>1, <1>2, <1>3, Zenon DEF CallInv

-----------------------------------------------------------------------------
(* Type correctness.                                                       *)

IInv == ServiceTypeOK /\ SuiteTypeOK /\ BindTypeOK /\ CallInv

LEMMA TypeInit == Init => IInv
<1> SUFFICES ASSUME Init PROVE IInv
  OBVIOUS
<1>1. ServiceTypeOK
  BY Constants DEF Init, ServiceTypeOK
<1>2. slot \in Algs => step \in 1..Len(Suite(slot))
  BY SuiteShape DEF Init
<1>3. slot \in Algs \cup {"ready", "dropped"} /\ status \in [Algs -> {"pending", "unchecked"}]
  BY DEF Init, Algs
<1>4. live \in [first: 0..Len(handles), later: 0..Len(handles)]
  BY DEF Init
<1>5. SuiteTypeOK
  BY <1>2, <1>3, <1>4 DEF SuiteTypeOK
<1>6. BindTypeOK
  BY DEF Init, BindTypeOK
<1>7. CallInv
  BY DEF Init, CallInv, CallTypeOK, RecordsOK
<1>8. QED
  BY <1>1, <1>5, <1>6, <1>7 DEF IInv

\* The verdict on a slot, and the start of the next suite.
LEMMA ConcludeType ==
    ASSUME SuiteTypeOK, slot \in Algs, NEW result \in {"Qualified"} \cup Rejections, Conclude(result),
           handles' \in Seq(Handles)
    PROVE  SuiteTypeOK'
<1>1. slot' \in Algs \cup {"ready", "dropped"} /\ step' = 1
  BY DEF Conclude, Algs
<1>2. slot' \in Algs => step' \in 1..Len(Suite(slot'))
  <2>1. ASSUME NEW alg \in Algs PROVE 1 \in 1..Len(Suite(alg))
    BY SuiteShape
  <2>2. QED
    BY <1>1, <2>1
<1>3. status' \in [Algs -> {"pending", "unchecked", "Qualified"} \cup Rejections]
  BY DEF Conclude, SuiteTypeOK
<1>4. live' \in [first: 0..Len(handles'), later: 0..Len(handles')]
  <2>1. 0 \in 0..Len(handles')
    OBVIOUS
  <2>2. QED
    BY <2>1 DEF Conclude
<1>5. QED
  BY <1>1, <1>2, <1>3, <1>4 DEF SuiteTypeOK

LEMMA UsePasses ==
    ASSUME ServiceTypeOK, NEW h, NEW signature, NEW message,
           NEW result \in Answers(h, signature, message) \cup {"ignored"}, Use(h, result),
           handles' = handles, UNCHANGED providerVars
    PROVE  ServiceTypeOK'
<1>1. handles' \in Seq([alg: Algs, value: Values]) /\ fault' \in [Algs -> Faults]
      /\ reports' \in Reporting
  BY DEF ServiceTypeOK, providerVars
<1>2. outages' \in 0..MaxOutages
  <2>1. result = "failed" => outages < MaxOutages
    BY DEF Answers
  <2>2. outages' = IF result = "failed" THEN outages + 1 ELSE outages
    BY DEF Use
  <2>3. QED
    BY <2>1, <2>2, Constants DEF ServiceTypeOK
<1>3. lost' \subseteq 1..Len(handles')
  BY DEF ServiceTypeOK, Use, SameSlot
<1>4. QED
  BY <1>1, <1>2, <1>3 DEF ServiceTypeOK

\* The provider makes or refuses a handle, and nothing is lost by it.
LEMMA MakePasses ==
    ASSUME ServiceTypeOK, NEW alg \in Algs, NEW value \in Values,
           MakeHandle(alg, value) \/ RefuseHandle(alg) \/ UNCHANGED <<outages, handles>>,
           lost' = lost, UNCHANGED providerVars
    PROVE  ServiceTypeOK' /\ handles' \in Seq(Handles) /\ Grows(handles, handles')
<1>1. handles \in Seq(Handles) /\ Len(handles) \in Nat
  BY DEF ServiceTypeOK, Handles
<1>2. handles' \in Seq(Handles) /\ Grows(handles, handles') /\ outages' \in 0..MaxOutages
  <2>1. CASE MakeHandle(alg, value)
    BY <2>1, Makes DEF ServiceTypeOK
  <2>2. CASE RefuseHandle(alg)
    BY <1>1, <2>2, Refuses DEF Grows
  <2>3. CASE UNCHANGED <<outages, handles>>
    BY <1>1, <2>3 DEF Grows, ServiceTypeOK
  <2>4. QED
    BY <2>1, <2>2, <2>3
<1>3. lost' \subseteq 1..Len(handles')
  BY <1>1, <1>2 DEF ServiceTypeOK, Grows
<1>4. fault' \in [Algs -> Faults] /\ reports' \in Reporting
  BY DEF ServiceTypeOK, providerVars
<1>5. QED
  BY <1>2, <1>3, <1>4 DEF ServiceTypeOK, Handles

LEMMA BindTypeGrows ==
    ASSUME BindTypeOK, handles \in Seq(Handles), handles' \in Seq(Handles), Grows(handles, handles')
    PROVE  held \in Seq(1..Len(handles'))
<1>1. 1..Len(handles) \subseteq 1..Len(handles')
  BY DEF Grows
<1>2. QED
  BY <1>1, SeqGrows DEF BindTypeOK

LEMMA SuiteBindsType == IInv /\ SuiteBinds => IInv'
<1> SUFFICES ASSUME IInv, SuiteBinds PROVE IInv'
  OBVIOUS
<1> DEFINE s == Suite(slot)[step]
<1>1. /\ slot \in Algs /\ s.op = "bind"
      /\ \/ /\ MakeHandle(slot, s.value) /\ step' = step + 1
            /\ live' = [live EXCEPT ![s.handle] = Len(handles) + 1]
            /\ UNCHANGED <<slot, status>>
         \/ RefuseHandle(slot) /\ Conclude("KeyBindingFailed")
      /\ UNCHANGED providerVars /\ lost' = lost /\ UNCHANGED bindVars /\ UNCHANGED callVars
  BY Zenon DEF SuiteBinds
<1>2. step \in 1..Len(Suite(slot))
  BY <1>1 DEF IInv, SuiteTypeOK
<1>3. s.handle \in {"first", "later"} /\ s.value \in Values /\ step + 1 \in 1..Len(Suite(slot))
  BY <1>1, <1>2, StepShape
<1> HIDE DEF s
<1>4. ServiceTypeOK' /\ handles' \in Seq(Handles) /\ Grows(handles, handles')
  BY <1>1, <1>3, MakePasses, Zenon DEF IInv
<1>5. SuiteTypeOK'
  <2>1. CASE /\ MakeHandle(slot, s.value) /\ step' = step + 1
             /\ live' = [live EXCEPT ![s.handle] = Len(handles) + 1]
             /\ UNCHANGED <<slot, status>>
    <3>1. Len(handles') = Len(handles) + 1 /\ Len(handles) \in Nat
      <4>1. Len(handles') = Len(handles) + 1
        BY <1>1, <1>3, <2>1, Makes, Zenon DEF IInv
      <4>2. QED
        BY <4>1 DEF IInv, ServiceTypeOK
    <3>2. live' \in [first: 0..Len(handles'), later: 0..Len(handles')]
      BY <1>3, <2>1, <3>1 DEF IInv, SuiteTypeOK
    <3>3. slot' = slot /\ status' = status /\ step' \in 1..Len(Suite(slot'))
      BY <1>3, <2>1
    <3>4. QED
      BY <3>2, <3>3 DEF IInv, SuiteTypeOK
  <2>2. CASE Conclude("KeyBindingFailed")
    <3>1. "KeyBindingFailed" \in {"Qualified"} \cup Rejections
      BY DEF Rejections
    <3>2. QED
      BY <1>1, <1>4, <2>2, <3>1, ConcludeType, Zenon DEF IInv
  <2>3. QED
    BY <1>1, <2>1, <2>2, Zenon
<1>6. BindTypeOK'
  <2>1. held \in Seq(1..Len(handles'))
    BY <1>4, BindTypeGrows DEF IInv, ServiceTypeOK, Handles
  <2>2. QED
    BY <1>1, <2>1 DEF IInv, BindTypeOK, bindVars
<1>7. CallInv'
  BY <1>1, <1>4, CallInvKept, Zenon DEF IInv
<1>8. QED
  BY <1>4, <1>5, <1>6, <1>7 DEF IInv

\* What a failed expectation can be called: a suite expects one of the two
\* outcomes about signatures, and got another.
LEMMA RejectionShape ==
    ASSUME NEW result \in Outcomes
    PROVE  Rejection(result) \in Rejections
<1>1. CASE result = "Verified"
  BY <1>1 DEF Rejection, Rejections
<1>2. CASE result = "SignatureMismatch"
  BY <1>2 DEF Rejection, Rejections
<1>3. CASE result = "ProviderFailure"
  BY <1>3 DEF Rejection, Rejections
<1>4. QED
  BY <1>1, <1>2, <1>3 DEF Outcomes

LEMMA SuiteVerifiesType == IInv /\ SuiteVerifies => IInv'
<1> SUFFICES ASSUME IInv, SuiteVerifies PROVE IInv'
  OBVIOUS
<1> DEFINE s == Suite(slot)[step]
<1>1. PICK result \in Answers(live[s.handle], s.signature, s.message) :
        /\ Use(live[s.handle], result)
        /\ IF Reported(result) = s.outcome THEN Continue ELSE Conclude(Rejection(Reported(result)))
  BY Zenon DEF SuiteVerifies
<1>2. slot \in Algs /\ UNCHANGED providerVars /\ handles' = handles /\ UNCHANGED bindVars
      /\ UNCHANGED callVars
  BY Zenon DEF SuiteVerifies
<1> HIDE DEF s
<1>3. ServiceTypeOK' /\ Grows(handles, handles') /\ handles' \in Seq(Handles)
  <2>1. ServiceTypeOK'
    BY <1>1, <1>2, UsePasses DEF IInv
  <2>2. Len(handles) \in Nat /\ handles \in Seq(Handles)
    BY DEF IInv, ServiceTypeOK, Handles
  <2>3. QED
    BY <1>2, <2>1, <2>2 DEF Grows
<1>4. Reported(result) \in Outcomes
  BY <1>1 DEF Answers, Reported, Outcomes
<1>5. SuiteTypeOK'
  <2>1. ASSUME NEW r \in {"Qualified"} \cup Rejections, Conclude(r) PROVE SuiteTypeOK'
    BY <1>2, <1>3, <2>1, ConcludeType, Zenon DEF IInv
  <2>2. CASE Conclude(Rejection(Reported(result)))
    BY <1>4, <2>1, <2>2, RejectionShape
  <2>3. CASE Continue
    <3>1. CASE Conclude("Qualified")
      BY <2>1, <3>1
    <3>2. CASE step # Len(Suite(slot)) /\ step' = step + 1 /\ UNCHANGED <<slot, live, status>>
      <4>1. step \in 1..Len(Suite(slot)) /\ Len(Suite(slot)) \in Nat
        BY <1>2, SuiteShape DEF IInv, SuiteTypeOK
      <4>2. step' \in 1..Len(Suite(slot'))
        BY <3>2, <4>1
      <4>3. QED
        BY <1>2, <3>2, <4>2 DEF IInv, SuiteTypeOK
    <3>3. QED
      BY <2>3, <3>1, <3>2, Zenon DEF Continue
  <2>4. QED
    BY <1>1, <2>2, <2>3, Zenon
<1>6. BindTypeOK'
  BY <1>2 DEF IInv, BindTypeOK, bindVars
<1>7. CallInv'
  BY <1>2, <1>3, CallInvKept, Zenon DEF IInv
<1>8. QED
  BY <1>3, <1>5, <1>6, <1>7 DEF IInv

\* Steps of binding: the suites and the calls are left alone.
LEMMA SuiteKept ==
    ASSUME SuiteTypeOK, UNCHANGED suiteVars, Grows(handles, handles'),
           handles \in Seq(Handles), handles' \in Seq(Handles)
    PROVE  SuiteTypeOK'
<1>1. slot' = slot /\ step' = step /\ live' = live /\ status' = status
  BY DEF suiteVars
<1>2. 0..Len(handles) \subseteq 0..Len(handles')
  BY DEF Grows
<1>3. live' \in [first: 0..Len(handles'), later: 0..Len(handles')]
  BY <1>1, <1>2 DEF SuiteTypeOK
<1>4. QED
  BY <1>1, <1>3 DEF SuiteTypeOK

LEMMA SameGrows ==
    ASSUME ServiceTypeOK
    PROVE  Grows(handles, handles) /\ handles \in Seq(Handles) /\ Len(handles) \in Nat
BY DEF ServiceTypeOK, Grows, Handles

LEMMA AskForHandleType == IInv /\ AskForHandle => IInv'
<1> SUFFICES ASSUME IInv, AskForHandle PROVE IInv'
  OBVIOUS
<1>1. PICK k \in AppKeys : binding' = Append(binding, k)
  BY Zenon DEF AskForHandle
<1>2. /\ UNCHANGED providerVars /\ outages' = outages /\ handles' = handles /\ lost' = lost
      /\ UNCHANGED suiteVars /\ held' = held /\ UNCHANGED callVars
  BY Zenon DEF AskForHandle
<1>3. Grows(handles, handles') /\ handles' \in Seq(Handles) /\ handles \in Seq(Handles)
  BY <1>2, SameGrows DEF IInv
<1>4. ServiceTypeOK'
  BY <1>2 DEF IInv, ServiceTypeOK, providerVars
<1>5. BindTypeOK'
  BY <1>1, <1>2, AppendProperties DEF IInv, BindTypeOK
<1>6. SuiteTypeOK' /\ CallInv'
  BY <1>2, <1>3, SuiteKept, CallInvKept, Zenon DEF IInv
<1>7. QED
  BY <1>4, <1>5, <1>6 DEF IInv

LEMMA HandleArrivesType ==
    ASSUME IInv, NEW i \in 1..Len(binding), HandleArrives(i) \/ DropBind(i)
    PROVE  IInv'
<1> DEFINE k == binding[i]
<1>1. k \in AppKeys
  BY ElementOfSeq DEF IInv, BindTypeOK
<1>2. k.alg \in Algs /\ k.value \in Values
  BY <1>1, Constants
<1>3. /\ UNCHANGED providerVars /\ lost' = lost /\ UNCHANGED suiteVars /\ UNCHANGED callVars
      /\ binding' = Without(binding, i)
      /\ \/ MakeHandle(k.alg, k.value) /\ held' = Append(held, Len(handles) + 1)
         \/ MakeHandle(k.alg, k.value) /\ held' = held
         \/ RefuseHandle(k.alg) /\ held' = held
         \/ UNCHANGED <<outages, handles>> /\ held' = held
  BY Zenon DEF HandleArrives, DropBind
<1> HIDE DEF k
<1>4. ServiceTypeOK' /\ handles' \in Seq(Handles) /\ Grows(handles, handles')
  BY <1>2, <1>3, MakePasses, Zenon DEF IInv
<1>5. handles \in Seq(Handles) /\ Len(handles) \in Nat
  BY SameGrows DEF IInv
<1>6. BindTypeOK'
  <2>1. binding' \in Seq(AppKeys)
    BY <1>3, WithoutType DEF IInv, BindTypeOK
  <2>2. held \in Seq(1..Len(handles'))
    BY <1>4, <1>5, BindTypeGrows DEF IInv
  <2>3. CASE MakeHandle(k.alg, k.value) /\ held' = Append(held, Len(handles) + 1)
    <3>1. Len(handles') = Len(handles) + 1
      BY <1>2, <2>3, Makes, Zenon DEF IInv
    <3>2. Len(handles) + 1 \in 1..Len(handles')
      BY <1>5, <3>1
    <3>3. held' \in Seq(1..Len(handles'))
      BY <2>2, <2>3, <3>2, AppendProperties
    <3>4. QED
      BY <2>1, <3>3 DEF BindTypeOK
  <2>4. CASE held' = held
    BY <2>1, <2>2, <2>4 DEF BindTypeOK
  <2>5. QED
    BY <1>3, <2>3, <2>4, Zenon
<1>7. SuiteTypeOK' /\ CallInv'
  BY <1>3, <1>4, <1>5, SuiteKept, CallInvKept, Zenon DEF IInv
<1>8. QED
  BY <1>4, <1>6, <1>7 DEF IInv

LEMMA CallStepType ==
    ASSUME IInv, NEW c \in Calls, CallStep(c)
    PROVE  IInv'
<1>1. Elsewhere /\ handles' = handles
  BY CallStepsLeave DEF Elsewhere
<1>2. CallInv'
  BY CallInvStep DEF IInv
<1>3. ServiceTypeOK'
  <2>1. CASE outages' = outages /\ lost' = lost
    BY <1>1, <2>1 DEF IInv, ServiceTypeOK, Elsewhere, providerVars
  <2>2. ASSUME NEW h, NEW m, NEW g, NEW result \in Answers(h, g, m) \cup {"ignored"}, Use(h, result)
        PROVE  ServiceTypeOK'
    BY <1>1, <2>2, UsePasses DEF IInv, Elsewhere
  <2>3. CASE ProviderAnswers(c)
    <3>1. PICK result \in Answers(work[c].key.handle, request[c].artifact.signature,
                                  request[c].artifact.payload) : Use(work[c].key.handle, result)
      BY <2>3, Zenon DEF ProviderAnswers
    <3>2. QED
      BY <2>2, <3>1
  <2>4. CASE DropCall(c)
    <3>1. Use(work[c].key.handle, "ignored") \/ UNCHANGED <<outages, lost>>
      BY <2>4, Zenon DEF DropCall
    <3>2. CASE Use(work[c].key.handle, "ignored")
      BY <2>2, <3>2
    <3>3. QED
      BY <2>1, <3>1, <3>2
  <2>5. CASE VerifyWhole(c)
    BY <2>1, <2>5, Zenon DEF VerifyWhole
  <2>6. CASE ReadFirst(c)
    BY <2>1, <2>6, Zenon DEF ReadFirst
  <2>7. CASE VerifyRead(c)
    BY <2>1, <2>7, Zenon DEF VerifyRead
  <2>8. CASE Resume(c)
    BY <2>1, <2>8, Zenon DEF Resume
  <2>9. QED
    BY <2>3, <2>4, <2>5, <2>6, <2>7, <2>8 DEF CallStep
<1>4. SuiteTypeOK' /\ BindTypeOK'
  BY <1>1 DEF IInv, Elsewhere, suiteVars, bindVars, SuiteTypeOK, BindTypeOK
<1>5. QED
  BY <1>2, <1>3, <1>4 DEF IInv

\* The steps of the system, grouped by whose they are.
LEMMA NextCases ==
    ASSUME [Next]_vars
    PROVE  \/ SuiteBinds \/ SuiteVerifies \/ DropQualification \/ AskForHandle
           \/ \E i \in 1..Len(binding) : HandleArrives(i) \/ DropBind(i)
           \/ \E c \in Calls : CallStep(c)
           \/ UNCHANGED vars
BY Zenon DEF Next, CallStep

LEMMA TypeStep == IInv /\ [Next]_vars => IInv'
<1> SUFFICES ASSUME IInv, [Next]_vars PROVE IInv'
  OBVIOUS
<1>1. CASE SuiteBinds
  BY <1>1, SuiteBindsType
<1>2. CASE SuiteVerifies
  BY <1>2, SuiteVerifiesType
<1>3. CASE DropQualification
  <2>1. /\ slot' = "dropped" /\ UNCHANGED <<outages, handles, lost, step, live, status>>
        /\ UNCHANGED providerVars /\ UNCHANGED bindVars /\ UNCHANGED callVars
    BY <1>3, Zenon DEF DropQualification
  <2>2. ServiceTypeOK' /\ BindTypeOK'
    BY <2>1 DEF IInv, ServiceTypeOK, BindTypeOK, providerVars, bindVars
  <2>3. SuiteTypeOK'
    BY <2>1 DEF IInv, SuiteTypeOK, Algs
  <2>4. Grows(handles, handles')
    BY <2>1, SameGrows DEF IInv
  <2>5. CallInv'
    BY <2>1, <2>4, CallInvKept DEF IInv
  <2>6. QED
    BY <2>2, <2>3, <2>5 DEF IInv
<1>4. CASE AskForHandle
  BY <1>4, AskForHandleType
<1>5. CASE \E i \in 1..Len(binding) : HandleArrives(i) \/ DropBind(i)
  BY <1>5, HandleArrivesType
<1>6. CASE \E c \in Calls : CallStep(c)
  BY <1>6, CallStepType
<1>7. CASE UNCHANGED vars
  BY <1>7 DEF vars, IInv, ServiceTypeOK, SuiteTypeOK, BindTypeOK, CallInv, CallTypeOK, RecordsOK
<1>8. QED
  BY NextCases, <1>1, <1>2, <1>3, <1>4, <1>5, <1>6, <1>7, Zenon

LEMMA InvHolds == Spec => []IInv
BY TypeInit, TypeStep, PTL DEF Spec

\* Type correctness: the suite never runs off its end, a caller never holds a
\* handle the factory did not make, and a finished call has a verdict
\* (ProviderQualification's suites, bind_public_key, resume).
THEOREM TypeCorrect == Spec => []TypeOK
<1>1. IInv => TypeOK
  BY DEF IInv, CallInv, TypeOK
<1>2. QED
  BY <1>1, InvHolds, PTL

-----------------------------------------------------------------------------
(* What the provider is asked.                                             *)

\* The provider is asked only about well-formed octets of an enabled
\* algorithm, with a handle that was bound for that algorithm, in whichever
\* slot the caller put it and whatever was bound or dropped while the call
\* waited (prepare_verification, admissible keys).
THEOREM AskedCorrectly == Spec => []AskedInItsSlot
<1>1. IInv => AskedInItsSlot
  <2> SUFFICES ASSUME IInv, NEW c \in Calls, phase[c] \in {"asked", "answered"}
               PROVE  LET q == request[c]
                          alg == AlgorithmOf(q.artifact.alg)
                      IN  /\ q.artifact.shape = "proper" /\ alg \in q.enabled
                          /\ handles[work[c].key.handle].alg = alg
                          /\ q.keys[alg].handle = work[c].key.handle
    BY Zenon DEF AskedInItsSlot
  <2>1. Holds(request[c], work[c], handles)
    BY DEF IInv, CallInv
  <2>2. QED
    BY <2>1, Zenon DEF Holds, Fitting
<1>2. QED
  BY <1>1, InvHolds, PTL

-----------------------------------------------------------------------------
(* Which keys callers hold.  Status changes only while qualification runs, *)
(* and nobody holds or waits for a key until it is over.                   *)

Ent(st, k) == k.value \notin Inadmissible /\ st[k.alg] \in {"Qualified", "unchecked"}

KeysFit(st, hs, hd, bd) ==
    /\ \A i \in 1..Len(hd) : Ent(st, hs[hd[i]])
    /\ \A i \in 1..Len(bd) : Ent(st, bd[i])

HeldInv ==
    /\ KeysFit(status, handles, held, binding)
    /\ slot # "ready" => held = <<>> /\ binding = <<>>

LEMMA HeldInit == Init => HeldInv
BY DEF Init, HeldInv, KeysFit

LEMMA HeldKept ==
    ASSUME IInv, HeldInv, UNCHANGED <<held, binding, status, slot>>, Grows(handles, handles')
    PROVE  HeldInv'
<1>1. held' = held /\ binding' = binding /\ status' = status /\ slot' = slot
  OBVIOUS
<1>2. ASSUME NEW i \in 1..Len(held) PROVE handles'[held[i]] = handles[held[i]]
  <2>1. held[i] \in 1..Len(handles)
    BY ElementOfSeq DEF IInv, BindTypeOK
  <2>2. QED
    BY <2>1 DEF Grows
<1>3. KeysFit(status, handles', held, binding)
  BY <1>2, Zenon DEF KeysFit, HeldInv
<1>4. QED
  BY <1>1, <1>3 DEF HeldInv

LEMMA HeldSuite ==
    ASSUME HeldInv, slot \in Algs, UNCHANGED bindVars
    PROVE  HeldInv'
<1>1. held = <<>> /\ binding = <<>>
  BY DEF HeldInv, Algs
<1>2. held' = <<>> /\ binding' = <<>>
  BY <1>1 DEF bindVars
<1>3. KeysFit(status', handles', <<>>, <<>>)
  BY DEF KeysFit
<1>4. QED
  BY <1>2, <1>3 DEF HeldInv

\* Leaving one of the bindings out, the rest still fit.
LEMMA FitsWithout ==
    ASSUME KeysFit(status, handles, held, binding), binding \in Seq(AppKeys),
           NEW i \in 1..Len(binding), NEW hs, NEW hd,
           \A j \in 1..Len(hd) : Ent(status, hs[hd[j]])
    PROVE  KeysFit(status, hs, hd, Without(binding, i))
<1> DEFINE S == {k \in AppKeys : Ent(status, k)}
<1>1. binding \in Seq(S)
  <2>1. \A j \in 1..Len(binding) : binding[j] \in S
    <3>1. \A j \in 1..Len(binding) : binding[j] \in AppKeys
      BY ElementOfSeq
    <3>2. QED
      BY <3>1 DEF KeysFit
  <2>2. binding \in [1..Len(binding) -> S] /\ Len(binding) \in Nat
    BY <2>1, LenProperties
  <2>3. QED
    BY <2>2
<1>2. Without(binding, i) \in Seq(S)
  BY <1>1, WithoutType
<1> DEFINE rest == Without(binding, i)
<1> HIDE DEF rest
<1>3. \A j \in 1..Len(rest) : rest[j] \in S
  BY <1>2, ElementOfSeq DEF rest
<1>4. \A j \in 1..Len(rest) : Ent(status, rest[j])
  BY <1>3
<1>5. KeysFit(status, hs, hd, rest)
  BY <1>4 DEF KeysFit
<1>6. QED
  BY <1>5 DEF rest

LEMMA HeldStep == IInv /\ HeldInv /\ [Next]_vars => HeldInv'
<1> SUFFICES ASSUME IInv, HeldInv, [Next]_vars PROVE HeldInv'
  OBVIOUS
<1>0. Grows(handles, handles) /\ handles \in Seq(Handles) /\ Len(handles) \in Nat
  BY SameGrows DEF IInv
<1>1. CASE SuiteBinds
  BY <1>1, HeldSuite, Zenon DEF SuiteBinds
<1>2. CASE SuiteVerifies
  BY <1>2, HeldSuite, Zenon DEF SuiteVerifies
<1>3. CASE DropQualification
  BY <1>3, HeldSuite, Zenon DEF DropQualification
<1>4. CASE AskForHandle
  <2>1. PICK k \in AppKeys : Bindable(k) /\ binding' = Append(binding, k)
    BY <1>4, Zenon DEF AskForHandle
  <2>2. /\ handles' = handles /\ UNCHANGED suiteVars /\ held' = held /\ slot = "ready"
    BY <1>4, Zenon DEF AskForHandle
  <2>3. Ent(status, k)
    BY <2>1, Zenon DEF Ent, Bindable
  <2>4. \A i \in 1..Len(binding') : Ent(status, binding'[i])
    <3>1. /\ Len(binding') = Len(binding) + 1 /\ binding'[Len(binding) + 1] = k
          /\ \A i \in 1..Len(binding) : binding'[i] = binding[i]
      BY <2>1, AppendProperties DEF IInv, BindTypeOK
    <3>2. Len(binding) \in Nat /\ \A i \in 1..Len(binding) : Ent(status, binding[i])
      BY DEF HeldInv, KeysFit, IInv, BindTypeOK
    <3>3. \A i \in 1..Len(binding') : i \in 1..Len(binding) \/ i = Len(binding) + 1
      BY <3>1, <3>2
    <3>4. QED
      BY <2>3, <3>1, <3>2, <3>3, Zenon
  <2>5. KeysFit(status, handles, held, binding')
    BY <2>4 DEF HeldInv, KeysFit
  <2>6. QED
    BY <2>2, <2>5 DEF HeldInv, suiteVars
<1>5. ASSUME NEW i \in 1..Len(binding), HandleArrives(i) \/ DropBind(i) PROVE HeldInv'
  <2> DEFINE k == binding[i]
  <2>1. k \in AppKeys /\ k.alg \in Algs /\ k.value \in Values
    BY ElementOfSeq, Constants DEF IInv, BindTypeOK
  <2>2. Ent(status, k)
    BY DEF HeldInv, KeysFit
  <2>3. /\ UNCHANGED suiteVars /\ binding' = Without(binding, i)
        /\ \/ MakeHandle(k.alg, k.value) /\ held' = Append(held, Len(handles) + 1)
           \/ MakeHandle(k.alg, k.value) /\ held' = held
           \/ RefuseHandle(k.alg) /\ held' = held
           \/ UNCHANGED <<outages, handles>> /\ held' = held
    BY <1>5, Zenon DEF HandleArrives, DropBind
  <2> HIDE DEF k
  <2>4. \/ MakeHandle(k.alg, k.value)
        \/ handles' = handles
    BY <2>3 DEF RefuseHandle
  <2>5. Grows(handles, handles')
    BY <1>0, <2>1, <2>4, Makes, Zenon DEF IInv
  <2>6. slot = "ready" /\ slot' = slot /\ status' = status
    <3>1. binding # <<>>
      OBVIOUS
    <3>2. QED
      BY <2>3, <3>1 DEF HeldInv, suiteVars
  <2>7. \A j \in 1..Len(held) : Ent(status, handles'[held[j]])
    <3>1. ASSUME NEW j \in 1..Len(held) PROVE handles'[held[j]] = handles[held[j]]
      <4>1. held[j] \in 1..Len(handles)
        BY ElementOfSeq DEF IInv, BindTypeOK
      <4>2. QED
        BY <2>5, <4>1 DEF Grows
    <3>2. QED
      BY <3>1, Zenon DEF HeldInv, KeysFit
  <2>8. \A j \in 1..Len(held') : Ent(status, handles'[held'[j]])
    <3>1. CASE MakeHandle(k.alg, k.value) /\ held' = Append(held, Len(handles) + 1)
      <4>1. handles'[Len(handles) + 1] = [alg |-> k.alg, value |-> k.value]
        BY <2>1, <3>1, Makes, Zenon DEF IInv
      <4>2. Ent(status, handles'[Len(handles) + 1])
        BY <2>2, <4>1 DEF Ent
      <4>3. /\ Len(held') = Len(held) + 1 /\ held'[Len(held) + 1] = Len(handles) + 1
            /\ \A j \in 1..Len(held) : held'[j] = held[j]
        <5>1. held \in Seq(Nat) /\ Len(handles) + 1 \in Nat
          <6>1. 1..Len(handles) \subseteq Nat
            BY <1>0
          <6>2. QED
            BY <1>0, <6>1, SeqGrows DEF IInv, BindTypeOK
        <5>2. QED
          BY <3>1, <5>1, AppendProperties
      <4>4. \A j \in 1..Len(held') : j \in 1..Len(held) \/ j = Len(held) + 1
        BY <4>3 DEF IInv, BindTypeOK
      <4>5. QED
        BY <2>7, <4>2, <4>3, <4>4, Zenon
    <3>2. CASE held' = held
      BY <2>7, <3>2
    <3>3. QED
      BY <2>3, <3>1, <3>2, Zenon
  <2>9. KeysFit(status, handles', held', Without(binding, i))
    BY <2>8, FitsWithout, Zenon DEF HeldInv, IInv, BindTypeOK
  <2>10. QED
    BY <2>3, <2>6, <2>9 DEF HeldInv
<1>6. ASSUME NEW c \in Calls, CallStep(c) PROVE HeldInv'
  <2>1. UNCHANGED <<held, binding, status, slot>> /\ handles' = handles
    BY <1>6, CallStepsLeave DEF Elsewhere, bindVars, suiteVars
  <2>2. QED
    BY <1>0, <2>1, HeldKept
<1>7. CASE UNCHANGED vars
  BY <1>0, <1>7, HeldKept DEF vars
<1>8. QED
  BY NextCases, <1>1, <1>2, <1>3, <1>4, <1>5, <1>6, <1>7, Zenon

\* "A rejected slot cannot create a qualified key": every key callers hold or
\* wait for is admissible and of a slot that qualified, or of a provider built
\* unqualified; no bind overlaps with the suites that could still reject it.
THEOREM KeysAreBindable == Spec => []HeldKeysAreBindable
<1>1. HeldInv => HeldKeysAreBindable
  BY DEF HeldInv, KeysFit, HeldKeysAreBindable, Ent, Entitled
<1>2. QED
  BY <1>1, InvHolds, HeldInit, HeldStep, PTL DEF Spec

-----------------------------------------------------------------------------
(* The suites, step by step.                                               *)

LEMMA Ed25519Steps ==
    /\ Len(Suite("ed25519")) = 15
    /\ Suite("ed25519")[1] = Bind("first", Rfc8032.key)
    /\ Suite("ed25519")[2] = Valid("first", Rfc8032)
    /\ Suite("ed25519")[3] = Invalid("first", Rfc8032, "not_empty")
    /\ \A v \in {MixedR, MixedA} :
         LET n == IF v = MixedR THEN 3 ELSE 9 IN
           /\ Suite("ed25519")[n + 1] = Bind("later", v.key)
           /\ Suite("ed25519")[n + 2] = Valid("later", v)
           /\ Suite("ed25519")[n + 3] = Valid("first", Rfc8032)
           /\ Suite("ed25519")[n + 4] = Invalid("later", Rfc8032, Rfc8032.message)
           /\ Suite("ed25519")[n + 5] = Invalid("first", v, v.message)
           /\ Suite("ed25519")[n + 6] = Valid("later", v)
<1> DEFINE a == << Bind("first", Rfc8032.key), Valid("first", Rfc8032),
                   Invalid("first", Rfc8032, "not_empty") >>
           r == Round(MixedR)
           q == Round(MixedA)
           S == SuiteSteps
<1>1. /\ Len(a) = 3 /\ a[1] = Bind("first", Rfc8032.key) /\ a[2] = Valid("first", Rfc8032)
      /\ a[3] = Invalid("first", Rfc8032, "not_empty")
  OBVIOUS
<1>2. a \in Seq(S)
  BY DEF Bind, Valid, Invalid, Expect, SuiteSteps, Outcomes, Values, Rfc8032, Signature
<1>3. r \in Seq(S) /\ Len(r) = 6 /\ q \in Seq(S) /\ Len(q) = 6
  BY RoundShape
<1>4. \A v \in {MixedR, MixedA} :
        /\ Round(v)[1] = Bind("later", v.key) /\ Round(v)[2] = Valid("later", v)
        /\ Round(v)[3] = Valid("first", Rfc8032)
        /\ Round(v)[4] = Invalid("later", Rfc8032, Rfc8032.message)
        /\ Round(v)[5] = Invalid("first", v, v.message) /\ Round(v)[6] = Valid("later", v)
  BY DEF Round
<1>5. Suite("ed25519") = (a \o r) \o q
  BY DEF Suite, Ed25519Suite
<1>6. MixedR # MixedA
  BY DEF MixedR, MixedA, Signature
<1> HIDE DEF a, r, q, S
<1>7. /\ a \o r \in Seq(S) /\ Len(a \o r) = 9
      /\ \A i \in 1..3 : (a \o r)[i] = a[i]
      /\ \A i \in 1..6 : (a \o r)[3 + i] = r[i]
  <2>1. /\ a \o r \in Seq(S) /\ Len(a \o r) = Len(a) + Len(r)
        /\ \A i \in 1..Len(a) + Len(r) :
             (a \o r)[i] = IF i <= Len(a) THEN a[i] ELSE r[i - Len(a)]
    BY <1>1, <1>2, <1>3, ConcatProperties, Zenon
  <2>2. \A i \in 1..3 : i \in 1..Len(a) + Len(r) /\ i <= Len(a)
    BY <1>1, <1>2, <1>3
  <2>3. \A i \in 1..6 : 3 + i \in 1..Len(a) + Len(r) /\ ~(3 + i <= Len(a)) /\ 3 + i - Len(a) = i
    BY <1>1, <1>2, <1>3
  <2>4. Len(a) + Len(r) = 9
    BY <1>1, <1>2, <1>3
  <2>5. ASSUME NEW i \in 1..3 PROVE (a \o r)[i] = a[i]
    BY <2>1, <2>2, Zenon
  <2>6. ASSUME NEW i \in 1..6 PROVE (a \o r)[3 + i] = r[i]
    <3> DEFINE k == 3 + i
    <3>k. k \in 1..Len(a) + Len(r) /\ ~(k <= Len(a)) /\ k - Len(a) = i
      BY <2>3
    <3> HIDE DEF k
    <3>1. (a \o r)[k] = IF k <= Len(a) THEN a[k] ELSE r[k - Len(a)]
      BY <2>1, <3>k, Zenon
    <3>2. ~(k <= Len(a)) => (a \o r)[k] = r[i]
      BY <3>1, <3>k, Zenon
    <3>3. QED
      BY <3>2, <3>k DEF k
  <2>7. QED
    BY <2>1, <2>4, <2>5, <2>6, Zenon
<1> DEFINE b == a \o r
<1>b. b \in Seq(S) /\ Len(b) = 9 /\ Suite("ed25519") = b \o q
  BY <1>5, <1>7
<1> HIDE DEF b
<1>8. /\ Len(b \o q) = 15
      /\ \A i \in 1..9 : (b \o q)[i] = b[i]
      /\ \A i \in 1..6 : (b \o q)[9 + i] = q[i]
  <2>1. /\ b \o q \in Seq(S) /\ Len(b \o q) = Len(b) + Len(q)
        /\ \A i \in 1..Len(b) + Len(q) :
             (b \o q)[i] = IF i <= Len(b) THEN b[i] ELSE q[i - Len(b)]
    BY <1>b, <1>3, ConcatProperties, Zenon
  <2>2. \A i \in 1..9 : i \in 1..Len(b) + Len(q) /\ i <= Len(b)
    BY <1>b, <1>3
  <2>3. \A i \in 1..6 : 9 + i \in 1..Len(b) + Len(q) /\ ~(9 + i <= Len(b)) /\ 9 + i - Len(b) = i
    BY <1>b, <1>3
  <2>4. Len(b) + Len(q) = 15
    BY <1>b, <1>3
  <2>5. ASSUME NEW i \in 1..9 PROVE (b \o q)[i] = b[i]
    BY <2>1, <2>2, Zenon
  <2>6. ASSUME NEW i \in 1..6 PROVE (b \o q)[9 + i] = q[i]
    <3> DEFINE k == 9 + i
    <3>k. k \in 1..Len(b) + Len(q) /\ ~(k <= Len(b)) /\ k - Len(b) = i
      BY <2>3
    <3> HIDE DEF k
    <3>1. (b \o q)[k] = IF k <= Len(b) THEN b[k] ELSE q[k - Len(b)]
      BY <2>1, <3>k, Zenon
    <3>2. ~(k <= Len(b)) => (b \o q)[k] = q[i]
      BY <3>1, <3>k, Zenon
    <3>3. QED
      BY <3>2, <3>k DEF k
  <2>7. QED
    BY <2>1, <2>4, <2>5, <2>6, Zenon
<1>9. \A i \in 1..6 : Suite("ed25519")[3 + i] = Round(MixedR)[i]
  <2>1. \A i \in 1..6 : 3 + i \in 1..9
    OBVIOUS
  <2>2. QED
    BY <1>b, <1>7, <1>8, <2>1, Zenon DEF b, r
<1>10. \A i \in 1..6 : Suite("ed25519")[9 + i] = Round(MixedA)[i]
  BY <1>b, <1>8, Zenon DEF q
<1>11. \A i \in 1..3 : Suite("ed25519")[i] = a[i]
  <2>1. \A i \in 1..3 : i \in 1..9
    OBVIOUS
  <2>2. QED
    BY <1>b, <1>7, <1>8, <2>1, Zenon DEF b
<1>12. \A v \in {MixedR, MixedA}, i \in 1..6 :
         Suite("ed25519")[(IF v = MixedR THEN 3 ELSE 9) + i] = Round(v)[i]
  BY <1>6, <1>9, <1>10, Zenon
<1>13. 1 \in 1..6 /\ 2 \in 1..6 /\ 3 \in 1..6 /\ 4 \in 1..6 /\ 5 \in 1..6 /\ 6 \in 1..6
  OBVIOUS
<1>14. 1 \in 1..3 /\ 2 \in 1..3 /\ 3 \in 1..3
  OBVIOUS
<1>15. QED
  BY <1>1, <1>4, <1>b, <1>8, <1>11, <1>12, <1>13, <1>14, Zenon

LEMMA P256Steps ==
    /\ Len(Suite("p256")) = 13
    /\ Suite("p256")[1] = Bind("first", Low.key)
    /\ Suite("p256")[2] = Valid("first", Low)
    /\ Suite("p256")[3] = Valid("first", High)
    /\ Suite("p256")[4] = Invalid("first", Low, "different")
    /\ Suite("p256")[5] = Bind("later", Alternate.key)
    /\ Suite("p256")[6] = Valid("later", Alternate)
    /\ Suite("p256")[7] = Valid("first", Low)
    /\ Suite("p256")[8] = Invalid("later", Low, Low.message)
    /\ Suite("p256")[9] = Valid("first", High)
    /\ Suite("p256")[10] = Invalid("later", High, High.message)
    /\ Suite("p256")[11] = Invalid("first", Alternate, Alternate.message)
    /\ Suite("p256")[12] = Invalid("later", Alternate, "different")
    /\ Suite("p256")[13] = Valid("later", Alternate)
BY DEF Suite, P256Suite
-----------------------------------------------------------------------------
(* Qualification.  Made handles and the keys bound to them are a function  *)
(* of the position in the suite.                                           *)

\* Handles a suite has made before its n-th step, and the keys of its two.
Made(alg, n) ==
    IF alg = "ed25519"
    THEN IF n = 1 THEN 0 ELSE IF n <= 4 THEN 1 ELSE IF n <= 10 THEN 2 ELSE 3
    ELSE IF n = 1 THEN 0 ELSE IF n <= 5 THEN 1 ELSE 2

KeyAt(alg, n, name) ==
    IF alg = "ed25519"
    THEN IF name = "first" THEN "rfc8032" ELSE IF n <= 10 THEN "mixed_R" ELSE "mixed_A"
    ELSE IF name = "first" THEN "qualification" ELSE "alternate"

\* The step of the suite by which a slot with this fault is found out; one
\* that is never found out gets past the end.
FoundOutAt(alg, f) ==
    IF alg = "ed25519"
    THEN CASE f = "unsupported" -> 1
           [] f \in {"rejects_all", "plain"} -> 2
           [] f \in {"accepts_all", "ignores_message"} -> 3
           [] f \in {"cache_first", "mixed_R"} -> 5
           [] f = "retarget" -> 6
           [] f = "accept_any" -> 7
           [] f = "invalidate_later" -> 9
           [] f = "mixed_A" -> 11
           [] OTHER -> 16
    ELSE CASE f = "unsupported" -> 1
           [] f \in {"rejects_all", "low"} -> 2
           [] f = "high" -> 3
           [] f \in {"accepts_all", "ignores_message"} -> 4
           [] f = "cache_first" -> 6
           [] f = "retarget" -> 7
           [] f = "accept_any" -> 8
           [] f = "invalidate_later" -> 13
           [] OTHER -> 14

\* Between a use of the first handle and the next bind a slot that
\* invalidates has lost the later one.
LostAt(alg, n) == IF alg = "ed25519" THEN n \in 7..10 ELSE n \in 8..13

\* The suite's handles are the last ones made, and the only ones of its slot.
MadeInv ==
    slot \in Algs =>
      LET made == Made(slot, step)
          base == Len(handles) - made
      IN  /\ base \in Nat
          /\ slot = "ed25519" => base = 0
          /\ \A i \in 1..Len(handles) : handles[i].alg = slot <=> i > base
          /\ made >= 1 => /\ live.first = base + 1
                          /\ handles[base + 1].value = KeyAt(slot, step, "first")
          /\ made >= 2 => /\ live.later = Len(handles)
                          /\ handles[Len(handles)].value = KeyAt(slot, step, "later")

LostInv ==
    /\ \A h \in lost : fault[handles[h].alg] = "invalidate_later"
    /\ slot \in Algs /\ fault[slot] = "invalidate_later" /\ LostAt(slot, step) => live.later \in lost

\* A faulty slot has not got past the step that finds it out.
FaultInv == slot \in Algs /\ Candid => step <= FoundOutAt(slot, fault[slot])

\* What a verdict on a slot says, and that every slot has one in the end.
VerdictInv(alg) ==
    /\ status[alg] = "Qualified" /\ Candid => ~Wrong(alg)
    /\ status[alg] \in {"InvalidSignatureAccepted", "ValidSignatureRejected"} /\ Candid => Wrong(alg)
    /\ status[alg] = "ProviderFailure" => reports /\ outages > 0
    /\ status[alg] = "KeyBindingFailed" => Wrong(alg) \/ outages > 0
    /\ slot = "ready" => status[alg] # "pending"

StatusInv ==
    /\ \A alg \in Algs : VerdictInv(alg)
    /\ slot = "p256" => status["ed25519"] # "pending"

QualInv == MadeInv /\ LostInv /\ FaultInv /\ StatusInv

\* What a step at position n binds or expects.
BindMeans(alg, n, name, value) ==
    /\ value = KeyAt(alg, n + 1, name)
    /\ Made(alg, n + 1) = Made(alg, n) + 1
    /\ name = "first" <=> Made(alg, n) = 0
    /\ KeyAt(alg, n + 1, "first") = KeyAt(alg, n, "first")
    /\ ~LostAt(alg, n + 1)

ExpectMeans(alg, n, name, signature, message, outcome) ==
    /\ outcome = "Verified" \/ outcome = "SignatureMismatch"
    /\ signature.class \in ClassesOf(alg)
    /\ outcome = "Verified" <=> signature.message = message /\ signature.key = KeyAt(alg, n, name)
    /\ Made(alg, n) >= 1 /\ (name = "later" => Made(alg, n) >= 2)
    /\ Made(alg, n + 1) = Made(alg, n)
    /\ \A m \in {"first", "later"} : KeyAt(alg, n + 1, m) = KeyAt(alg, n, m)
    /\ LostAt(alg, n + 1) => LostAt(alg, n) \/ (name = "first" /\ Made(alg, n) = 2)

Means(alg, n, s) ==
    \/ s.op = "bind" /\ BindMeans(alg, n, s.handle, s.value)
    \/ s.op = "expect" /\ ExpectMeans(alg, n, s.handle, s.signature, s.message, s.outcome)

\* Each step does what its position says.
LEMMA StepMeans ==
    ASSUME NEW alg \in Algs, NEW n \in 1..Len(Suite(alg))
    PROVE  Means(alg, n, Suite(alg)[n])
<1>1. CASE alg = "ed25519"
  <2>1. Means("ed25519", 1, Bind("first", Rfc8032.key))
    BY DEF Means, BindMeans, Bind, Valid, Invalid, Expect, Made, KeyAt, LostAt, ClassesOf, Signature,
           Rfc8032, MixedR, MixedA, Low, High, Alternate
  <2>2. Means("ed25519", 2, Valid("first", Rfc8032))
    BY DEF Means, ExpectMeans, Bind, Valid, Invalid, Expect, Made, KeyAt, LostAt, ClassesOf, Signature,
           Rfc8032, MixedR, MixedA, Low, High, Alternate
  <2>3. Means("ed25519", 3, Invalid("first", Rfc8032, "not_empty"))
    BY DEF Means, ExpectMeans, Bind, Valid, Invalid, Expect, Made, KeyAt, LostAt, ClassesOf, Signature,
           Rfc8032, MixedR, MixedA, Low, High, Alternate
  <2>4. Means("ed25519", 4, Bind("later", MixedR.key))
    BY DEF Means, BindMeans, Bind, Valid, Invalid, Expect, Made, KeyAt, LostAt, ClassesOf, Signature,
           Rfc8032, MixedR, MixedA, Low, High, Alternate
  <2>5. Means("ed25519", 5, Valid("later", MixedR))
    BY DEF Means, ExpectMeans, Bind, Valid, Invalid, Expect, Made, KeyAt, LostAt, ClassesOf, Signature,
           Rfc8032, MixedR, MixedA, Low, High, Alternate
  <2>6. Means("ed25519", 6, Valid("first", Rfc8032))
    BY DEF Means, ExpectMeans, Bind, Valid, Invalid, Expect, Made, KeyAt, LostAt, ClassesOf, Signature,
           Rfc8032, MixedR, MixedA, Low, High, Alternate
  <2>7. Means("ed25519", 7, Invalid("later", Rfc8032, Rfc8032.message))
    BY DEF Means, ExpectMeans, Bind, Valid, Invalid, Expect, Made, KeyAt, LostAt, ClassesOf, Signature,
           Rfc8032, MixedR, MixedA, Low, High, Alternate
  <2>8. Means("ed25519", 8, Invalid("first", MixedR, MixedR.message))
    BY DEF Means, ExpectMeans, Bind, Valid, Invalid, Expect, Made, KeyAt, LostAt, ClassesOf, Signature,
           Rfc8032, MixedR, MixedA, Low, High, Alternate
  <2>9. Means("ed25519", 9, Valid("later", MixedR))
    BY DEF Means, ExpectMeans, Bind, Valid, Invalid, Expect, Made, KeyAt, LostAt, ClassesOf, Signature,
           Rfc8032, MixedR, MixedA, Low, High, Alternate
  <2>10. Means("ed25519", 10, Bind("later", MixedA.key))
    BY DEF Means, BindMeans, Bind, Valid, Invalid, Expect, Made, KeyAt, LostAt, ClassesOf, Signature,
           Rfc8032, MixedR, MixedA, Low, High, Alternate
  <2>11. Means("ed25519", 11, Valid("later", MixedA))
    BY DEF Means, ExpectMeans, Bind, Valid, Invalid, Expect, Made, KeyAt, LostAt, ClassesOf, Signature,
           Rfc8032, MixedR, MixedA, Low, High, Alternate
  <2>12. Means("ed25519", 12, Valid("first", Rfc8032))
    BY DEF Means, ExpectMeans, Bind, Valid, Invalid, Expect, Made, KeyAt, LostAt, ClassesOf, Signature,
           Rfc8032, MixedR, MixedA, Low, High, Alternate
  <2>13. Means("ed25519", 13, Invalid("later", Rfc8032, Rfc8032.message))
    BY DEF Means, ExpectMeans, Bind, Valid, Invalid, Expect, Made, KeyAt, LostAt, ClassesOf, Signature,
           Rfc8032, MixedR, MixedA, Low, High, Alternate
  <2>14. Means("ed25519", 14, Invalid("first", MixedA, MixedA.message))
    BY DEF Means, ExpectMeans, Bind, Valid, Invalid, Expect, Made, KeyAt, LostAt, ClassesOf, Signature,
           Rfc8032, MixedR, MixedA, Low, High, Alternate
  <2>15. Means("ed25519", 15, Valid("later", MixedA))
    BY DEF Means, ExpectMeans, Bind, Valid, Invalid, Expect, Made, KeyAt, LostAt, ClassesOf, Signature,
           Rfc8032, MixedR, MixedA, Low, High, Alternate
  <2>16. n \in 1..15
    BY <1>1, Ed25519Steps
  <2> DEFINE t == Suite("ed25519")
  <2>17. /\ t[1] = Bind("first", Rfc8032.key) /\ t[2] = Valid("first", Rfc8032)
         /\ t[3] = Invalid("first", Rfc8032, "not_empty")
         /\ t[4] = Bind("later", MixedR.key) /\ t[5] = Valid("later", MixedR)
         /\ t[6] = Valid("first", Rfc8032) /\ t[7] = Invalid("later", Rfc8032, Rfc8032.message)
         /\ t[8] = Invalid("first", MixedR, MixedR.message) /\ t[9] = Valid("later", MixedR)
         /\ t[10] = Bind("later", MixedA.key) /\ t[11] = Valid("later", MixedA)
         /\ t[12] = Valid("first", Rfc8032) /\ t[13] = Invalid("later", Rfc8032, Rfc8032.message)
         /\ t[14] = Invalid("first", MixedA, MixedA.message) /\ t[15] = Valid("later", MixedA)
    <3>1. MixedR # MixedA
      BY DEF MixedR, MixedA, Signature
    <3>2. QED
      BY <3>1, Ed25519Steps
  <2> HIDE DEF t
  <2>18. Means("ed25519", n, t[n])
    <3>1. \/ n = 1 \/ n = 2 \/ n = 3 \/ n = 4 \/ n = 5 \/ n = 6 \/ n = 7 \/ n = 8
          \/ n = 9 \/ n = 10 \/ n = 11 \/ n = 12 \/ n = 13 \/ n = 14 \/ n = 15
      BY <2>16
    <3>2. QED
      BY <2>1, <2>2, <2>3, <2>4, <2>5, <2>6, <2>7, <2>8, <2>9, <2>10, <2>11, <2>12, <2>13,
         <2>14, <2>15, <2>17, <3>1, Zenon
  <2>19. QED
    BY <1>1, <2>18 DEF t
<1>2. CASE alg = "p256"
  <2>1. Means("p256", 1, Bind("first", Low.key))
    BY DEF Means, BindMeans, Bind, Valid, Invalid, Expect, Made, KeyAt, LostAt, ClassesOf, Signature,
           Rfc8032, MixedR, MixedA, Low, High, Alternate
  <2>2. Means("p256", 2, Valid("first", Low))
    BY DEF Means, ExpectMeans, Bind, Valid, Invalid, Expect, Made, KeyAt, LostAt, ClassesOf, Signature,
           Rfc8032, MixedR, MixedA, Low, High, Alternate
  <2>3. Means("p256", 3, Valid("first", High))
    BY DEF Means, ExpectMeans, Bind, Valid, Invalid, Expect, Made, KeyAt, LostAt, ClassesOf, Signature,
           Rfc8032, MixedR, MixedA, Low, High, Alternate
  <2>4. Means("p256", 4, Invalid("first", Low, "different"))
    BY DEF Means, ExpectMeans, Bind, Valid, Invalid, Expect, Made, KeyAt, LostAt, ClassesOf, Signature,
           Rfc8032, MixedR, MixedA, Low, High, Alternate
  <2>5. Means("p256", 5, Bind("later", Alternate.key))
    BY DEF Means, BindMeans, Bind, Valid, Invalid, Expect, Made, KeyAt, LostAt, ClassesOf, Signature,
           Rfc8032, MixedR, MixedA, Low, High, Alternate
  <2>6. Means("p256", 6, Valid("later", Alternate))
    BY DEF Means, ExpectMeans, Bind, Valid, Invalid, Expect, Made, KeyAt, LostAt, ClassesOf, Signature,
           Rfc8032, MixedR, MixedA, Low, High, Alternate
  <2>7. Means("p256", 7, Valid("first", Low))
    BY DEF Means, ExpectMeans, Bind, Valid, Invalid, Expect, Made, KeyAt, LostAt, ClassesOf, Signature,
           Rfc8032, MixedR, MixedA, Low, High, Alternate
  <2>8. Means("p256", 8, Invalid("later", Low, Low.message))
    BY DEF Means, ExpectMeans, Bind, Valid, Invalid, Expect, Made, KeyAt, LostAt, ClassesOf, Signature,
           Rfc8032, MixedR, MixedA, Low, High, Alternate
  <2>9. Means("p256", 9, Valid("first", High))
    BY DEF Means, ExpectMeans, Bind, Valid, Invalid, Expect, Made, KeyAt, LostAt, ClassesOf, Signature,
           Rfc8032, MixedR, MixedA, Low, High, Alternate
  <2>10. Means("p256", 10, Invalid("later", High, High.message))
    BY DEF Means, ExpectMeans, Bind, Valid, Invalid, Expect, Made, KeyAt, LostAt, ClassesOf, Signature,
           Rfc8032, MixedR, MixedA, Low, High, Alternate
  <2>11. Means("p256", 11, Invalid("first", Alternate, Alternate.message))
    BY DEF Means, ExpectMeans, Bind, Valid, Invalid, Expect, Made, KeyAt, LostAt, ClassesOf, Signature,
           Rfc8032, MixedR, MixedA, Low, High, Alternate
  <2>12. Means("p256", 12, Invalid("later", Alternate, "different"))
    BY DEF Means, ExpectMeans, Bind, Valid, Invalid, Expect, Made, KeyAt, LostAt, ClassesOf, Signature,
           Rfc8032, MixedR, MixedA, Low, High, Alternate
  <2>13. Means("p256", 13, Valid("later", Alternate))
    BY DEF Means, ExpectMeans, Bind, Valid, Invalid, Expect, Made, KeyAt, LostAt, ClassesOf, Signature,
           Rfc8032, MixedR, MixedA, Low, High, Alternate
  <2>14. n \in 1..13
    BY <1>2, P256Steps
  <2>15. \/ n = 1 \/ n = 2 \/ n = 3 \/ n = 4 \/ n = 5 \/ n = 6 \/ n = 7 \/ n = 8
         \/ n = 9 \/ n = 10 \/ n = 11 \/ n = 12 \/ n = 13
    BY <2>14
  <2>16. QED
    BY <1>2, <2>1, <2>2, <2>3, <2>4, <2>5, <2>6, <2>7, <2>8, <2>9, <2>10, <2>11, <2>12, <2>13,
       <2>15, P256Steps, Zenon
<1>3. QED
  BY <1>1, <1>2 DEF Algs

\* What a step must be like for a slot with this fault to fail it.
Exposes(alg, n, f, s) ==
    IF f = "unsupported" THEN s.op = "bind"
    ELSE /\ s.op = "expect"
         /\ \/ f = "rejects_all" /\ s.outcome = "Verified"
            \/ f \in Classes /\ s.outcome = "Verified" /\ s.signature.class = f
            \/ f = "accepts_all" /\ s.outcome # "Verified"
            \/ f = "ignores_message" /\ s.outcome # "Verified"
                 /\ s.signature.key = KeyAt(alg, n, s.handle)
            \/ f = "cache_first" /\ s.outcome = "Verified" /\ s.signature.key # KeyAt(alg, n, "first")
            \/ f = "retarget" /\ s.outcome = "Verified" /\ s.signature.key # KeyAt(alg, n, "later")
                 /\ Made(alg, n) >= 2
            \/ f = "accept_any" /\ s.outcome # "Verified" /\ s.signature.message = s.message
                 /\ s.signature.key = KeyAt(alg, n, "first")
            \/ f = "invalidate_later" /\ s.outcome = "Verified" /\ s.handle = "later"
                 /\ LostAt(alg, n)

WrongFaults(alg) ==
    {"unsupported", "rejects_all", "accepts_all", "accept_any", "cache_first", "retarget",
     "invalidate_later", "ignores_message"} \cup ClassesOf(alg)

\* Every fault is exposed by the step that is said to find it out.
LEMMA FoundOutMeans ==
    ASSUME NEW alg \in Algs, NEW f \in WrongFaults(alg)
    PROVE  /\ FoundOutAt(alg, f) \in 1..Len(Suite(alg))
           /\ Exposes(alg, FoundOutAt(alg, f), f, Suite(alg)[FoundOutAt(alg, f)])
<1>1. CASE alg = "ed25519"
  <2>1. FoundOutAt("ed25519", "unsupported") = 1 /\ Exposes("ed25519", 1, "unsupported", Bind("first", Rfc8032.key))
    BY DEF FoundOutAt, Exposes, Classes, Bind, Valid, Invalid, Expect, KeyAt, Made, LostAt, Signature,
           Rfc8032, MixedR, MixedA, Low, High, Alternate
  <2>2. FoundOutAt("ed25519", "rejects_all") = 2 /\ Exposes("ed25519", 2, "rejects_all", Valid("first", Rfc8032))
    BY DEF FoundOutAt, Exposes, Classes, Bind, Valid, Invalid, Expect, KeyAt, Made, LostAt, Signature,
           Rfc8032, MixedR, MixedA, Low, High, Alternate
  <2>3. FoundOutAt("ed25519", "plain") = 2 /\ Exposes("ed25519", 2, "plain", Valid("first", Rfc8032))
    BY DEF FoundOutAt, Exposes, Classes, Bind, Valid, Invalid, Expect, KeyAt, Made, LostAt, Signature,
           Rfc8032, MixedR, MixedA, Low, High, Alternate
  <2>4. FoundOutAt("ed25519", "accepts_all") = 3 /\ Exposes("ed25519", 3, "accepts_all", Invalid("first", Rfc8032, "not_empty"))
    BY DEF FoundOutAt, Exposes, Classes, Bind, Valid, Invalid, Expect, KeyAt, Made, LostAt, Signature,
           Rfc8032, MixedR, MixedA, Low, High, Alternate
  <2>5. FoundOutAt("ed25519", "ignores_message") = 3 /\ Exposes("ed25519", 3, "ignores_message", Invalid("first", Rfc8032, "not_empty"))
    BY DEF FoundOutAt, Exposes, Classes, Bind, Valid, Invalid, Expect, KeyAt, Made, LostAt, Signature,
           Rfc8032, MixedR, MixedA, Low, High, Alternate
  <2>6. FoundOutAt("ed25519", "cache_first") = 5 /\ Exposes("ed25519", 5, "cache_first", Valid("later", MixedR))
    BY DEF FoundOutAt, Exposes, Classes, Bind, Valid, Invalid, Expect, KeyAt, Made, LostAt, Signature,
           Rfc8032, MixedR, MixedA, Low, High, Alternate
  <2>7. FoundOutAt("ed25519", "mixed_R") = 5 /\ Exposes("ed25519", 5, "mixed_R", Valid("later", MixedR))
    BY DEF FoundOutAt, Exposes, Classes, Bind, Valid, Invalid, Expect, KeyAt, Made, LostAt, Signature,
           Rfc8032, MixedR, MixedA, Low, High, Alternate
  <2>8. FoundOutAt("ed25519", "retarget") = 6 /\ Exposes("ed25519", 6, "retarget", Valid("first", Rfc8032))
    BY DEF FoundOutAt, Exposes, Classes, Bind, Valid, Invalid, Expect, KeyAt, Made, LostAt, Signature,
           Rfc8032, MixedR, MixedA, Low, High, Alternate
  <2>9. FoundOutAt("ed25519", "accept_any") = 7 /\ Exposes("ed25519", 7, "accept_any", Invalid("later", Rfc8032, Rfc8032.message))
    BY DEF FoundOutAt, Exposes, Classes, Bind, Valid, Invalid, Expect, KeyAt, Made, LostAt, Signature,
           Rfc8032, MixedR, MixedA, Low, High, Alternate
  <2>10. FoundOutAt("ed25519", "invalidate_later") = 9 /\ Exposes("ed25519", 9, "invalidate_later", Valid("later", MixedR))
    BY DEF FoundOutAt, Exposes, Classes, Bind, Valid, Invalid, Expect, KeyAt, Made, LostAt, Signature,
           Rfc8032, MixedR, MixedA, Low, High, Alternate
  <2>11. FoundOutAt("ed25519", "mixed_A") = 11 /\ Exposes("ed25519", 11, "mixed_A", Valid("later", MixedA))
    BY DEF FoundOutAt, Exposes, Classes, Bind, Valid, Invalid, Expect, KeyAt, Made, LostAt, Signature,
           Rfc8032, MixedR, MixedA, Low, High, Alternate
  <2>12. f = "unsupported" \/ f = "rejects_all" \/ f = "plain" \/ f = "accepts_all" \/ f = "ignores_message" \/ f = "cache_first" \/ f = "mixed_R" \/ f = "retarget" \/ f = "accept_any" \/ f = "invalidate_later" \/ f = "mixed_A"
    BY <1>1 DEF WrongFaults, ClassesOf
  <2> DEFINE t == Suite("ed25519")
  <2>13. /\ t[1] = Bind("first", Rfc8032.key) /\ t[2] = Valid("first", Rfc8032)
         /\ t[3] = Invalid("first", Rfc8032, "not_empty")
         /\ t[5] = Valid("later", MixedR)
         /\ t[6] = Valid("first", Rfc8032) /\ t[7] = Invalid("later", Rfc8032, Rfc8032.message)
         /\ t[9] = Valid("later", MixedR) /\ t[11] = Valid("later", MixedA)
    <3>1. MixedR # MixedA
      BY DEF MixedR, MixedA, Signature
    <3>2. QED
      BY <3>1, Ed25519Steps
  <2>14. Len(t) = 15
    BY Ed25519Steps
  <2> HIDE DEF t
  <2>15. 1 \in 1..Len(t) /\ 2 \in 1..Len(t) /\ 3 \in 1..Len(t) /\ 5 \in 1..Len(t) /\ 6 \in 1..Len(t) /\ 7 \in 1..Len(t) /\ 9 \in 1..Len(t) /\ 11 \in 1..Len(t)
    BY <2>14
  <2>16. FoundOutAt("ed25519", f) \in 1..Len(t) /\ Exposes("ed25519", FoundOutAt("ed25519", f), f, t[FoundOutAt("ed25519", f)])
    BY <2>1, <2>2, <2>3, <2>4, <2>5, <2>6, <2>7, <2>8, <2>9, <2>10, <2>11, <2>12, <2>13, <2>15, Zenon
  <2>17. QED
    BY <1>1, <2>16 DEF t
<1>2. CASE alg = "p256"
  <2>1. FoundOutAt("p256", "unsupported") = 1 /\ Exposes("p256", 1, "unsupported", Bind("first", Low.key))
    BY DEF FoundOutAt, Exposes, Classes, Bind, Valid, Invalid, Expect, KeyAt, Made, LostAt, Signature,
           Rfc8032, MixedR, MixedA, Low, High, Alternate
  <2>2. FoundOutAt("p256", "rejects_all") = 2 /\ Exposes("p256", 2, "rejects_all", Valid("first", Low))
    BY DEF FoundOutAt, Exposes, Classes, Bind, Valid, Invalid, Expect, KeyAt, Made, LostAt, Signature,
           Rfc8032, MixedR, MixedA, Low, High, Alternate
  <2>3. FoundOutAt("p256", "low") = 2 /\ Exposes("p256", 2, "low", Valid("first", Low))
    BY DEF FoundOutAt, Exposes, Classes, Bind, Valid, Invalid, Expect, KeyAt, Made, LostAt, Signature,
           Rfc8032, MixedR, MixedA, Low, High, Alternate
  <2>4. FoundOutAt("p256", "high") = 3 /\ Exposes("p256", 3, "high", Valid("first", High))
    BY DEF FoundOutAt, Exposes, Classes, Bind, Valid, Invalid, Expect, KeyAt, Made, LostAt, Signature,
           Rfc8032, MixedR, MixedA, Low, High, Alternate
  <2>5. FoundOutAt("p256", "accepts_all") = 4 /\ Exposes("p256", 4, "accepts_all", Invalid("first", Low, "different"))
    BY DEF FoundOutAt, Exposes, Classes, Bind, Valid, Invalid, Expect, KeyAt, Made, LostAt, Signature,
           Rfc8032, MixedR, MixedA, Low, High, Alternate
  <2>6. FoundOutAt("p256", "ignores_message") = 4 /\ Exposes("p256", 4, "ignores_message", Invalid("first", Low, "different"))
    BY DEF FoundOutAt, Exposes, Classes, Bind, Valid, Invalid, Expect, KeyAt, Made, LostAt, Signature,
           Rfc8032, MixedR, MixedA, Low, High, Alternate
  <2>7. FoundOutAt("p256", "cache_first") = 6 /\ Exposes("p256", 6, "cache_first", Valid("later", Alternate))
    BY DEF FoundOutAt, Exposes, Classes, Bind, Valid, Invalid, Expect, KeyAt, Made, LostAt, Signature,
           Rfc8032, MixedR, MixedA, Low, High, Alternate
  <2>8. FoundOutAt("p256", "retarget") = 7 /\ Exposes("p256", 7, "retarget", Valid("first", Low))
    BY DEF FoundOutAt, Exposes, Classes, Bind, Valid, Invalid, Expect, KeyAt, Made, LostAt, Signature,
           Rfc8032, MixedR, MixedA, Low, High, Alternate
  <2>9. FoundOutAt("p256", "accept_any") = 8 /\ Exposes("p256", 8, "accept_any", Invalid("later", Low, Low.message))
    BY DEF FoundOutAt, Exposes, Classes, Bind, Valid, Invalid, Expect, KeyAt, Made, LostAt, Signature,
           Rfc8032, MixedR, MixedA, Low, High, Alternate
  <2>10. FoundOutAt("p256", "invalidate_later") = 13 /\ Exposes("p256", 13, "invalidate_later", Valid("later", Alternate))
    BY DEF FoundOutAt, Exposes, Classes, Bind, Valid, Invalid, Expect, KeyAt, Made, LostAt, Signature,
           Rfc8032, MixedR, MixedA, Low, High, Alternate
  <2>11. f = "unsupported" \/ f = "rejects_all" \/ f = "low" \/ f = "high" \/ f = "accepts_all" \/ f = "ignores_message" \/ f = "cache_first" \/ f = "retarget" \/ f = "accept_any" \/ f = "invalidate_later"
    BY <1>2 DEF WrongFaults, ClassesOf
  <2> DEFINE t == Suite("p256")
  <2>12. /\ t[1] = Bind("first", Low.key) /\ t[2] = Valid("first", Low) /\ t[3] = Valid("first", High)
         /\ t[4] = Invalid("first", Low, "different") /\ t[6] = Valid("later", Alternate)
         /\ t[7] = Valid("first", Low) /\ t[8] = Invalid("later", Low, Low.message)
         /\ t[13] = Valid("later", Alternate)
    BY P256Steps
  <2>13. Len(t) = 13
    BY P256Steps
  <2> HIDE DEF t
  <2>14. 1 \in 1..Len(t) /\ 2 \in 1..Len(t) /\ 3 \in 1..Len(t) /\ 4 \in 1..Len(t) /\ 6 \in 1..Len(t) /\ 7 \in 1..Len(t) /\ 8 \in 1..Len(t) /\ 13 \in 1..Len(t)
    BY <2>13
  <2>15. FoundOutAt("p256", f) \in 1..Len(t) /\ Exposes("p256", FoundOutAt("p256", f), f, t[FoundOutAt("p256", f)])
    BY <2>1, <2>2, <2>3, <2>4, <2>5, <2>6, <2>7, <2>8, <2>9, <2>10, <2>11, <2>12, <2>14, Zenon
  <2>16. QED
    BY <1>2, <2>15 DEF t
<1>3. QED
  BY <1>1, <1>2 DEF Algs

LEMMA SuiteEnds == Len(Suite("ed25519")) + 1 = 16 /\ Len(Suite("p256")) + 1 = 14
<1>1. Len(Suite("ed25519")) = 15 /\ Len(Suite("p256")) = 13
  BY Ed25519Steps, P256Steps, Zenon
<1>2. 15 + 1 = 16 /\ 13 + 1 = 14
  OBVIOUS
<1>3. QED
  BY <1>1, <1>2, Zenon

\* A fault that is none for the slot is never found out.
LEMMA RightFaults ==
    ASSUME NEW alg \in Algs, NEW f \in {"none"} \cup Classes, f \in Classes => f \notin ClassesOf(alg)
    PROVE  FoundOutAt(alg, f) = Len(Suite(alg)) + 1
<1>1. CASE alg = "ed25519"
  <2>1. f = "none" \/ f = "low" \/ f = "high"
    BY <1>1 DEF Classes, ClassesOf
  <2>2. FoundOutAt("ed25519", f) = 16
    BY <2>1 DEF FoundOutAt
  <2>3. Len(Suite("ed25519")) + 1 = 16
    BY SuiteEnds, Zenon
  <2>4. QED
    BY <1>1, <2>2, <2>3, Zenon
<1>2. CASE alg = "p256"
  <2>1. f = "none" \/ f = "plain" \/ f = "mixed_R" \/ f = "mixed_A"
    BY <1>2 DEF Classes, ClassesOf
  <2>2. FoundOutAt("p256", f) = 14
    BY <2>1 DEF FoundOutAt
  <2>3. Len(Suite("p256")) + 1 = 14
    BY SuiteEnds, Zenon
  <2>4. QED
    BY <1>2, <2>2, <2>3, Zenon
<1>3. QED
  BY <1>1, <1>2 DEF Algs

\* What a fault of a slot can be.
LEMMA FaultKinds ==
    ASSUME IInv, NEW alg \in Algs
    PROVE  /\ Wrong(alg) => fault[alg] \in WrongFaults(alg)
           /\ ~Wrong(alg) => /\ fault[alg] \in {"none"} \cup Classes
                             /\ fault[alg] \in Classes => fault[alg] \notin ClassesOf(alg)
<1>1. fault[alg] \in {"none", "unsupported", "rejects_all", "accepts_all", "accept_any",
                      "cache_first", "retarget", "invalidate_later", "ignores_message"} \cup Classes
  BY ProviderAssumption DEF IInv, ServiceTypeOK
<1>2. "none" \notin Classes
  BY DEF Classes
<1>3. QED
  BY <1>1, <1>2 DEF Wrong, WrongFaults

-----------------------------------------------------------------------------
(* What the handles of the suite answer.                                   *)

\* The step under way, when it asks for a verdict.
Expecting ==
    /\ IInv /\ MadeInv /\ LostInv
    /\ slot \in Algs /\ Suite(slot)[step].op = "expect"

Asked == live[Suite(slot)[step].handle]

\* The suite's handles are the last ones made, each bound to its key.
LEMMA AskedHandle ==
    ASSUME Expecting
    PROVE  LET s == Suite(slot)[step]
               base == Len(handles) - Made(slot, step)
           IN  /\ ExpectMeans(slot, step, s.handle, s.signature, s.message, s.outcome)
               /\ s.handle \in {"first", "later"}
               /\ base \in Nat /\ Made(slot, step) \in Nat
               /\ Asked \in 1..Len(handles) /\ handles[Asked].alg = slot
               /\ handles[Asked].value = KeyAt(slot, step, s.handle)
               /\ SameSlot(Asked) = (base + 1)..Len(handles)
               /\ base + 1 \in 1..Len(handles)
               /\ handles[base + 1].value = KeyAt(slot, step, "first")
               /\ s.handle = "first" => Asked = base + 1
               /\ Made(slot, step) >= 2 => handles[Len(handles)].value = KeyAt(slot, step, "later")
               /\ s.handle = "later" => Asked = Len(handles) /\ Made(slot, step) >= 2
<1> DEFINE s == Suite(slot)[step]
           made == Made(slot, step)
           base == Len(handles) - made
<1>1. slot \in Algs /\ step \in 1..Len(Suite(slot)) /\ Len(handles) \in Nat
  BY DEF Expecting, IInv, SuiteTypeOK, ServiceTypeOK
<1>2. ExpectMeans(slot, step, s.handle, s.signature, s.message, s.outcome)
  <2>1. s.op = "expect" /\ Means(slot, step, s)
    BY <1>1, StepMeans DEF Expecting
  <2>2. QED
    BY <2>1 DEF Means
<1>3. s.handle \in {"first", "later"}
  BY <1>1, StepShape
<1>4. made \in Nat
  BY <1>1 DEF Made
<1>5. made >= 1 /\ (s.handle = "later" => made >= 2)
  BY <1>2 DEF ExpectMeans
<1>6. /\ base \in Nat
      /\ \A i \in 1..Len(handles) : handles[i].alg = slot <=> i > base
      /\ live.first = base + 1 /\ handles[base + 1].value = KeyAt(slot, step, "first")
      /\ made >= 2 => /\ live.later = Len(handles)
                      /\ handles[Len(handles)].value = KeyAt(slot, step, "later")
  BY <1>1, <1>5, Zenon DEF Expecting, MadeInv
<1>7. /\ s.handle = "first" => Asked = live.first
      /\ s.handle = "later" => Asked = live.later
  <2>1. live = [first |-> live.first, later |-> live.later]
    BY DEF Expecting, IInv, SuiteTypeOK
  <2>2. live["first"] = live.first /\ live["later"] = live.later
    OBVIOUS
  <2>3. QED
    BY <2>2, Zenon DEF Asked
<1> HIDE DEF s, made, base
<1>8. Len(handles) = base + made
  BY <1>1, <1>4 DEF base, made
<1>9. /\ s.handle = "first" => Asked = base + 1
      /\ s.handle = "later" => Asked = Len(handles) /\ made >= 2
  BY <1>5, <1>6, <1>7, Zenon
<1>10. base + 1 \in 1..Len(handles) /\ base + 1 > base /\ Len(handles) \in 1..Len(handles)
       /\ Len(handles) > base
  BY <1>1, <1>4, <1>5, <1>6, <1>8
<1>11. Asked \in 1..Len(handles) /\ handles[Asked].alg = slot
  BY <1>3, <1>6, <1>9, <1>10
<1>12. handles[Asked].value = KeyAt(slot, step, s.handle)
  BY <1>3, <1>6, <1>9, Zenon
<1>13. SameSlot(Asked) = (base + 1)..Len(handles)
  <2>1. SameSlot(Asked) = {i \in 1..Len(handles) : handles[i].alg = slot}
    BY <1>11, Zenon DEF SameSlot
  <2>2. \A i \in 1..Len(handles) : i > base <=> i \in (base + 1)..Len(handles)
    BY <1>1, <1>6
  <2>3. \A i \in (base + 1)..Len(handles) : i \in 1..Len(handles)
    BY <1>1, <1>6
  <2>4. QED
    BY <1>6, <2>1, <2>2, <2>3, Zenon
<1>14. QED
  BY <1>2, <1>3, <1>4, <1>6, <1>9, <1>10, <1>11, <1>12, <1>13, Zenon DEF s, made, base

\* A right slot answers as its suite expects.
LEMMA RightAccepts ==
    ASSUME Expecting, ~Wrong(slot)
    PROVE  LET s == Suite(slot)[step]
           IN  Accepts(Asked, s.signature, s.message) <=> s.outcome = "Verified"
<1> DEFINE s == Suite(slot)[step]
           f == fault[slot]
<1>1. slot \in Algs /\ IInv
  BY DEF Expecting
<1>2. f \in {"none"} \cup Classes /\ (f \in Classes => f \notin ClassesOf(slot))
  BY <1>1, FaultKinds, Zenon
<1>3. f \notin {"unsupported", "rejects_all", "accepts_all", "accept_any", "cache_first", "retarget",
                "invalidate_later", "ignores_message"}
  BY <1>2 DEF Classes
<1>4. /\ ExpectMeans(slot, step, s.handle, s.signature, s.message, s.outcome)
      /\ handles[Asked].alg = slot /\ Asked \in 1..Len(handles)
      /\ handles[Asked].value = KeyAt(slot, step, s.handle)
  BY AskedHandle
<1> HIDE DEF f, s
<1>5. Targets(Asked) = {Asked}
  BY <1>3, <1>4 DEF Targets, f
<1>6. Asked \notin lost
  BY <1>3, <1>4, Zenon DEF Expecting, LostInv, f
<1>7. f \notin {"rejects_all", s.signature.class}
  <2>1. s.signature.class \in ClassesOf(slot) /\ s.signature.class \in Classes
    BY <1>1, <1>4 DEF ExpectMeans, ClassesOf, Classes
  <2>2. QED
    BY <1>2, <1>3, <2>1
<1>8. Accepts(Asked, s.signature, s.message)
        <=> s.signature.message = s.message /\ handles[Asked].value = s.signature.key
  <2>1. fault[handles[Asked].alg] = f
    BY <1>4 DEF f
  <2>2. QED
    BY <1>3, <1>5, <1>6, <1>7, <2>1, Zenon DEF Accepts
<1>9. QED
  BY <1>4, <1>8, Zenon DEF ExpectMeans, s

\* A wrong one is exposed at the step that finds it out.
LEMMA WrongAccepts ==
    ASSUME Expecting, Wrong(slot), step = FoundOutAt(slot, fault[slot])
    PROVE  LET s == Suite(slot)[step]
           IN  Accepts(Asked, s.signature, s.message) <=> s.outcome # "Verified"
<1> DEFINE s == Suite(slot)[step]
           f == fault[slot]
           base == Len(handles) - Made(slot, step)
<1>1. slot \in Algs /\ IInv /\ s.op = "expect"
  BY DEF Expecting
<1>2. f \in WrongFaults(slot) /\ Exposes(slot, step, f, s)
  BY <1>1, FaultKinds, FoundOutMeans
<1>3. /\ ExpectMeans(slot, step, s.handle, s.signature, s.message, s.outcome)
      /\ handles[Asked].alg = slot /\ Asked \in 1..Len(handles)
      /\ handles[Asked].value = KeyAt(slot, step, s.handle)
      /\ base \in Nat /\ SameSlot(Asked) = (base + 1)..Len(handles)
      /\ base + 1 \in 1..Len(handles)
      /\ handles[base + 1].value = KeyAt(slot, step, "first")
      /\ Made(slot, step) >= 2 => handles[Len(handles)].value = KeyAt(slot, step, "later")
      /\ s.handle = "later" => Asked = Len(handles)
  BY AskedHandle, Zenon
<1>4. (s.handle = "later" => Asked = live.later) /\ s.handle \in {"first", "later"}
  <2>1. live = [first |-> live.first, later |-> live.later]
    BY <1>1 DEF IInv, SuiteTypeOK
  <2>2. live["later"] = live.later
    OBVIOUS
  <2>3. QED
    BY <2>2, AskedHandle, Zenon DEF Asked
<1>5. f # "invalidate_later" => Asked \notin lost
  BY <1>3, Zenon DEF Expecting, LostInv
<1>6. \A i \in 1..Len(handles) : base + 1 <= i => i \in (base + 1)..Len(handles)
  BY <1>3
<1>7. Len(handles) \in Nat /\ base + 1 \in (base + 1)..Len(handles) /\ Len(handles) \in (base + 1)..Len(handles)
  BY <1>3
<1> HIDE DEF s, f, base
<1>8. fault[handles[Asked].alg] = f
  BY <1>3 DEF f
<1>9. ASSUME s.outcome = "Verified"
      PROVE  s.signature.message = s.message /\ s.signature.key = KeyAt(slot, step, s.handle)
  BY <1>3, <1>9, Zenon DEF ExpectMeans
<1>10. s.outcome # "Verified" => ~(s.signature.message = s.message /\ s.signature.key = KeyAt(slot, step, s.handle))
  BY <1>3, Zenon DEF ExpectMeans
<1>11. f # "unsupported"
  BY <1>1, <1>2, Zenon DEF Exposes
<1>12. QED
  <2> DEFINE A == Accepts(Asked, s.signature, s.message)
  <2> SUFFICES A <=> s.outcome # "Verified"
    BY DEF s
  <2>1. CASE f = "rejects_all"
    <3>1. s.outcome = "Verified"
      BY <2>1, <1>2 DEF Exposes, Classes
    <3>2. ~A
      BY <2>1, <1>8 DEF Accepts
    <3>3. QED
      BY <3>1, <3>2
  <2>2. CASE f \in Classes
    <3>1. s.outcome = "Verified" /\ s.signature.class = f
      BY <2>2, <1>2 DEF Exposes, Classes
    <3>2. ~A
      BY <2>2, <1>8, <3>1 DEF Accepts, Classes
    <3>3. QED
      BY <3>1, <3>2
  <2>3. CASE f = "accepts_all"
    <3>1. s.outcome # "Verified"
      BY <2>3, <1>2 DEF Exposes, Classes
    <3>2. A
      BY <2>3, <1>8 DEF Accepts
    <3>3. QED
      BY <3>1, <3>2
  <2>4. CASE f = "ignores_message"
    <3>1. s.outcome # "Verified" /\ s.signature.key = KeyAt(slot, step, s.handle)
      BY <2>4, <1>2 DEF Exposes, Classes
    <3>2. Targets(Asked) = {Asked}
      BY <2>4, <1>8 DEF Targets
    <3>3. f \notin {"rejects_all", s.signature.class}
      <4>1. s.signature.class \in ClassesOf(slot)
        BY <1>3, Zenon DEF ExpectMeans
      <4>2. QED
        BY <2>4, <4>1 DEF ClassesOf
    <3>4. A
      <4>1. Asked \notin lost
        BY <1>5, <2>4
      <4>2. QED
        BY <1>3, <1>8, <2>4, <3>1, <3>2, <3>3, <4>1, Zenon DEF Accepts
    <3>5. QED
      BY <3>1, <3>4
  <2>5. CASE f = "cache_first"
    <3>1. s.outcome = "Verified" /\ s.signature.key # KeyAt(slot, step, "first")
      BY <2>5, <1>2 DEF Exposes, Classes
    <3>2. \A i \in Targets(Asked) : i = base + 1
      <4>1. Targets(Asked) = {i \in SameSlot(Asked) : \A j \in SameSlot(Asked) : i <= j}
        BY <2>5, <1>8 DEF Targets
      <4>2. \A i \in SameSlot(Asked) : i <= base + 1 => i = base + 1
        BY <1>3
      <4>3. QED
        BY <1>3, <1>7, <4>1, <4>2, Zenon
    <3>3. ~A
      BY <1>3, <1>8, <2>5, <3>1, <3>2, Zenon DEF Accepts
    <3>4. QED
      BY <3>1, <3>3
  <2>6. CASE f = "retarget"
    <3>1. /\ s.outcome = "Verified" /\ s.signature.key # KeyAt(slot, step, "later")
          /\ Made(slot, step) >= 2
      BY <2>6, <1>2 DEF Exposes, Classes
    <3>2. \A i \in Targets(Asked) : i = Len(handles)
      <4>1. Targets(Asked) = {i \in SameSlot(Asked) : \A j \in SameSlot(Asked) : j <= i}
        BY <2>6, <1>8 DEF Targets
      <4>2. \A i \in SameSlot(Asked) : Len(handles) <= i => i = Len(handles)
        BY <1>3, <1>7
      <4>3. QED
        BY <1>3, <1>7, <4>1, <4>2, Zenon
    <3>3. ~A
      BY <1>3, <1>8, <2>6, <3>1, <3>2, Zenon DEF Accepts
    <3>4. QED
      BY <3>1, <3>3
  <2>7. CASE f = "accept_any"
    <3>1. /\ s.outcome # "Verified" /\ s.signature.message = s.message
          /\ s.signature.key = KeyAt(slot, step, "first")
      BY <2>7, <1>2 DEF Exposes, Classes
    <3>2. Targets(Asked) = SameSlot(Asked)
      BY <2>7, <1>8 DEF Targets
    <3>3. f \notin {"rejects_all", s.signature.class}
      <4>1. s.signature.class \in ClassesOf(slot)
        BY <1>3, Zenon DEF ExpectMeans
      <4>2. QED
        BY <2>7, <4>1 DEF ClassesOf
    <3>4. \E i \in Targets(Asked) : handles[i].value = s.signature.key
      BY <1>3, <1>7, <3>1, <3>2, Zenon
    <3>5. A
      <4>1. Asked \notin lost
        BY <1>5, <2>7
      <4>2. QED
        BY <1>8, <3>1, <3>3, <3>4, <4>1, Zenon DEF Accepts
    <3>6. QED
      BY <3>1, <3>5
  <2>8. CASE f = "invalidate_later"
    <3>1. s.outcome = "Verified" /\ s.handle = "later" /\ LostAt(slot, step)
      BY <2>8, <1>2 DEF Exposes, Classes
    <3>2. Asked \in lost
      BY <2>8, <1>4, <3>1 DEF Expecting, LostInv, f
    <3>3. ~A
      BY <1>8, <2>8, <3>2 DEF Accepts
    <3>4. QED
      BY <3>1, <3>3
  <2>9. f = "rejects_all" \/ f \in Classes \/ f = "accepts_all" \/ f = "ignores_message" \/ f = "cache_first"
          \/ f = "retarget" \/ f = "accept_any" \/ f = "invalidate_later"
    BY <1>2, <1>11 DEF WrongFaults, ClassesOf, Classes
  <2>10. QED
    BY <2>1, <2>2, <2>3, <2>4, <2>5, <2>6, <2>7, <2>8, <2>9, Zenon

-----------------------------------------------------------------------------
(* The invariant of qualification is kept.                                 *)

\* What any step may do to the provider: failures and lost handles add up,
\* and only a slot that invalidates its handles loses any.
Moves ==
    /\ UNCHANGED providerVars /\ Grows(handles, handles')
    /\ outages \in Nat /\ outages' \in Nat /\ outages' >= outages
    /\ lost \subseteq lost'
    /\ \A h \in lost' : h \in lost \/ (h \in 1..Len(handles) /\ fault[handles[h].alg] = "invalidate_later")

LEMMA UseMoves ==
    ASSUME IInv, NEW h \in 1..Len(handles), NEW result, Use(h, result), handles' = handles,
           UNCHANGED providerVars
    PROVE  Moves
<1>1. outages \in Nat /\ Grows(handles, handles')
  BY Constants, SameGrows DEF IInv, ServiceTypeOK
<1>2. outages' \in Nat /\ outages' >= outages
  BY <1>1 DEF Use
<1>3. \A i \in SameSlot(h) : i \in 1..Len(handles) /\ handles[i].alg = handles[h].alg
  BY DEF SameSlot
<1>4. \/ lost' = lost
      \/ fault[handles[h].alg] = "invalidate_later" /\ lost' = lost \cup (SameSlot(h) \ {h})
  BY Zenon DEF Use
<1>5. /\ lost \subseteq lost'
      /\ \A i \in lost' : i \in lost \/ (i \in 1..Len(handles) /\ fault[handles[i].alg] = "invalidate_later")
  BY <1>3, <1>4, Zenon
<1>6. QED
  BY <1>1, <1>2, <1>5, Zenon DEF Moves

LEMMA MakeMoves ==
    ASSUME IInv, NEW alg \in Algs, NEW value \in Values,
           MakeHandle(alg, value) \/ RefuseHandle(alg) \/ UNCHANGED <<outages, handles>>,
           lost' = lost, UNCHANGED providerVars
    PROVE  Moves
<1>1. Grows(handles, handles') /\ ServiceTypeOK'
  BY MakePasses DEF IInv
<1>2. outages \in Nat /\ outages' \in Nat /\ outages' >= outages
  <2>1. outages \in Nat
    BY Constants DEF IInv, ServiceTypeOK
  <2>2. QED
    BY <2>1 DEF MakeHandle, RefuseHandle
<1>3. QED
  BY <1>1, <1>2, Zenon DEF Moves

LEMMA CallMoves ==
    ASSUME IInv, NEW c \in Calls, CallStep(c)
    PROVE  Moves /\ UNCHANGED suiteVars /\ UNCHANGED bindVars /\ handles' = handles
<1>1. UNCHANGED suiteVars /\ handles' = handles /\ UNCHANGED providerVars /\ UNCHANGED bindVars
  BY CallStepsLeave DEF Elsewhere
<1>2. CASE outages' = outages /\ lost' = lost
  <2>1. Grows(handles, handles') /\ outages \in Nat
    BY <1>1, SameGrows, Constants DEF IInv, ServiceTypeOK
  <2>2. QED
    BY <1>1, <1>2, <2>1 DEF Moves
<1>3. phase[c] = "asked" => work[c].key.handle \in 1..Len(handles)
  BY DEF IInv, CallInv, Holds
<1>4. CASE ProviderAnswers(c)
  <2>1. /\ phase[c] = "asked"
        /\ \E result \in Answers(work[c].key.handle, request[c].artifact.signature,
                                 request[c].artifact.payload) : Use(work[c].key.handle, result)
    BY <1>4, Zenon DEF ProviderAnswers
  <2>2. QED
    BY <1>1, <1>3, <2>1, UseMoves, Zenon
<1>5. CASE DropCall(c)
  <2>1. phase[c] = "asked" /\ (Use(work[c].key.handle, "ignored") \/ UNCHANGED <<outages, lost>>)
    BY <1>5, Zenon DEF DropCall
  <2>2. CASE Use(work[c].key.handle, "ignored")
    BY <1>1, <1>3, <2>1, <2>2, UseMoves, Zenon
  <2>3. QED
    BY <1>2, <2>1, <2>2
<1>6. CASE VerifyWhole(c)
  BY <1>2, <1>6, Zenon DEF VerifyWhole
<1>7. CASE ReadFirst(c)
  BY <1>2, <1>7, Zenon DEF ReadFirst
<1>8. CASE VerifyRead(c)
  BY <1>2, <1>8, Zenon DEF VerifyRead
<1>9. CASE Resume(c)
  BY <1>2, <1>9, Zenon DEF Resume
<1>10. QED
  BY <1>1, <1>4, <1>5, <1>6, <1>7, <1>8, <1>9 DEF CallStep

\* What was candid and wrong before is so afterwards, and the other way round.
LEMMA MovesMean ==
    ASSUME IInv, LostInv, Moves
    PROVE  /\ Candid' => Candid
           /\ \A alg \in Algs : Wrong(alg)' <=> Wrong(alg)
           /\ outages > 0 => outages' > 0
           /\ reports' = reports /\ fault' = fault
           /\ \A h \in lost' : fault'[handles'[h].alg] = "invalidate_later"
<1>1. fault' = fault /\ reports' = reports
  BY DEF Moves, providerVars
<1>2. (outages' = 0 => outages = 0) /\ (outages > 0 => outages' > 0)
  BY DEF Moves
<1>3. Candid' => Candid
  BY <1>1, <1>2 DEF Candid
<1>4. \A h \in lost' : h \in 1..Len(handles) /\ fault[handles[h].alg] = "invalidate_later"
  BY Zenon DEF Moves, LostInv, IInv, ServiceTypeOK
<1>5. \A h \in lost' : fault'[handles'[h].alg] = "invalidate_later"
  BY <1>1, <1>4, Zenon DEF Moves, Grows
<1>6. \A alg \in Algs : Wrong(alg)' <=> Wrong(alg)
  BY <1>1, Zenon DEF Wrong
<1>7. QED
  BY <1>1, <1>2, <1>3, <1>5, <1>6

LEMMA StatusKept ==
    ASSUME IInv, LostInv, StatusInv, Moves, status' = status, slot' \in {slot, "dropped"}
    PROVE  StatusInv'
<1>1. ASSUME NEW alg \in Algs PROVE VerdictInv(alg)'
  <2>1. slot' = "ready" => slot = "ready"
    OBVIOUS
  <2>2. VerdictInv(alg)
    BY Zenon DEF StatusInv
  <2>3. /\ Candid' => Candid
        /\ Wrong(alg)' <=> Wrong(alg)
        /\ outages > 0 => outages' > 0
        /\ reports' = reports
    BY MovesMean
  <2>4. QED
    BY <2>1, <2>2, <2>3, Zenon DEF VerdictInv
<1>2. slot' = "p256" => slot = "p256"
  OBVIOUS
<1>3. QED
  BY <1>1, <1>2, Zenon DEF StatusInv

\* Steps of others leave the suite where it is.
LEMMA QualKept ==
    ASSUME IInv, QualInv, Moves, UNCHANGED suiteVars, slot \in Algs => handles' = handles
    PROVE  QualInv'
<1>1. slot' = slot /\ step' = step /\ live' = live /\ status' = status
  BY DEF suiteVars
<1>2. StatusInv'
  BY <1>1, StatusKept DEF QualInv
<1>3. MadeInv'
  BY <1>1, Zenon DEF QualInv, MadeInv
<1>4. LostInv'
  <2>1. \A h \in lost' : fault'[handles'[h].alg] = "invalidate_later"
    BY MovesMean DEF QualInv
  <2>2. fault' = fault /\ lost \subseteq lost'
    BY DEF Moves, providerVars
  <2>3. QED
    BY <1>1, <2>1, <2>2, Zenon DEF QualInv, LostInv
<1>5. FaultInv'
  <2>1. (Candid' => Candid) /\ fault' = fault
    BY MovesMean DEF QualInv
  <2>2. QED
    BY <1>1, <2>1, Zenon DEF QualInv, FaultInv
<1>6. QED
  BY <1>2, <1>3, <1>4, <1>5 DEF QualInv

\* A suite that is not running has nothing to keep but its verdicts.
LEMMA QualOver ==
    ASSUME IInv, QualInv, Moves, slot' \notin Algs, StatusInv'
    PROVE  QualInv'
<1>1. MadeInv' /\ FaultInv'
  BY DEF MadeInv, FaultInv
<1>2. LostInv'
  BY MovesMean DEF LostInv, QualInv
<1>3. QED
  BY <1>1, <1>2 DEF QualInv

\* A verdict that says what is so ends a suite; the next one starts with no
\* handle of its own.
Deserved(result) ==
    /\ result # "pending"
    /\ result = "Qualified" /\ Candid' => ~Wrong(slot)
    /\ result \in {"InvalidSignatureAccepted", "ValidSignatureRejected"} /\ Candid' => Wrong(slot)
    /\ result = "ProviderFailure" => reports /\ outages' > 0
    /\ result = "KeyBindingFailed" => Wrong(slot) \/ outages' > 0

LEMMA QualConcludes ==
    ASSUME IInv, QualInv, Moves, slot \in Algs, handles' = handles, NEW result, Deserved(result),
           Conclude(result)
    PROVE  QualInv'
<1>1. /\ status' = [status EXCEPT ![slot] = result] /\ step' = 1
      /\ slot = "ed25519" => slot' = "p256"
      /\ slot = "p256" => slot' = "ready"
  BY Zenon DEF Conclude
<1>2. status'[slot] = result /\ \A alg \in Algs : alg # slot => status'[alg] = status[alg]
  BY <1>1 DEF IInv, SuiteTypeOK
<1>3. StatusInv'
  <2>1. ASSUME NEW alg \in Algs
        PROVE  /\ status'[alg] = "Qualified" /\ Candid' => ~Wrong(alg)'
               /\ status'[alg] \in {"InvalidSignatureAccepted", "ValidSignatureRejected"} /\ Candid'
                     => Wrong(alg)'
               /\ status'[alg] = "ProviderFailure" => reports' /\ outages' > 0
               /\ status'[alg] = "KeyBindingFailed" => Wrong(alg)' \/ outages' > 0
    <3>1. CASE alg = slot
      <4>1. /\ Candid' => Candid
            /\ Wrong(alg)' <=> Wrong(alg)
            /\ reports' = reports
        BY MovesMean DEF QualInv
      <4>2. QED
        BY <1>2, <3>1, <4>1, Zenon DEF Deserved
    <3>2. CASE alg # slot
      <4>1. VerdictInv(alg) /\ status'[alg] = status[alg]
        BY <1>2, <3>2, Zenon DEF QualInv, StatusInv
      <4>2. /\ Candid' => Candid
            /\ Wrong(alg)' <=> Wrong(alg)
            /\ outages > 0 => outages' > 0
            /\ reports' = reports
        BY MovesMean DEF QualInv
      <4>3. QED
        BY <4>1, <4>2, Zenon DEF VerdictInv
    <3>3. QED
      BY <3>1, <3>2
  <2>2. slot' = "p256" => status'["ed25519"] # "pending"
    BY <1>1, <1>2, Zenon DEF Algs, Deserved
  <2>3. ASSUME NEW alg \in Algs, slot' = "ready" PROVE status'[alg] # "pending"
    <3>1. slot = "p256"
      BY <1>1, <2>3 DEF Algs
    <3>2. alg = "p256" \/ alg = "ed25519"
      BY DEF Algs
    <3>3. QED
      BY <1>2, <3>1, <3>2, Zenon DEF Deserved, QualInv, StatusInv, VerdictInv
  <2>4. QED
    BY <2>1, <2>2, <2>3, Zenon DEF StatusInv, VerdictInv
<1>4. CASE slot = "p256"
  <2>1. slot' \notin Algs
    BY <1>1, <1>4 DEF Algs
  <2>2. QED
    BY <1>3, <2>1, QualOver
<1>5. CASE slot = "ed25519"
  <2>1. slot' = "p256"
    BY <1>1, <1>5
  <2>2. \A i \in 1..Len(handles) : handles[i].alg = "ed25519"
    <3>1. Len(handles) - Made(slot, step) = 0
      BY <1>5, Zenon DEF QualInv, MadeInv, Algs
    <3>2. \A i \in 1..Len(handles) : handles[i].alg = slot <=> i > 0
      BY <1>5, <3>1, Zenon DEF QualInv, MadeInv, Algs
    <3>3. QED
      BY <1>5, <3>2
  <2>3. Made("p256", 1) = 0 /\ ~LostAt("p256", 1)
    BY DEF Made, LostAt
  <2>4. MadeInv'
    <3>1. Len(handles) - 0 = Len(handles) /\ Len(handles) \in Nat
          /\ ~(0 >= 1) /\ ~(0 >= 2)
      BY SameGrows DEF IInv
    <3>2. \A i \in 1..Len(handles) : ~(i > Len(handles))
      BY <3>1
    <3>3. QED
      BY <1>1, <2>1, <2>2, <2>3, <3>1, <3>2 DEF MadeInv
  <2>5. LostInv'
    BY <1>1, <2>1, <2>3, MovesMean DEF LostInv, QualInv
  <2>6. FaultInv'
    <3>1. \A f : FoundOutAt("p256", f) \in Nat /\ 1 <= FoundOutAt("p256", f)
      BY DEF FoundOutAt
    <3>2. QED
      BY <1>1, <2>1, <3>1 DEF FaultInv
  <2>7. QED
    BY <1>3, <2>4, <2>5, <2>6 DEF QualInv
<1>6. QED
  BY <1>4, <1>5 DEF Algs

LEMMA QualInit == Init => QualInv
<1> SUFFICES ASSUME Init PROVE QualInv
  OBVIOUS
<1>1. /\ step = 1 /\ lost = {} /\ handles = <<>> /\ outages = 0
      /\ slot = "ed25519" \/ slot = "ready"
      /\ \A alg \in Algs : status[alg] = IF slot = "ed25519" THEN "pending" ELSE "unchecked"
  BY DEF Init
<1>2. StatusInv
  BY <1>1 DEF StatusInv, VerdictInv, Algs
<1>3. MadeInv
  <2>1. Made("ed25519", 1) = 0
    BY DEF Made
  <2>2. slot \in Algs => slot = "ed25519"
    BY <1>1 DEF Algs
  <2>3. QED
    BY <1>1, <2>1, <2>2 DEF MadeInv
<1>4. LostInv
  <2>1. slot \in Algs => ~LostAt(slot, step)
    BY <1>1 DEF LostAt, Algs
  <2>2. QED
    BY <1>1, <2>1 DEF LostInv
<1>5. FaultInv
  <2>1. \A f : 1 <= FoundOutAt("ed25519", f)
    BY DEF FoundOutAt
  <2>2. slot \in Algs => slot = "ed25519"
    BY <1>1 DEF Algs
  <2>3. QED
    BY <1>1, <2>1, <2>2 DEF FaultInv
<1>6. QED
  BY <1>2, <1>3, <1>4, <1>5 DEF QualInv

\* A slot that makes a handle where its fault would be found out is not at
\* fault: it goes on with one handle more.
LEMMA QualBinds == IInv /\ QualInv /\ SuiteBinds => QualInv'
<1> SUFFICES ASSUME IInv, QualInv, SuiteBinds PROVE QualInv'
  OBVIOUS
<1> DEFINE s == Suite(slot)[step]
<1>1. /\ slot \in Algs /\ s.op = "bind"
      /\ \/ /\ MakeHandle(slot, s.value) /\ step' = step + 1
            /\ live' = [live EXCEPT ![s.handle] = Len(handles) + 1]
            /\ UNCHANGED <<slot, status>>
         \/ RefuseHandle(slot) /\ Conclude("KeyBindingFailed")
      /\ UNCHANGED providerVars /\ lost' = lost
  BY Zenon DEF SuiteBinds
<1>2. step \in 1..Len(Suite(slot)) /\ Len(handles) \in Nat
  BY <1>1, SameGrows DEF IInv, SuiteTypeOK
<1>3. s.handle \in {"first", "later"} /\ s.value \in Values /\ BindMeans(slot, step, s.handle, s.value)
  <2>1. Means(slot, step, s)
    BY <1>1, <1>2, StepMeans
  <2>2. QED
    BY <1>1, <1>2, <2>1, StepShape DEF Means
<1>4. FoundOutAt(slot, fault[slot]) = step /\ Wrong(slot) => fault[slot] = "unsupported"
  <2>1. Wrong(slot) => Exposes(slot, FoundOutAt(slot, fault[slot]), fault[slot],
                               Suite(slot)[FoundOutAt(slot, fault[slot])])
    BY <1>1, FaultKinds, FoundOutMeans, Zenon
  <2>2. QED
    BY <1>1, <2>1 DEF Exposes
<1> HIDE DEF s
<1>5. CASE RefuseHandle(slot) /\ Conclude("KeyBindingFailed")
  <2>1. handles' = handles /\ (fault[slot] = "unsupported" \/ outages' = outages + 1)
    BY <1>5, Zenon DEF RefuseHandle
  <2>2. Moves
    BY <1>1, <1>3, <1>5, MakeMoves
  <2>3. outages' = outages + 1 => outages' > 0
    BY <2>2 DEF Moves
  <2>4. Deserved("KeyBindingFailed")
    BY <2>1, <2>3 DEF Deserved, Wrong, Classes
  <2>5. QED
    BY <1>1, <1>5, <2>1, <2>2, <2>4, QualConcludes
<1>6. CASE /\ MakeHandle(slot, s.value) /\ step' = step + 1
           /\ live' = [live EXCEPT ![s.handle] = Len(handles) + 1]
           /\ UNCHANGED <<slot, status>>
  <2>1. Moves
    BY <1>1, <1>3, <1>6, MakeMoves
  <2>2. /\ Len(handles') = Len(handles) + 1
        /\ handles'[Len(handles) + 1] = [alg |-> slot, value |-> s.value]
        /\ Grows(handles, handles') /\ fault[slot] # "unsupported"
    BY <1>1, <1>3, <1>6, Makes, Zenon DEF IInv, MakeHandle
  <2>3. StatusInv'
    BY <1>6, <2>1, StatusKept DEF QualInv
  <2>4. Made(slot, step) \in Nat /\ Made(slot, step + 1) = Made(slot, step) + 1
    BY <1>3 DEF BindMeans, Made
  <2>5. MadeInv'
    <3> DEFINE made == Made(slot, step)
               base == Len(handles) - made
               there == Len(handles) + 1
               again == Made(slot, step + 1)
    <3>1. /\ base \in Nat
          /\ slot = "ed25519" => base = 0
          /\ \A i \in 1..Len(handles) : handles[i].alg = slot <=> i > base
          /\ made >= 1 => /\ live.first = base + 1
                          /\ handles[base + 1].value = KeyAt(slot, step, "first")
      BY <1>1, Zenon DEF QualInv, MadeInv
    <3>2. Len(handles') - again = base /\ again >= 1 /\ (again >= 2 <=> made >= 1)
      BY <1>2, <2>2, <2>4
    <3>3. handles'[there].alg = slot /\ handles'[there].value = KeyAt(slot, step + 1, s.handle)
      BY <1>3, <2>2 DEF BindMeans
    <3>4. s.handle = "first" <=> made = 0
      BY <1>3, Zenon DEF BindMeans
    <3>5. /\ live'.first = IF s.handle = "first" THEN there ELSE live.first
          /\ live'.later = IF s.handle = "later" THEN there ELSE live.later
      BY <1>3, <1>6 DEF IInv, SuiteTypeOK
    <3>6. KeyAt(slot, step + 1, "first") = KeyAt(slot, step, "first")
      BY <1>3, Zenon DEF BindMeans
    <3>7. made \in Nat
      BY <2>4
    <3> HIDE DEF made, again
    <3>8. /\ made = 0 => base + 1 = there
          /\ made # 0 => made >= 1 /\ base + 1 \in 1..Len(handles)
          /\ there > base /\ Len(handles') = there
          /\ \A i \in 1..there : i \in 1..Len(handles) \/ i = there
      BY <1>2, <2>2, <3>1, <3>7
    <3> HIDE DEF base, there
    <3>9. \A i \in 1..there : handles'[i].alg = slot <=> i > base
      BY <2>2, <3>1, <3>3, <3>8, Zenon DEF Grows
    <3>10. live'.first = base + 1 /\ handles'[base + 1].value = KeyAt(slot, step + 1, "first")
      <4>1. CASE made = 0
        BY <3>3, <3>4, <3>5, <3>8, <4>1, Zenon
      <4>2. CASE made # 0
        BY <2>2, <3>1, <3>4, <3>5, <3>6, <3>8, <4>2, Zenon DEF Grows
      <4>3. QED
        BY <4>1, <4>2
    <3>11. again >= 2 => live'.later = there /\ handles'[there].value = KeyAt(slot, step + 1, "later")
      <4>1. again >= 2 => s.handle = "later"
        <5>1. again >= 2 => made # 0
          BY <3>2, <3>7
        <5>2. QED
          BY <1>3, <3>4, <5>1
      <4>2. QED
        BY <3>3, <3>5, <4>1, Zenon
    <3>12. slot' = slot /\ step' = step + 1
      BY <1>6
    <3>13. Len(handles') - Made(slot', step') = base
      BY <3>2, <3>12 DEF again
    <3>14. Made(slot', step') = again
      BY <3>12 DEF again
    <3>15. QED
      BY <3>1, <3>8, <3>9, <3>10, <3>11, <3>12, <3>13, <3>14, Zenon DEF MadeInv
  <2>6. LostInv'
    <3>1. ~LostAt(slot, step + 1)
      BY <1>3, Zenon DEF BindMeans
    <3>2. \A h \in lost' : fault'[handles'[h].alg] = "invalidate_later"
      BY <2>1, MovesMean DEF QualInv
    <3>3. QED
      BY <1>6, <3>1, <3>2 DEF LostInv
  <2>7. FaultInv'
    <3>1. (Candid' => Candid) /\ fault' = fault
      BY <2>1, MovesMean DEF QualInv
    <3>2. Candid => step <= FoundOutAt(slot, fault[slot])
      BY <1>1, Zenon DEF QualInv, FaultInv
    <3>3. FoundOutAt(slot, fault[slot]) # step
      <4>1. Wrong(slot) => FoundOutAt(slot, fault[slot]) # step
        BY <1>4, <2>2
      <4>2. ~Wrong(slot) => FoundOutAt(slot, fault[slot]) = Len(Suite(slot)) + 1
        BY <1>1, FaultKinds, RightFaults, Zenon
      <4>3. step # Len(Suite(slot)) + 1
        BY <1>1, <1>2, SuiteShape
      <4>4. QED
        BY <4>1, <4>2, <4>3
    <3>4. FoundOutAt(slot, fault[slot]) \in Nat
      BY <1>1 DEF FoundOutAt
    <3>5. Candid => step + 1 <= FoundOutAt(slot, fault[slot])
      BY <1>2, <3>2, <3>3, <3>4
    <3>6. QED
      BY <1>6, <3>1, <3>5 DEF FaultInv
  <2>8. QED
    BY <2>3, <2>5, <2>6, <2>7 DEF QualInv
<1>7. QED
  BY <1>1, <1>5, <1>6, Zenon

\* A suite goes on to its next step with the handles it has.
LEMMA QualContinues ==
    ASSUME Expecting, QualInv, Moves, handles' = handles, step # Len(Suite(slot)),
           step' = step + 1, UNCHANGED <<slot, live, status>>, NEW result,
           Use(Asked, result),
           Candid' => ~(Wrong(slot) /\ step = FoundOutAt(slot, fault[slot]))
    PROVE  QualInv'
<1> DEFINE s == Suite(slot)[step]
           base == Len(handles) - Made(slot, step)
<1>1. slot \in Algs /\ IInv /\ step \in 1..Len(Suite(slot)) /\ slot' = slot /\ live' = live
  BY DEF Expecting, IInv, SuiteTypeOK
<1>2. /\ ExpectMeans(slot, step, s.handle, s.signature, s.message, s.outcome)
      /\ base \in Nat /\ Made(slot, step) \in Nat
      /\ Asked \in 1..Len(handles) /\ handles[Asked].alg = slot
      /\ SameSlot(Asked) = (base + 1)..Len(handles)
      /\ s.handle = "first" => Asked = base + 1
  BY AskedHandle, Zenon
<1>3. StatusInv'
  BY <1>1, StatusKept DEF QualInv
<1>4. MadeInv'
  <2>1. Made(slot, step + 1) = Made(slot, step)
    BY <1>2, Zenon DEF ExpectMeans
  <2>2. KeyAt(slot, step + 1, "first") = KeyAt(slot, step, "first")
    BY <1>2 DEF ExpectMeans
  <2>3. KeyAt(slot, step + 1, "later") = KeyAt(slot, step, "later")
    BY <1>2 DEF ExpectMeans
  <2>4. QED
    BY <1>1, <2>1, <2>2, <2>3, Zenon DEF QualInv, MadeInv
<1>5. LostInv'
  <2>1. /\ \A h \in lost' : fault'[handles'[h].alg] = "invalidate_later"
        /\ fault' = fault /\ lost \subseteq lost'
    BY <1>1, MovesMean DEF QualInv, Moves
  <2>2. ASSUME fault[slot] = "invalidate_later", LostAt(slot, step + 1) PROVE live.later \in lost'
    <3>1. CASE LostAt(slot, step)
      BY <1>1, <2>1, <2>2, <3>1, Zenon DEF QualInv, LostInv
    <3>2. CASE s.handle = "first" /\ Made(slot, step) = 2
      <4>1. Asked = base + 1 /\ Len(handles) = base + 2
        BY <1>2, <3>2
      <4>2. live.later = Len(handles)
        BY <1>1, <3>2 DEF QualInv, MadeInv
      <4>3. \A i \in SameSlot(Asked) : Asked <= i
        BY <1>2, <4>1
      <4>4. Len(handles) \in SameSlot(Asked) \ {Asked}
        BY <1>2, <4>1
      <4>5. lost' = lost \cup (SameSlot(Asked) \ {Asked})
        BY <1>2, <2>2, <4>3, Zenon DEF Use
      <4>6. QED
        BY <4>2, <4>4, <4>5
    <3>3. QED
      BY <1>2, <2>2, <3>1, <3>2, Zenon DEF ExpectMeans
  <2>3. QED
    BY <1>1, <2>1, <2>2, Zenon DEF LostInv
<1>6. FaultInv'
  <2>1. (Candid' => Candid) /\ fault' = fault
    BY <1>1, MovesMean DEF QualInv
  <2>2. Candid => step <= FoundOutAt(slot, fault[slot])
    BY <1>1, Zenon DEF QualInv, FaultInv
  <2>3. Candid' => FoundOutAt(slot, fault[slot]) # step
    <3>1. ~Wrong(slot) => FoundOutAt(slot, fault[slot]) = Len(Suite(slot)) + 1
      BY <1>1, FaultKinds, RightFaults, Zenon
    <3>2. step # Len(Suite(slot)) + 1
      BY <1>1, SuiteShape
    <3>3. QED
      BY <3>1, <3>2
  <2>4. FoundOutAt(slot, fault[slot]) \in Nat
    BY <1>1 DEF FoundOutAt
  <2>5. Candid' => step + 1 <= FoundOutAt(slot, fault[slot])
    BY <1>1, <2>1, <2>2, <2>3, <2>4
  <2>6. QED
    BY <1>1, <2>1, <2>5 DEF FaultInv
<1>7. QED
  BY <1>3, <1>4, <1>5, <1>6 DEF QualInv

\* A slot that answers as expected where its fault would be found out is not
\* at fault, and one that does not is, unless it failed.
LEMMA QualVerifies == IInv /\ QualInv /\ SuiteVerifies => QualInv'
<1> SUFFICES ASSUME IInv, QualInv, SuiteVerifies PROVE QualInv'
  OBVIOUS
<1> DEFINE s == Suite(slot)[step]
<1>1. PICK result \in Answers(Asked, s.signature, s.message) :
        /\ Use(Asked, result)
        /\ IF Reported(result) = s.outcome THEN Continue ELSE Conclude(Rejection(Reported(result)))
  BY Zenon DEF SuiteVerifies, Asked
<1>2. /\ slot \in Algs /\ s.op = "expect" /\ handles' = handles /\ UNCHANGED providerVars
      /\ Expecting
  BY Zenon DEF SuiteVerifies, Expecting, QualInv
<1>3. /\ ExpectMeans(slot, step, s.handle, s.signature, s.message, s.outcome)
      /\ Asked \in 1..Len(handles)
  BY <1>2, AskedHandle, Zenon
<1>4. s.outcome = "Verified" \/ s.outcome = "SignatureMismatch"
  BY <1>3, Zenon DEF ExpectMeans
<1>5. Moves
  BY <1>1, <1>2, <1>3, UseMoves
<1> DEFINE exposed == Wrong(slot) /\ step = FoundOutAt(slot, fault[slot])
           opinion == IF Accepts(Asked, s.signature, s.message) THEN "Verified" ELSE "SignatureMismatch"
<1>6. (exposed => opinion # s.outcome) /\ (~Wrong(slot) => opinion = s.outcome)
  BY <1>2, <1>4, RightAccepts, WrongAccepts, Zenon
<1>7. result = opinion \/ (result = "failed" /\ outages' = outages + 1)
  BY <1>1 DEF Answers, Use
<1>8. opinion \in {"Verified", "SignatureMismatch"}
  OBVIOUS
<1> HIDE DEF s, opinion
<1>9. result = "failed" => outages' > 0 /\ reports' = reports /\ (Candid' => reports)
  <2>1. reports' = reports /\ outages \in Nat
    BY <1>5 DEF Moves, providerVars
  <2>2. QED
    BY <1>7, <1>8, <2>1 DEF Candid
\* What is reported unless it is a failure that passes for an opinion.
<1>10. \/ Reported(result) = opinion
       \/ result = "failed" /\ reports /\ Reported(result) = "ProviderFailure"
       \/ result = "failed" /\ ~reports /\ Reported(result) = "SignatureMismatch"
  BY <1>7, <1>8 DEF Reported
<1>11. CASE Reported(result) # s.outcome
  <2>1. Conclude(Rejection(Reported(result)))
    BY <1>1, <1>11, Zenon
  <2>2. Deserved(Rejection(Reported(result)))
    <3>1. CASE result = "failed" /\ reports /\ Reported(result) = "ProviderFailure"
      <4>1. Rejection(Reported(result)) = "ProviderFailure"
        BY <3>1 DEF Rejection
      <4>2. QED
        BY <1>9, <3>1, <4>1 DEF Deserved
    <3>2. CASE result = "failed" /\ ~reports /\ Reported(result) = "SignatureMismatch"
      <4>1. Rejection(Reported(result)) = "ValidSignatureRejected"
        BY <3>2 DEF Rejection
      <4>2. QED
        BY <1>9, <3>2, <4>1 DEF Deserved
    <3>3. CASE Reported(result) = opinion
      <4>1. Rejection(opinion) \in {"InvalidSignatureAccepted", "ValidSignatureRejected"}
        <5>1. CASE opinion = "Verified"
          BY <5>1 DEF Rejection
        <5>2. CASE opinion = "SignatureMismatch"
          BY <5>2 DEF Rejection
        <5>3. QED
          BY <1>8, <5>1, <5>2
      <4>2. Wrong(slot)
        BY <1>6, <1>11, <3>3
      <4>3. QED
        BY <3>3, <4>1, <4>2 DEF Deserved
    <3>4. QED
      BY <1>10, <3>1, <3>2, <3>3
  <2>3. QED
    BY <1>2, <1>5, <2>1, <2>2, QualConcludes
<1>12. CASE Reported(result) = s.outcome
  <2>1. Continue
    BY <1>1, <1>12, Zenon
  <2>2. Candid' => ~exposed
    <3>1. Candid' => Reported(result) = opinion
      BY <1>4, <1>9, <1>10, <1>12
    <3>2. QED
      BY <1>6, <1>12, <3>1
  <2>3. CASE step = Len(Suite(slot))
    <3>1. Conclude("Qualified")
      BY <2>1, <2>3, Zenon DEF Continue
    <3>2. Candid' => ~Wrong(slot)
      <4>1. Candid' => Candid
        BY <1>5, MovesMean DEF QualInv
      <4>2. Candid => step <= FoundOutAt(slot, fault[slot])
        BY <1>2, Zenon DEF QualInv, FaultInv
      <4>3. Wrong(slot) => FoundOutAt(slot, fault[slot]) \in 1..Len(Suite(slot))
        BY <1>2, FaultKinds, FoundOutMeans, Zenon
      <4>4. Len(Suite(slot)) \in Nat
        BY <1>2, SuiteShape
      <4>5. QED
        BY <2>2, <2>3, <4>1, <4>2, <4>3, <4>4
    <3>3. Deserved("Qualified")
      BY <3>2 DEF Deserved
    <3>4. QED
      BY <1>2, <1>5, <3>1, <3>3, QualConcludes
  <2>4. CASE step # Len(Suite(slot))
    <3>1. step' = step + 1 /\ UNCHANGED <<slot, live, status>>
      BY <2>1, <2>4, Zenon DEF Continue
    <3>2. QED
      BY <1>1, <1>2, <1>5, <2>2, <2>4, <3>1, QualContinues
  <2>5. QED
    BY <2>3, <2>4
<1>13. QED
  BY <1>11, <1>12

LEMMA QualStep == IInv /\ HeldInv /\ QualInv /\ [Next]_vars => QualInv'
<1> SUFFICES ASSUME IInv, HeldInv, QualInv, [Next]_vars PROVE QualInv'
  OBVIOUS
<1>1. CASE SuiteBinds
  BY <1>1, QualBinds
<1>2. CASE SuiteVerifies
  BY <1>2, QualVerifies
<1>g. Grows(handles, handles) /\ outages \in Nat
  BY SameGrows, Constants DEF IInv, ServiceTypeOK
<1>3. CASE DropQualification
  <2>1. /\ slot' = "dropped" /\ UNCHANGED <<outages, handles, lost, status>>
        /\ UNCHANGED providerVars
    BY <1>3, Zenon DEF DropQualification
  <2>2. Moves
    BY <1>g, <2>1 DEF Moves
  <2>3. StatusInv'
    BY <2>1, <2>2, StatusKept DEF QualInv
  <2>4. QED
    BY <2>1, <2>2, <2>3, QualOver DEF Algs
<1>4. CASE AskForHandle
  <2>1. /\ UNCHANGED providerVars /\ outages' = outages /\ handles' = handles /\ lost' = lost
        /\ UNCHANGED suiteVars
    BY <1>4, Zenon DEF AskForHandle
  <2>2. Moves
    BY <1>g, <2>1 DEF Moves
  <2>3. QED
    BY <2>1, <2>2, QualKept
<1>5. ASSUME NEW i \in 1..Len(binding), HandleArrives(i) \/ DropBind(i) PROVE QualInv'
  <2>1. binding[i].alg \in Algs /\ binding[i].value \in Values
    BY ElementOfSeq, Constants DEF IInv, BindTypeOK
  <2>2. /\ UNCHANGED suiteVars /\ UNCHANGED providerVars /\ lost' = lost
        /\ \/ MakeHandle(binding[i].alg, binding[i].value) \/ RefuseHandle(binding[i].alg)
           \/ UNCHANGED <<outages, handles>>
    BY <1>5, Zenon DEF HandleArrives, DropBind
  <2>3. Moves
    BY <2>1, <2>2, MakeMoves
  <2>4. slot \notin Algs
    <3>1. binding # <<>>
      OBVIOUS
    <3>2. QED
      BY <3>1 DEF HeldInv, Algs
  <2>5. QED
    BY <2>2, <2>3, <2>4, QualKept
<1>6. ASSUME NEW c \in Calls, CallStep(c) PROVE QualInv'
  BY <1>6, CallMoves, QualKept
<1>7. CASE UNCHANGED vars
  <2>1. Moves /\ UNCHANGED suiteVars /\ handles' = handles
    BY <1>g, <1>7 DEF vars, Moves, providerVars, suiteVars
  <2>2. QED
    BY <2>1, QualKept
<1>8. QED
  BY NextCases, <1>1, <1>2, <1>3, <1>4, <1>5, <1>6, <1>7, Zenon

LEMMA QualHolds == Spec => [](IInv /\ HeldInv /\ QualInv)
BY TypeInit, HeldInit, QualInit, TypeStep, HeldStep, QualStep, PTL DEF Spec

\* Qualification says what the provider is, for every fault of a slot and
\* whatever fails meanwhile: a slot that reuses, retargets, invalidates or
\* confuses handles, accepts what it must not or rejects a kind of valid
\* signature is found out by a step of its suite before it can qualify, and a
\* right slot is never blamed for a failure or for the other slot
\* (qualify_ed25519, qualify_p256, ensure_outcome).
THEOREM QualificationSpeaksTruly == Spec => []QualificationIsRight
<1>1. IInv /\ QualInv => QualificationIsRight
  <2> SUFFICES ASSUME IInv, QualInv PROVE QualificationIsRight
    OBVIOUS
  <2>1. QualifiedIsRight
    BY Zenon DEF QualInv, StatusInv, VerdictInv, QualifiedIsRight
  <2>2. ASSUME NEW alg \in Algs, slot = "ready", outages = 0, ~Wrong(alg)
        PROVE  status[alg] \in {"Qualified", "unchecked"}
    <3>1. status[alg] \in {"pending", "unchecked", "Qualified"} \cup Rejections
      BY DEF IInv, SuiteTypeOK
    <3>2. Candid /\ ~(outages > 0)
      BY <2>2 DEF Candid
    <3>3. VerdictInv(alg)
      BY DEF QualInv, StatusInv
    <3>4. QED
      BY <2>2, <3>1, <3>2, <3>3 DEF VerdictInv, Rejections
  <2>3. RejectionIsHonest
    BY <2>2, Zenon DEF QualInv, StatusInv, VerdictInv, RejectionIsHonest
  <2>4. QED
    BY <2>1, <2>3 DEF QualificationIsRight
<1>2. QED
  BY <1>1, QualHolds, PTL

-----------------------------------------------------------------------------
(* A right provider acts as the built-in verifier.                         *)

\* Nothing that failed passed for an opinion, and no slot that nobody
\* qualified is at fault.
Sure == Candid /\ \A alg \in Algs : status[alg] = "unchecked" => ~Wrong(alg)

\* A signature is of one of the kinds of its algorithm.
Fits(a) == KnownAlgorithm(a.alg) => a.signature.class \in ClassesOf(AlgorithmOf(a.alg))

HeldKey(key, hd, hs) == \E i \in 1..Len(hd) : hd[i] = key.handle /\ hs[hd[i]].value = key.value

\* What a call that reads, asks or was answered holds.
ReadInv(p, q, s) ==
    /\ p \in {"read", "asked", "answered"} => ~q.oversized /\ IsArtifact(q.artifact) /\ Fits(q.artifact)
         /\ s = PreVerify(q.artifact, IF q.staged THEN q.allowUnsigned ELSE FALSE)
    /\ p = "read" => q.staged

AskInv(p, q, s, w, hd, hs) ==
    p \in {"asked", "answered"} => /\ q.api # "builtin" /\ w = Admit(q, s) /\ w.work
                                   /\ HeldKey(w.key, hd, hs)

AnswerInv(sure, p, q, w, a) ==
    p = "answered" /\ sure => a = NativeOutcome(q.artifact, w.key) \/ a = "ProviderFailure"

DoneInv(sure, p, q, s, a, v) ==
    p = "done" /\ ~q.oversized /\ (q.api # "builtin" => sure)
      => \/ v = NativeVerdict(q, s)
         \/ a = "ProviderFailure" /\ v = KeyResolutionFailure

NativeInv ==
    /\ slot \in Algs => \A alg \in Algs : status[alg] # "unchecked"
    /\ \A c \in Calls :
         /\ ReadInv(phase[c], request[c], pre[c])
         /\ AskInv(phase[c], request[c], pre[c], work[c], held, handles)
         /\ AnswerInv(Sure, phase[c], request[c], work[c], answer[c])
         /\ DoneInv(Sure, phase[c], request[c], pre[c], answer[c], verdict[c])

\* Work is left only by a readable artifact of a known algorithm.
LEMMA WorkMeans ==
    ASSUME NEW q, NEW seen, Admit(q, seen).work
    PROVE  KnownAlgorithm(q.artifact.alg) /\ seen = "Ok"
<1>1. \A r : ~Complete(r).work
  BY DEF Complete
<1>2. seen = "Ok" /\ Admit(q, seen) = Prepare(q.artifact.alg, q.artifact.shape, q.keys, q.enabled)
  BY <1>1, Zenon DEF Admit
<1>3. KnownAlgorithm(q.artifact.alg)
  BY <1>1, <1>2, Zenon DEF Prepare
<1>4. QED
  BY <1>2, <1>3

\* The slot of every key that callers hold is right, when it is sure that the
\* provider was qualified or is right.
LEMMA HeldSlotsRight ==
    ASSUME IInv, HeldInv, QualInv, Sure, NEW i \in 1..Len(held)
    PROVE  held[i] \in 1..Len(handles) /\ handles[held[i]].alg \in Algs /\ ~Wrong(handles[held[i]].alg)
<1>1. held[i] \in 1..Len(handles)
  BY ElementOfSeq DEF IInv, BindTypeOK
<1>2. handles[held[i]].alg \in Algs
  <2>1. handles[held[i]] \in Handles
    BY <1>1, ElementOfSeq DEF IInv, ServiceTypeOK, Handles
  <2>2. QED
    BY <2>1 DEF Handles
<1>3. status[handles[held[i]].alg] \in {"Qualified", "unchecked"}
  BY DEF HeldInv, KeysFit, Ent
<1>4. VerdictInv(handles[held[i]].alg)
  BY <1>2 DEF QualInv, StatusInv
<1>5. ~Wrong(handles[held[i]].alg)
  BY <1>2, <1>3, <1>4 DEF VerdictInv, Sure
<1>6. QED
  BY <1>1, <1>2, <1>5

\* What a right slot answers for the work of a call.
LEMMA RightAnswers ==
    ASSUME IInv, HeldInv, QualInv, NativeInv, Sure, NEW c \in Calls, phase[c] = "asked"
    PROVE  LET a == request[c].artifact
               k == work[c].key
           IN  Accepts(k.handle, a.signature, a.payload) <=> Genuine(a, k)
<1> DEFINE q == request[c]
           a == q.artifact
           w == work[c]
           h == w.key.handle
           alg == handles[h].alg
           f == fault[alg]
<1>1. /\ ReadInv("asked", q, pre[c]) /\ AskInv("asked", q, pre[c], w, held, handles)
      /\ Holds(q, w, handles)
  BY Zenon DEF NativeInv, IInv, CallInv
<1>2. /\ IsArtifact(a) /\ Fits(a) /\ w = Admit(q, pre[c]) /\ w.work /\ HeldKey(w.key, held, handles)
  BY <1>1, Zenon DEF ReadInv, AskInv
<1>3. PICK i \in 1..Len(held) : held[i] = h /\ handles[held[i]].value = w.key.value
  BY <1>2, Zenon DEF HeldKey
<1>4. h \in 1..Len(handles) /\ alg \in Algs /\ ~Wrong(alg) /\ handles[h].value = w.key.value
  BY <1>3, HeldSlotsRight, Zenon
<1>5. alg = AlgorithmOf(a.alg)
  BY <1>1, Zenon DEF Holds, Fitting
<1>6. a.signature.class \in ClassesOf(alg)
  BY <1>2, <1>5, WorkMeans, Zenon DEF Fits
<1>7. f \in {"none"} \cup Classes /\ (f \in Classes => f \notin ClassesOf(alg))
  BY <1>4, FaultKinds, Zenon
<1>8. f \notin {"unsupported", "rejects_all", "accepts_all", "accept_any", "cache_first", "retarget",
                "invalidate_later", "ignores_message"}
  BY <1>7 DEF Classes
<1>9. h \notin lost
  BY <1>8, Zenon DEF QualInv, LostInv
<1> HIDE DEF f, a, q, w, alg
<1>10. f \notin {"rejects_all", a.signature.class}
  <2>1. a.signature.class \in Classes
    BY <1>4, <1>6 DEF ClassesOf, Classes, Algs
  <2>2. QED
    BY <1>6, <1>7, <1>8, <2>1
<1> HIDE DEF h
<1>11. fault[handles[h].alg] = f
  BY DEF f, alg
<1>12. Targets(h) = {h}
  BY <1>8, <1>11 DEF Targets
<1>13. Accepts(h, a.signature, a.payload)
         <=> a.signature.message = a.payload /\ handles[h].value = a.signature.key
  BY <1>8, <1>9, <1>10, <1>11, <1>12, Zenon DEF Accepts
<1>14. QED
  BY <1>4, <1>13, Zenon DEF Genuine, h, w, a, q

\* What is sure after a step was so before.
LEMMA SureKept ==
    ASSUME IInv, QualInv, NativeInv, Moves, slot \notin Algs => status' = status
    PROVE  Sure' => Sure
<1>1. ASSUME Sure', NEW alg \in Algs, status[alg] = "unchecked" PROVE ~Wrong(alg)
  <2>1. status'[alg] = "unchecked"
    BY <1>1, Zenon DEF NativeInv
  <2>2. ~Wrong(alg)'
    BY <1>1, <2>1, Zenon DEF Sure
  <2>3. QED
    BY <2>2, MovesMean DEF QualInv
<1>2. Candid' => Candid
  BY MovesMean DEF QualInv
<1>3. QED
  BY <1>1, <1>2, Zenon DEF Sure

\* Steps that leave the calls alone.
LEMMA NativeKept ==
    ASSUME IInv, QualInv, NativeInv, Moves, UNCHANGED callVars,
           \A i \in 1..Len(held) : i \in 1..Len(held') /\ held'[i] = held[i],
           slot \notin Algs => status' = status /\ slot' \notin Algs,
           slot \in Algs => \A alg \in Algs : status'[alg] # "unchecked"
    PROVE  NativeInv'
<1>1. Sure' => Sure
  BY SureKept
<1>2. /\ phase' = phase /\ request' = request /\ pre' = pre /\ work' = work
      /\ answer' = answer /\ verdict' = verdict
  BY DEF callVars
<1>3. ASSUME NEW c \in Calls
      PROVE  AskInv(phase[c], request[c], pre[c], work[c], held', handles')
  <2>1. AskInv(phase[c], request[c], pre[c], work[c], held, handles)
    BY DEF NativeInv
  <2>2. ASSUME HeldKey(work[c].key, held, handles) PROVE HeldKey(work[c].key, held', handles')
    <3>1. PICK i \in 1..Len(held) : held[i] = work[c].key.handle /\ handles[held[i]].value = work[c].key.value
      BY <2>2 DEF HeldKey
    <3>2. i \in 1..Len(held') /\ held'[i] = held[i]
      OBVIOUS
    <3>3. handles'[held[i]] = handles[held[i]]
      <4>1. held[i] \in 1..Len(handles)
        BY ElementOfSeq DEF IInv, BindTypeOK
      <4>2. QED
        BY <4>1 DEF Moves, Grows
    <3>4. QED
      BY <3>1, <3>2, <3>3, Zenon DEF HeldKey
  <2>3. QED
    BY <2>1, <2>2, Zenon DEF AskInv
<1>4. ASSUME NEW c \in Calls
      PROVE  /\ ReadInv(phase[c], request[c], pre[c])
             /\ AnswerInv(Sure', phase[c], request[c], work[c], answer[c])
             /\ DoneInv(Sure', phase[c], request[c], pre[c], answer[c], verdict[c])
  <2>1. /\ ReadInv(phase[c], request[c], pre[c])
        /\ AnswerInv(Sure, phase[c], request[c], work[c], answer[c])
        /\ DoneInv(Sure, phase[c], request[c], pre[c], answer[c], verdict[c])
    BY DEF NativeInv
  <2>2. AnswerInv(Sure', phase[c], request[c], work[c], answer[c])
    BY <1>1, <2>1, Zenon DEF AnswerInv
  <2>3. DoneInv(Sure', phase[c], request[c], pre[c], answer[c], verdict[c])
    BY <1>1, <2>1, Zenon DEF DoneInv
  <2>4. QED
    BY <2>1, <2>2, <2>3
<1>5. slot' \in Algs => \A alg \in Algs : status'[alg] # "unchecked"
  OBVIOUS
<1>6. QED
  BY <1>2, <1>3, <1>4, <1>5, Zenon DEF NativeInv

\* A step of one call.
LEMMA NativeMoves ==
    ASSUME IInv, QualInv, NativeInv, Moves, UNCHANGED suiteVars, UNCHANGED bindVars, handles' = handles,
           NEW c \in Calls, NEW p, NEW q, NEW s, NEW w, NEW a, NEW v, Moved(c, p, q, s, w, a, v),
           ReadInv(p, q, s), AskInv(p, q, s, w, held, handles),
           AnswerInv(Sure', p, q, w, a), DoneInv(Sure', p, q, s, a, v)
    PROVE  NativeInv'
<1>0. slot' = slot /\ status' = status /\ held' = held
  BY DEF suiteVars, bindVars
<1>1. Sure' => Sure
  BY <1>0, SureKept
<1>2. \A d \in Calls : d # c => /\ phase'[d] = phase[d] /\ request'[d] = request[d] /\ pre'[d] = pre[d]
                                /\ work'[d] = work[d] /\ answer'[d] = answer[d]
                                /\ verdict'[d] = verdict[d]
  BY DEF Moved, IInv, CallInv, CallTypeOK, RecordsOK
<1>3. /\ phase'[c] = p /\ request'[c] = q /\ pre'[c] = s /\ work'[c] = w /\ answer'[c] = a
      /\ verdict'[c] = v
  BY DEF Moved, IInv, CallInv, CallTypeOK, RecordsOK
<1>4. ASSUME NEW d \in Calls
      PROVE  /\ ReadInv(phase'[d], request'[d], pre'[d])
             /\ AskInv(phase'[d], request'[d], pre'[d], work'[d], held', handles')
             /\ AnswerInv(Sure', phase'[d], request'[d], work'[d], answer'[d])
             /\ DoneInv(Sure', phase'[d], request'[d], pre'[d], answer'[d], verdict'[d])
  <2>1. CASE d = c
    BY <1>0, <1>3, <2>1, Zenon
  <2>2. CASE d # c
    <3>1. /\ ReadInv(phase[d], request[d], pre[d])
          /\ AskInv(phase[d], request[d], pre[d], work[d], held, handles)
          /\ AnswerInv(Sure, phase[d], request[d], work[d], answer[d])
          /\ DoneInv(Sure, phase[d], request[d], pre[d], answer[d], verdict[d])
      BY DEF NativeInv
    <3>2. AnswerInv(Sure', phase[d], request[d], work[d], answer[d])
      BY <1>1, <3>1, Zenon DEF AnswerInv
    <3>3. DoneInv(Sure', phase[d], request[d], pre[d], answer[d], verdict[d])
      BY <1>1, <3>1, Zenon DEF DoneInv
    <3>4. QED
      BY <1>0, <1>2, <2>2, <3>1, <3>2, <3>3, Zenon
  <2>3. QED
    BY <2>1, <2>2
<1>5. slot' \in Algs => \A alg \in Algs : status'[alg] # "unchecked"
  BY <1>0, Zenon DEF NativeInv
<1>6. QED
  BY <1>4, <1>5, Zenon DEF NativeInv

\* The first half of a call ends with the native verdict or leaves its work.
LEMMA NativeProceeds ==
    ASSUME IInv, HeldInv, QualInv, NativeInv, Moves, UNCHANGED suiteVars, UNCHANGED bindVars,
           handles' = handles, NEW c \in Calls, NEW q, NEW seen, Proceed(c, q, seen),
           ReadInv("asked", q, seen),
           q.api # "builtin" => \A alg \in Algs : q.keys[alg] \in KeysFor(q.api, alg)
    PROVE  NativeInv'
<1> DEFINE w == Admit(q, seen)
<1>1. /\ request' = [request EXCEPT ![c] = q] /\ pre' = [pre EXCEPT ![c] = seen]
      /\ work' = [work EXCEPT ![c] = w] /\ answer' = answer
      /\ IF ~w.work THEN Finish(c, w.result)
         ELSE IF q.api = "builtin" THEN Finish(c, Classify(NativeOutcome(q.artifact, w.key), w.alg))
         ELSE phase' = [phase EXCEPT ![c] = "asked"] /\ verdict' = verdict
  BY Zenon DEF Proceed
<1>2. NativeVerdict(q, seen) = IF w.work THEN Classify(NativeOutcome(q.artifact, w.key), w.alg) ELSE w.result
  BY Zenon DEF NativeVerdict
<1>3. w.work => Fitting(q, w)
  BY AdmitShape, Zenon DEF ReadInv
<1>c. CallInv
  BY DEF IInv
<1> HIDE DEF w
<1>4. ASSUME Finish(c, NativeVerdict(q, seen)) PROVE NativeInv'
  <2>1. Moved(c, "done", q, seen, w, answer[c], NativeVerdict(q, seen))
    BY <1>1, <1>4, <1>c, Stays, Zenon DEF Moved, Finish
  <2>2. ReadInv("done", q, seen) /\ AskInv("done", q, seen, w, held, handles)
    BY DEF ReadInv, AskInv
  <2>3. AnswerInv(Sure', "done", q, w, answer[c])
    BY DEF AnswerInv
  <2>4. DoneInv(Sure', "done", q, seen, answer[c], NativeVerdict(q, seen))
    BY Zenon DEF DoneInv
  <2>5. QED
    BY <2>1, <2>2, <2>3, <2>4, NativeMoves
<1>5. CASE w.work /\ q.api # "builtin"
  <2>1. Moved(c, "asked", q, seen, w, answer[c], verdict[c])
    BY <1>1, <1>5, <1>c, Stays, Zenon DEF Moved
  <2>2. AskInv("asked", q, seen, w, held, handles)
    <3>1. w.alg \in Algs /\ w.key = q.keys[w.alg] /\ w.key # NoKey
      BY <1>3, <1>5 DEF Fitting, AlgorithmOf, Algs
    <3>2. w.key \in BoundKeys
      BY <1>5, <3>1, Zenon DEF KeysFor
    <3>3. PICK i \in 1..Len(held) :
            w.key = [alg |-> handles[held[i]].alg, value |-> handles[held[i]].value, handle |-> held[i]]
      BY <3>2, Zenon DEF BoundKeys
    <3>4. w.key.handle = held[i] /\ w.key.value = handles[held[i]].value
      BY <3>3
    <3>5. HeldKey(w.key, held, handles)
      BY <3>4, Zenon DEF HeldKey
    <3>6. QED
      BY <1>5, <3>5, Zenon DEF AskInv, w
  <2>3. AnswerInv(Sure', "asked", q, w, answer[c])
    BY DEF AnswerInv
  <2>4. DoneInv(Sure', "asked", q, seen, answer[c], verdict[c])
    BY DEF DoneInv
  <2>5. QED
    BY <2>1, <2>2, <2>3, <2>4, NativeMoves
<1>6. QED
  BY <1>1, <1>2, <1>4, <1>5, Zenon

\* What the keys chosen later do not change.
LEMMA WithKept ==
    ASSUME NEW q, NEW ed, NEW p2
    PROVE  LET z == WithKeys(q, ed, p2)
           IN  /\ z.api = q.api /\ z.artifact = q.artifact /\ z.oversized = q.oversized
               /\ z.staged = q.staged /\ z.allowUnsigned = q.allowUnsigned
               /\ z.params = q.params /\ z.reader = q.reader
BY DEF WithKeys

LEMMA UniverseFits ==
    ASSUME NEW c \in Calls, NEW q \in Universe[c]
    PROVE  IsArtifact(q.artifact) /\ Fits(q.artifact)
BY ProviderAssumption, Zenon DEF Fits

LEMMA NativeCallStep ==
    ASSUME IInv, HeldInv, QualInv, NativeInv, NEW c \in Calls, CallStep(c)
    PROVE  NativeInv'
<1>0. Moves /\ UNCHANGED suiteVars /\ UNCHANGED bindVars /\ handles' = handles
  BY CallMoves
<1>i. CallInv
  BY DEF IInv
<1>n. /\ ReadInv(phase[c], request[c], pre[c])
      /\ AskInv(phase[c], request[c], pre[c], work[c], held, handles)
      /\ AnswerInv(Sure, phase[c], request[c], work[c], answer[c])
  BY Zenon DEF NativeInv
\* A call that ends because its artifact is too large.
<1>z. ASSUME NEW q, q.oversized, Moved(c, "done", q, pre[c], work[c], answer[c], Error("InputArtifactTooLarge"))
      PROVE  NativeInv'
  <2>1. /\ ReadInv("done", q, pre[c]) /\ AskInv("done", q, pre[c], work[c], held, handles)
        /\ AnswerInv(Sure', "done", q, work[c], answer[c])
        /\ DoneInv(Sure', "done", q, pre[c], answer[c], Error("InputArtifactTooLarge"))
    BY <1>z DEF ReadInv, AskInv, AnswerInv, DoneInv
  <2>2. QED
    BY <1>0, <1>z, <2>1, NativeMoves, Zenon
<1>1. CASE VerifyWhole(c)
  <2>1. PICK q \in Universe[c], ed \in KeysFor("builtin", "ed25519") \cup BoundKeys,
             p2 \in KeysFor("builtin", "p256") \cup BoundKeys :
          /\ ~q.staged
          /\ ed \in KeysFor(q.api, "ed25519") /\ p2 \in KeysFor(q.api, "p256")
          /\ IF q.oversized
               THEN /\ Finish(c, Error("InputArtifactTooLarge"))
                    /\ request' = [request EXCEPT ![c] = WithKeys(q, ed, p2)]
                    /\ UNCHANGED <<pre, work, answer>>
               ELSE Proceed(c, WithKeys(q, ed, p2), PreVerify(q.artifact, FALSE))
    BY <1>1, Zenon DEF VerifyWhole
  <2>2. CASE q.oversized
    <3>1. Moved(c, "done", WithKeys(q, ed, p2), pre[c], work[c], answer[c], Error("InputArtifactTooLarge"))
      BY <1>i, <2>1, <2>2, Stays, Zenon DEF Moved, Finish
    <3>2. WithKeys(q, ed, p2).oversized
      BY <2>2, WithKept, Zenon
    <3>3. QED
      BY <1>z, <3>1, <3>2
  <2>3. CASE ~q.oversized
    <3>1. Proceed(c, WithKeys(q, ed, p2), PreVerify(q.artifact, FALSE))
      BY <2>1, <2>3, Zenon
    <3>2. ReadInv("asked", WithKeys(q, ed, p2), PreVerify(q.artifact, FALSE))
      <4> DEFINE z == WithKeys(q, ed, p2)
      <4>1. z.artifact = q.artifact /\ z.oversized = q.oversized /\ z.staged = q.staged
        BY WithKept
      <4> HIDE DEF z
      <4>2. IsArtifact(z.artifact) /\ Fits(z.artifact)
        BY <4>1, UniverseFits
      <4>3. PreVerify(z.artifact, IF z.staged THEN z.allowUnsigned ELSE FALSE) = PreVerify(q.artifact, FALSE)
        BY <2>1, <4>1, Zenon
      <4>4. ReadInv("asked", z, PreVerify(q.artifact, FALSE))
        BY <2>3, <4>1, <4>2, <4>3 DEF ReadInv
      <4>5. QED
        BY <4>4 DEF z
    <3>3. QED
      BY <1>0, <2>1, <3>1, <3>2, KeysChosen, NativeProceeds, Zenon
  <2>4. QED
    BY <2>2, <2>3
<1>2. CASE ReadFirst(c)
  <2>1. PICK q \in Universe[c] :
          /\ q.staged
          /\ request' = [request EXCEPT ![c] = WithKeys(q, NoKey, NoKey)]
          /\ IF q.oversized
               THEN Finish(c, Error("InputArtifactTooLarge")) /\ UNCHANGED pre
               ELSE /\ phase' = [phase EXCEPT ![c] = "read"]
                    /\ pre' = [pre EXCEPT ![c] = PreVerify(q.artifact, q.allowUnsigned)]
                    /\ UNCHANGED verdict
    BY <1>2, Zenon DEF ReadFirst
  <2>2. work' = work /\ answer' = answer
    BY <1>2, Zenon DEF ReadFirst
  <2> DEFINE z == WithKeys(q, NoKey, NoKey)
             seen == PreVerify(q.artifact, q.allowUnsigned)
  <2>3. z.artifact = q.artifact /\ z.oversized = q.oversized /\ z.staged = q.staged
        /\ z.allowUnsigned = q.allowUnsigned
    BY WithKept
  <2>4. IsArtifact(z.artifact) /\ Fits(z.artifact)
    BY <2>3, UniverseFits
  <2> HIDE DEF z
  <2>5. CASE q.oversized
    <3>1. Moved(c, "done", z, pre[c], work[c], answer[c], Error("InputArtifactTooLarge"))
      BY <1>i, <2>1, <2>2, <2>5, Stays, Zenon DEF Moved, Finish, z
    <3>2. QED
      BY <1>z, <2>3, <2>5, <3>1
  <2>6. CASE ~q.oversized
    <3>1. Moved(c, "read", z, seen, work[c], answer[c], verdict[c])
      BY <1>i, <2>1, <2>2, <2>6, Stays, Zenon DEF Moved, z
    <3>2. PreVerify(z.artifact, IF z.staged THEN z.allowUnsigned ELSE FALSE) = seen
      BY <2>1, <2>3, Zenon
    <3>3. ReadInv("read", z, seen)
      BY <2>1, <2>3, <2>4, <2>6, <3>2 DEF ReadInv
    <3>4. /\ AskInv("read", z, seen, work[c], held, handles)
          /\ AnswerInv(Sure', "read", z, work[c], answer[c])
          /\ DoneInv(Sure', "read", z, seen, answer[c], verdict[c])
      BY DEF AskInv, AnswerInv, DoneInv
    <3>5. QED
      BY <1>0, <3>1, <3>3, <3>4, NativeMoves, Zenon
  <2>7. QED
    BY <2>5, <2>6
<1>3. CASE VerifyRead(c)
  <2>1. phase[c] = "read"
    BY <1>3, Zenon DEF VerifyRead
  <2>2. PICK ed \in KeysFor(request[c].api, "ed25519"), p2 \in KeysFor(request[c].api, "p256") :
          Proceed(c, WithKeys(request[c], ed, p2), pre[c])
    BY <1>3, Zenon DEF VerifyRead
  <2>3. ReadInv("asked", WithKeys(request[c], ed, p2), pre[c])
    <3> DEFINE z == WithKeys(request[c], ed, p2)
    <3>1. z.artifact = request[c].artifact /\ z.oversized = request[c].oversized
          /\ z.staged = request[c].staged /\ z.allowUnsigned = request[c].allowUnsigned
      BY WithKept
    <3> HIDE DEF z
    <3>2. ReadInv("asked", z, pre[c])
      BY <1>n, <2>1, <3>1 DEF ReadInv
    <3>3. QED
      BY <3>2 DEF z
  <2>4. QED
    BY <1>0, <2>2, <2>3, KeysChosen, NativeProceeds, Zenon
<1>4. CASE ProviderAnswers(c)
  <2> DEFINE a == request[c].artifact
             k == work[c].key
  <2>1. PICK result \in Answers(k.handle, a.signature, a.payload) :
          Use(k.handle, result) /\ answer' = [answer EXCEPT ![c] = Reported(result)]
    BY <1>4, Zenon DEF ProviderAnswers
  <2>2. /\ phase[c] = "asked" /\ phase' = [phase EXCEPT ![c] = "answered"]
        /\ request' = request /\ pre' = pre /\ work' = work /\ verdict' = verdict
    BY <1>4, Zenon DEF ProviderAnswers
  <2>3. Moved(c, "answered", request[c], pre[c], work[c], Reported(result), verdict[c])
    BY <1>i, <2>1, <2>2, Stays, Zenon DEF Moved
  <2>4. /\ ReadInv("answered", request[c], pre[c])
        /\ AskInv("answered", request[c], pre[c], work[c], held, handles)
        /\ DoneInv(Sure', "answered", request[c], pre[c], Reported(result), verdict[c])
    BY <1>n, <2>2 DEF ReadInv, AskInv, DoneInv
  <2>5. ASSUME Sure' PROVE Reported(result) = NativeOutcome(a, k) \/ Reported(result) = "ProviderFailure"
    <3>1. Sure
      BY <1>0, <2>5, SureKept DEF suiteVars
    <3>2. Accepts(k.handle, a.signature, a.payload) <=> Genuine(a, k)
      BY <2>2, <3>1, RightAnswers, Zenon
    <3>3. CASE result = "failed"
      <4>1. outages' = outages + 1 /\ outages \in Nat
        BY <1>0, <2>1, <3>3 DEF Use, Moves
      <4>2. reports' = reports /\ Candid'
        BY <1>0, <2>5 DEF Sure, Moves, providerVars
      <4>3. reports
        BY <4>1, <4>2 DEF Candid
      <4>4. QED
        BY <3>3, <4>3 DEF Reported
    <3>4. CASE result # "failed"
      <4>1. result = IF Accepts(k.handle, a.signature, a.payload) THEN "Verified" ELSE "SignatureMismatch"
        BY <2>1, <3>4, Zenon DEF Answers
      <4>2. result = NativeOutcome(a, k)
        BY <3>2, <4>1, Zenon DEF NativeOutcome
      <4>3. QED
        BY <3>4, <4>2 DEF Reported
    <3>5. QED
      BY <3>3, <3>4
  <2>6. AnswerInv(Sure', "answered", request[c], work[c], Reported(result))
    BY <2>5, Zenon DEF AnswerInv
  <2>7. QED
    BY <1>0, <2>3, <2>4, <2>6, NativeMoves, Zenon
<1>5. CASE Resume(c)
  <2> DEFINE v == Classify(answer[c], work[c].alg)
  <2>1. /\ phase[c] = "answered" /\ Finish(c, v)
        /\ request' = request /\ pre' = pre /\ work' = work /\ answer' = answer
    BY <1>5, Zenon DEF Resume
  <2>2. Moved(c, "done", request[c], pre[c], work[c], answer[c], v)
    BY <1>i, <2>1, Stays, Zenon DEF Moved, Finish
  <2>3. /\ ReadInv("done", request[c], pre[c])
        /\ AskInv("done", request[c], pre[c], work[c], held, handles)
        /\ AnswerInv(Sure', "done", request[c], work[c], answer[c])
    BY DEF ReadInv, AskInv, AnswerInv
  <2>4. ASSUME request[c].api # "builtin" => Sure'
        PROVE  \/ v = NativeVerdict(request[c], pre[c])
               \/ answer[c] = "ProviderFailure" /\ v = KeyResolutionFailure
    <3>1. request[c].api # "builtin" /\ work[c] = Admit(request[c], pre[c]) /\ work[c].work
      BY <1>n, <2>1, Zenon DEF AskInv
    <3>2. Sure
      BY <1>0, <2>4, <3>1, SureKept DEF suiteVars
    <3>3. answer[c] = NativeOutcome(request[c].artifact, work[c].key) \/ answer[c] = "ProviderFailure"
      BY <1>n, <2>1, <3>2, Zenon DEF AnswerInv
    <3>4. NativeVerdict(request[c], pre[c])
            = Classify(NativeOutcome(request[c].artifact, work[c].key), work[c].alg)
      BY <3>1, Zenon DEF NativeVerdict
    <3>5. Classify("ProviderFailure", work[c].alg) = KeyResolutionFailure
      BY DEF Classify
    <3>6. QED
      BY <3>3, <3>4, <3>5, Zenon
  <2>5. DoneInv(Sure', "done", request[c], pre[c], answer[c], v)
    BY <2>4, Zenon DEF DoneInv
  <2>6. QED
    BY <1>0, <2>2, <2>3, <2>5, NativeMoves, Zenon
<1>6. CASE DropCall(c)
  <2>1. /\ phase' = [phase EXCEPT ![c] = "dropped"] /\ request' = request /\ pre' = pre
        /\ work' = work /\ answer' = answer /\ verdict' = verdict
    BY <1>6, Zenon DEF DropCall
  <2>2. Moved(c, "dropped", request[c], pre[c], work[c], answer[c], verdict[c])
    BY <1>i, <2>1, Stays, Zenon DEF Moved
  <2>3. /\ ReadInv("dropped", request[c], pre[c])
        /\ AskInv("dropped", request[c], pre[c], work[c], held, handles)
        /\ AnswerInv(Sure', "dropped", request[c], work[c], answer[c])
        /\ DoneInv(Sure', "dropped", request[c], pre[c], answer[c], verdict[c])
    BY DEF ReadInv, AskInv, AnswerInv, DoneInv
  <2>4. QED
    BY <1>0, <2>2, <2>3, NativeMoves, Zenon
<1>7. QED
  BY <1>1, <1>2, <1>3, <1>4, <1>5, <1>6 DEF CallStep

LEMMA NativeInit == Init => NativeInv
<1> SUFFICES ASSUME Init PROVE NativeInv
  OBVIOUS
<1>1. slot \in Algs => \A alg \in Algs : status[alg] # "unchecked"
  BY DEF Init, Algs
<1>2. \A c \in Calls : phase[c] = "new"
  BY DEF Init
<1>3. QED
  BY <1>1, <1>2 DEF NativeInv, ReadInv, AskInv, AnswerInv, DoneInv

\* A verdict on a slot is never that it was left unchecked.
LEMMA SuitesCheck ==
    ASSUME IInv, NativeInv, slot \in Algs, SuiteBinds \/ SuiteVerifies \/ DropQualification
    PROVE  \A alg \in Algs : status'[alg] # "unchecked"
<1>1. \A alg \in Algs : status[alg] # "unchecked"
  BY DEF NativeInv
<1>2. CASE status' = status
  BY <1>1, <1>2
<1>3. ASSUME NEW result, result # "unchecked", Conclude(result)
      PROVE  \A alg \in Algs : status'[alg] # "unchecked"
  <2>1. status' = [status EXCEPT ![slot] = result]
    BY <1>3, Zenon DEF Conclude
  <2>2. QED
    BY <1>1, <1>3, <2>1 DEF IInv, SuiteTypeOK
<1>4. CASE SuiteBinds
  <2>1. status' = status \/ Conclude("KeyBindingFailed")
    BY <1>4, Zenon DEF SuiteBinds
  <2>2. QED
    BY <1>2, <1>3, <2>1
<1>5. CASE SuiteVerifies
  <2>1. PICK result \in Answers(Asked, Suite(slot)[step].signature, Suite(slot)[step].message) :
          Continue \/ Conclude(Rejection(Reported(result)))
    BY <1>5, Zenon DEF SuiteVerifies, Asked
  <2>2. Reported(result) \in Outcomes
    BY <2>1 DEF Answers, Reported, Outcomes
  <2>3. Rejection(Reported(result)) # "unchecked"
    BY <2>2, RejectionShape DEF Rejections
  <2>4. Continue => status' = status \/ Conclude("Qualified")
    BY Zenon DEF Continue
  <2>5. QED
    BY <1>2, <1>3, <2>1, <2>3, <2>4
<1>6. CASE DropQualification
  BY <1>2, <1>6, Zenon DEF DropQualification
<1>7. QED
  BY <1>4, <1>5, <1>6

\* What every step does to the provider, the verdicts and the keys held.
LEMMA StepMoves ==
    ASSUME IInv, HeldInv, QualInv, NativeInv, [Next]_vars
    PROVE  /\ Moves
           /\ slot \notin Algs => status' = status /\ slot' \notin Algs
           /\ slot \in Algs => \A alg \in Algs : status'[alg] # "unchecked"
           /\ \A i \in 1..Len(held) : i \in 1..Len(held') /\ held'[i] = held[i]
           /\ UNCHANGED callVars \/ \E c \in Calls : CallStep(c)
<1> DEFINE Goal == /\ Moves
                   /\ slot \notin Algs => status' = status /\ slot' \notin Algs
                   /\ slot \in Algs => \A alg \in Algs : status'[alg] # "unchecked"
                   /\ \A i \in 1..Len(held) : i \in 1..Len(held') /\ held'[i] = held[i]
                   /\ UNCHANGED callVars \/ \E c \in Calls : CallStep(c)
<1> SUFFICES Goal
  OBVIOUS
<1>g. /\ Grows(handles, handles) /\ outages \in Nat /\ Len(held) \in Nat
      /\ held \in Seq(1..Len(handles)) /\ Len(handles) \in Nat
  BY SameGrows, Constants DEF IInv, ServiceTypeOK, BindTypeOK
<1>k. held' = held => \A i \in 1..Len(held) : i \in 1..Len(held') /\ held'[i] = held[i]
  OBVIOUS
<1>s. slot \in Algs => \A alg \in Algs : status[alg] # "unchecked"
  BY DEF NativeInv
<1>1. CASE SuiteBinds \/ SuiteVerifies \/ DropQualification
  <2>1. slot \in Algs /\ UNCHANGED bindVars /\ UNCHANGED callVars
    BY <1>1, Zenon DEF SuiteBinds, SuiteVerifies, DropQualification
  <2>2. Moves
    <3>1. CASE SuiteBinds
      <4>1. step \in 1..Len(Suite(slot)) /\ Suite(slot)[step].op = "bind"
        BY <2>1, <3>1, Zenon DEF SuiteBinds, IInv, SuiteTypeOK
      <4>2. Suite(slot)[step].value \in Values
        BY <2>1, <4>1, StepShape
      <4>3. /\ MakeHandle(slot, Suite(slot)[step].value) \/ RefuseHandle(slot)
            /\ lost' = lost /\ UNCHANGED providerVars
        BY <3>1, Zenon DEF SuiteBinds
      <4>4. QED
        BY <2>1, <4>2, <4>3, MakeMoves
    <3>2. CASE SuiteVerifies
      <4>1. /\ Expecting /\ handles' = handles /\ UNCHANGED providerVars
            /\ \E result \in Answers(Asked, Suite(slot)[step].signature, Suite(slot)[step].message) :
                 Use(Asked, result)
        BY <3>2, Zenon DEF SuiteVerifies, Expecting, QualInv, Asked
      <4>2. Asked \in 1..Len(handles)
        BY <4>1, AskedHandle, Zenon
      <4>3. QED
        BY <4>1, <4>2, UseMoves, Zenon
    <3>3. CASE DropQualification
      BY <1>g, <3>3 DEF DropQualification, Moves
    <3>4. QED
      BY <1>1, <3>1, <3>2, <3>3
  <2>3. \A alg \in Algs : status'[alg] # "unchecked"
    BY <1>1, <2>1, SuitesCheck
  <2>4. held' = held
    BY <2>1 DEF bindVars
  <2>5. QED
    BY <1>k, <2>1, <2>2, <2>3, <2>4, Zenon
<1>2. CASE AskForHandle
  <2>1. /\ UNCHANGED providerVars /\ outages' = outages /\ handles' = handles /\ lost' = lost
        /\ UNCHANGED suiteVars /\ held' = held /\ UNCHANGED callVars /\ slot = "ready"
    BY <1>2, Zenon DEF AskForHandle
  <2>2. Moves
    BY <1>g, <2>1 DEF Moves
  <2>3. slot \notin Algs /\ slot' = slot /\ status' = status
    BY <2>1 DEF Algs, suiteVars
  <2>4. QED
    BY <1>k, <2>1, <2>2, <2>3, Zenon
<1>3. ASSUME NEW i \in 1..Len(binding), HandleArrives(i) \/ DropBind(i) PROVE Goal
  <2>1. binding[i].alg \in Algs /\ binding[i].value \in Values
    BY ElementOfSeq, Constants DEF IInv, BindTypeOK
  <2>2. /\ UNCHANGED suiteVars /\ UNCHANGED providerVars /\ lost' = lost /\ UNCHANGED callVars
        /\ \/ MakeHandle(binding[i].alg, binding[i].value) \/ RefuseHandle(binding[i].alg)
           \/ UNCHANGED <<outages, handles>>
        /\ held' = held \/ held' = Append(held, Len(handles) + 1)
    BY <1>3, Zenon DEF HandleArrives, DropBind
  <2>3. Moves
    BY <2>1, <2>2, MakeMoves
  <2>4. slot \notin Algs /\ slot' = slot /\ status' = status
    <3>1. binding # <<>>
      OBVIOUS
    <3>2. QED
      BY <2>2, <3>1 DEF HeldInv, Algs, suiteVars
  <2>5. \A j \in 1..Len(held) : j \in 1..Len(held') /\ held'[j] = held[j]
    <3>1. CASE held' = held
      BY <1>k, <3>1
    <3>2. CASE held' = Append(held, Len(handles) + 1)
      <4>1. held \in Seq(Nat) /\ Len(handles) + 1 \in Nat
        <5>1. 1..Len(handles) \subseteq Nat
          BY <1>g
        <5>2. QED
          BY <1>g, <5>1, SeqGrows
      <4>2. Len(held') = Len(held) + 1 /\ \A j \in 1..Len(held) : held'[j] = held[j]
        BY <3>2, <4>1, AppendProperties
      <4>3. QED
        BY <1>g, <4>2
    <3>3. QED
      BY <2>2, <3>1, <3>2
  <2>6. QED
    BY <2>2, <2>3, <2>4, <2>5, Zenon
<1>4. ASSUME NEW c \in Calls, CallStep(c) PROVE Goal
  <2>1. Moves /\ UNCHANGED suiteVars /\ UNCHANGED bindVars
    BY <1>4, CallMoves
  <2>2. held' = held /\ slot' = slot /\ status' = status
    BY <2>1 DEF suiteVars, bindVars
  <2>3. QED
    BY <1>4, <1>k, <1>s, <2>1, <2>2, Zenon
<1>5. CASE UNCHANGED vars
  <2>1. Moves /\ UNCHANGED callVars /\ held' = held /\ slot' = slot /\ status' = status
    BY <1>g, <1>5 DEF vars, Moves, providerVars, callVars
  <2>2. QED
    BY <1>k, <1>s, <2>1, Zenon
<1> HIDE DEF Goal
<1>6. QED
  BY NextCases, <1>1, <1>2, <1>3, <1>4, <1>5, Zenon

LEMMA NativeStep == IInv /\ HeldInv /\ QualInv /\ NativeInv /\ [Next]_vars => NativeInv'
<1> SUFFICES ASSUME IInv, HeldInv, QualInv, NativeInv, [Next]_vars PROVE NativeInv'
  OBVIOUS
<1>1. CASE \E c \in Calls : CallStep(c)
  BY <1>1, NativeCallStep, Zenon
<1>2. CASE UNCHANGED callVars
  BY <1>2, StepMoves, NativeKept, Zenon
<1>3. QED
  BY <1>1, <1>2, StepMoves, Zenon

LEMMA NativeHolds == Spec => [](IInv /\ HeldInv /\ QualInv /\ NativeInv)
BY TypeInit, HeldInit, QualInit, NativeInit, TypeStep, HeldStep, QualStep, NativeStep, PTL DEF Spec

\* A call through keys of a qualified provider ends with the verdict of the
\* built-in verifier for the same artifact, key values and options, unless the
\* provider reported that it failed: for every provider that passed both
\* suites, whichever handles were made, used or abandoned while the call
\* waited (verify_with_provider, resume, classify_outcome).
THEOREM QualifiedIsNative == Spec => []QualifiedActsNative
<1>1. IInv /\ NativeInv => QualifiedActsNative
  <2> SUFFICES ASSUME IInv, NativeInv, NEW c \in Calls, phase[c] = "done", ~request[c].oversized, Candid,
                      request[c].api # "builtin" => \A alg \in Algs : status[alg] # "unchecked"
               PROVE  \/ verdict[c] = NativeVerdict(request[c], pre[c])
                      \/ answer[c] = "ProviderFailure" /\ verdict[c] = KeyResolutionFailure
    BY Zenon DEF QualifiedActsNative
  <2>1. request[c].api # "builtin" => Sure
    BY DEF Sure
  <2>2. DoneInv(Sure, phase[c], request[c], pre[c], answer[c], verdict[c])
    BY DEF NativeInv
  <2>3. QED
    BY <2>1, <2>2, Zenon DEF DoneInv
<1>2. QED
  BY <1>1, NativeHolds, PTL

-----------------------------------------------------------------------------
(* Every verification call keeps the contract.                             *)

\* A provider that tells its failures apart from mismatches and that was
\* qualified, or is right.
Trusted == reports /\ \A alg \in Algs : status[alg] = "unchecked" => ~Wrong(alg)

LEMMA StageMeans ==
    /\ StageOf("new") = "new" /\ StageOf("read") = "new"
    /\ StageOf("asked") = "asked" /\ StageOf("answered") = "asked"
    /\ StageOf("done") = "decided" /\ StageOf("dropped") = "abandoned"
<1>1. StageOf("new") = "new" /\ StageOf("read") = "new"
  BY DEF StageOf
<1>2. StageOf("asked") = "asked" /\ StageOf("answered") = "asked"
  BY DEF StageOf
<1>3. StageOf("done") = "decided" /\ StageOf("dropped") = "abandoned"
  BY DEF StageOf
<1>4. QED
  BY <1>1, <1>2, <1>3

\* Pre-verification accepts the readable artifacts, and finds one unsigned
\* only where that is allowed.
LEMMA ReadableMeans ==
    ASSUME NEW q, IsArtifact(q.artifact), NEW unsigned
    PROVE  /\ PreVerify(q.artifact, unsigned) = "Ok" <=> CaseOf(q).readable
           /\ PreVerify(q.artifact, unsigned) = "Unsigned" => unsigned
<1> DEFINE a == q.artifact
           readable == /\ a.decomposed = "ok" /\ a.parses /\ a.alg \in 1..2
                       /\ a.keyid # "invalid"
                       /\ a.form = "yaml" => a.envelope /\ a.base64
<1>1. CaseOf(q).readable = readable
  BY DEF CaseOf
<1>2. a.alg \in {1, 2} <=> a.alg \in 1..2
  OBVIOUS
<1>3. readable <=> StructureReadable(a) /\ MetadataReadable(a)
  BY <1>2 DEF StructureReadable, MetadataReadable, KnownAlgorithm
<1>4. StructureReadable(a) => a.decomposed # "unsigned"
  BY DEF StructureReadable
<1>5. PreVerify(a, unsigned) = "Ok" <=> StructureReadable(a) /\ MetadataReadable(a)
  <2>1. CASE a.form = "yaml" /\ a.decomposed = "unsigned" /\ unsigned
    <3>1. PreVerify(a, unsigned) = "Unsigned"
      BY <2>1, Zenon DEF PreVerify
    <3>2. QED
      BY <1>4, <2>1, <3>1
  <2>2. CASE ~(a.form = "yaml" /\ a.decomposed = "unsigned" /\ unsigned)
    <3>1. PreVerify(a, unsigned) = IF ~StructureReadable(a) THEN "StructuralFailure"
                                   ELSE IF ~MetadataReadable(a) THEN "MetadataParseFailure" ELSE "Ok"
      BY <2>2, Zenon DEF PreVerify
    <3>2. QED
      BY <3>1
  <2>3. QED
    BY <2>1, <2>2
<1>6. PreVerify(a, unsigned) = "Unsigned" => unsigned
  BY DEF PreVerify
<1>7. QED
  BY <1>1, <1>3, <1>5, <1>6, Zenon

\* What the contract says of each result.
LEMMA AdmitsEach ==
    ASSUME NEW t
    PROVE  /\ \A alg : Promised!Admits(t, StateOf("Verified", alg)) <=> Promised!Sound(t) /\ t.genuine
           /\ Promised!Admits(t, State("SignedButFailedVerification"))
                <=> Promised!Sound(t) /\ ~t.genuine
           /\ \A alg : Promised!Admits(t, StateOf("SignedButAlgorithmUnsupported", alg))
                <=> t.readable /\ t.sized /\ ~t.enabled
           /\ Promised!Admits(t, Malformed) <=> ~t.readable \/ ~t.sized \/ (t.enabled /\ ~t.proper)
           /\ Promised!Admits(t, KeyResolutionFailure)
                <=> t.readable /\ t.sized /\ t.enabled /\ ~t.keyed
           /\ Promised!Admits(t, Error("InvalidAlgorithmParameters")) <=> t.params
           /\ Promised!Admits(t, Error("InvalidPreVerifyResult"))
                <=> t.staged /\ ~(t.readable /\ t.expected)
           /\ Promised!Admits(t, Error("InputArtifactTooLarge")) <=> t.oversized
           /\ KeyResolutionFailure.name = "KeyResolutionFailure"
<1>1. /\ \A alg : StateOf("Verified", alg).name = "Verified"
      /\ State("SignedButFailedVerification").name = "SignedButFailedVerification"
      /\ \A alg : StateOf("SignedButAlgorithmUnsupported", alg).name = "SignedButAlgorithmUnsupported"
      /\ Malformed.name = "MalformedAttemptedSigned"
      /\ KeyResolutionFailure.name = "KeyResolutionFailure"
      /\ Error("InvalidAlgorithmParameters").name = "InvalidAlgorithmParameters"
      /\ Error("InvalidPreVerifyResult").name = "InvalidPreVerifyResult"
      /\ Error("InputArtifactTooLarge").name = "InputArtifactTooLarge"
  BY DEF StateOf, State, Error, Malformed, KeyResolutionFailure
<1>2. ASSUME NEW r, r.name = "Verified" PROVE Promised!Admits(t, r) <=> Promised!Sound(t) /\ t.genuine
  BY <1>2 DEF Promised!Admits
<1>3. ASSUME NEW r, r.name = "SignedButFailedVerification"
      PROVE  Promised!Admits(t, r) <=> Promised!Sound(t) /\ ~t.genuine
  BY <1>3 DEF Promised!Admits
<1>4. ASSUME NEW r, r.name = "SignedButAlgorithmUnsupported"
      PROVE  Promised!Admits(t, r) <=> t.readable /\ t.sized /\ ~t.enabled
  BY <1>4 DEF Promised!Admits
<1>5. ASSUME NEW r, r.name = "MalformedAttemptedSigned"
      PROVE  Promised!Admits(t, r) <=> ~t.readable \/ ~t.sized \/ (t.enabled /\ ~t.proper)
  BY <1>5 DEF Promised!Admits
<1>6. ASSUME NEW r, r.name = "KeyResolutionFailure"
      PROVE  Promised!Admits(t, r) <=> t.readable /\ t.sized /\ t.enabled /\ ~t.keyed
  BY <1>6 DEF Promised!Admits
<1>7. ASSUME NEW r, r.name = "InvalidAlgorithmParameters" PROVE Promised!Admits(t, r) <=> t.params
  BY <1>7 DEF Promised!Admits
<1>8. ASSUME NEW r, r.name = "InvalidPreVerifyResult"
      PROVE  Promised!Admits(t, r) <=> t.staged /\ ~(t.readable /\ t.expected)
  BY <1>8 DEF Promised!Admits
<1>9. ASSUME NEW r, r.name = "InputArtifactTooLarge" PROVE Promised!Admits(t, r) <=> t.oversized
  BY <1>9 DEF Promised!Admits
<1>10. QED
  BY <1>1, <1>2, <1>3, <1>4, <1>5, <1>6, <1>7, <1>8, <1>9, Zenon

\* The case of a request, part by part.
LEMMA CaseParts ==
    ASSUME NEW q
    PROVE  LET t == CaseOf(q)
               a == q.artifact
               alg == AlgorithmOf(a.alg)
               k == q.keys[alg]
           IN  /\ t.oversized = q.oversized /\ t.params = q.params /\ t.staged = q.staged
               /\ t.expected <=> q.reader \in {"any", a.form}
               /\ t.sized <=> a.shape \notin {"empty", "wrong_length"}
               /\ t.enabled <=> alg \in q.enabled
               /\ t.proper <=> a.shape = "proper"
               /\ t.keyed <=> k # NoKey /\ k.alg = alg /\ k.value \notin Inadmissible
               /\ t.genuine <=> k # NoKey /\ Genuine(a, k)
BY DEF CaseOf

\* What is decided before any cryptography is as the contract says, and only
\* a sound case is left for it.
LEMMA AdmitMeans ==
    ASSUME NEW q, IsArtifact(q.artifact)
    PROVE  LET w == Admit(q, PreVerify(q.artifact, IF q.staged THEN q.allowUnsigned ELSE FALSE))
               t == CaseOf(q)
           IN  /\ ~w.work => Promised!Admits(t, w.result)
               /\ w.work => /\ Promised!Sound(t) /\ ~t.params /\ (t.staged => t.expected)
                            /\ t.genuine <=> Genuine(q.artifact, w.key)
<1> DEFINE u == IF q.staged THEN q.allowUnsigned ELSE FALSE
           s == PreVerify(q.artifact, u)
           w == Admit(q, s)
           t == CaseOf(q)
           a == q.artifact
           alg == AlgorithmOf(a.alg)
           k == q.keys[alg]
<1>1. (s = "Ok" <=> t.readable) /\ (s = "Unsigned" => q.staged)
  BY ReadableMeans, Zenon
<1>2. /\ t.params = q.params /\ t.staged = q.staged
      /\ t.expected <=> q.reader \in {"any", a.form}
      /\ t.sized <=> a.shape \notin {"empty", "wrong_length"}
      /\ t.enabled <=> alg \in q.enabled
      /\ t.proper <=> a.shape = "proper"
      /\ t.keyed <=> k # NoKey /\ AdmissibleIn(alg, k)
      /\ t.genuine <=> k # NoKey /\ Genuine(a, k)
  BY CaseParts, Zenon DEF AdmissibleIn
<1>3. /\ \A r : Complete(r).work = FALSE /\ Complete(r).result = r
      /\ Work(alg, k).work = TRUE /\ Work(alg, k).key = k
  BY DEF Complete, Work
<1>4. \/ q.params /\ w = Complete(Error("InvalidAlgorithmParameters"))
      \/ ~q.params /\ q.staged /\ (s # "Ok" \/ q.reader \notin {"any", a.form})
           /\ w = Complete(Error("InvalidPreVerifyResult"))
      \/ ~q.params /\ (q.staged => s = "Ok" /\ q.reader \in {"any", a.form})
           /\ s = "Ok" /\ w = Prepare(a.alg, a.shape, q.keys, q.enabled)
      \/ ~q.staged /\ s = "Unsigned"
      \/ s # "Ok" /\ w = Complete(Malformed)
  <2>1. s = "Unsigned" => s # "Ok"
    OBVIOUS
  <2>2. QED
    BY <2>1, Zenon DEF Admit
<1>5. s = "Ok" => KnownAlgorithm(a.alg)
  <2>1. t.readable => a.alg \in 1..2
    BY DEF CaseOf
  <2>2. a.alg \in 1..2 => KnownAlgorithm(a.alg)
    BY DEF KnownAlgorithm
  <2>3. QED
    BY <1>1, <2>1, <2>2, Zenon
<1> DEFINE p == Prepare(a.alg, a.shape, q.keys, q.enabled)
<1>6. ASSUME s = "Ok"
      PROVE  \/ p = Complete(Malformed) /\ (~t.sized \/ (t.enabled /\ ~t.proper))
             \/ p = Complete(StateOf("SignedButAlgorithmUnsupported", alg)) /\ t.sized /\ ~t.enabled
             \/ p = Complete(KeyResolutionFailure) /\ t.sized /\ t.enabled /\ ~t.keyed
             \/ p = Work(alg, k) /\ t.sized /\ t.enabled /\ t.proper /\ t.keyed
  <2>1. KnownAlgorithm(a.alg)
    BY <1>5, <1>6
  <2>2. a.shape # "out_of_range" /\ t.sized => t.proper
    BY <1>2 DEF IsArtifact
  <2>3. a.shape = "out_of_range" => ~t.proper
    BY <1>2
  <2> DEFINE sized == a.shape \in {"empty", "wrong_length"}
             range == a.shape = "out_of_range"
             admissible == AdmissibleIn(alg, k)
  <2>4. p = IF sized THEN Complete(Malformed)
            ELSE IF alg \notin q.enabled THEN Complete(StateOf("SignedButAlgorithmUnsupported", alg))
            ELSE IF alg = "ed25519" /\ range THEN Complete(Malformed)
            ELSE IF k = NoKey THEN Complete(KeyResolutionFailure)
            ELSE IF range THEN Complete(Malformed)
            ELSE IF ~admissible THEN Complete(KeyResolutionFailure)
            ELSE Work(alg, k)
    BY <2>1, Zenon DEF Prepare
  <2>5. t.sized <=> ~sized
    BY <1>2
  <2>6. t.keyed <=> k # NoKey /\ admissible
    BY <1>2
  <2>7. t.enabled <=> alg \in q.enabled
    BY <1>2
  <2> HIDE DEF p, t, alg, k, a, sized, admissible
  <2>8. QED
    BY <2>2, <2>3, <2>4, <2>5, <2>6, <2>7, Zenon
<1>7. /\ Promised!Admits(t, StateOf("SignedButAlgorithmUnsupported", alg))
           <=> t.readable /\ t.sized /\ ~t.enabled
      /\ Promised!Admits(t, Malformed) <=> ~t.readable \/ ~t.sized \/ (t.enabled /\ ~t.proper)
      /\ Promised!Admits(t, KeyResolutionFailure)
           <=> t.readable /\ t.sized /\ t.enabled /\ ~t.keyed
      /\ Promised!Admits(t, Error("InvalidAlgorithmParameters")) <=> t.params
      /\ Promised!Admits(t, Error("InvalidPreVerifyResult")) <=> t.staged /\ ~(t.readable /\ t.expected)
  BY AdmitsEach, Zenon
<1>8. Promised!Sound(t) <=> t.readable /\ t.sized /\ t.enabled /\ t.proper /\ t.keyed
  BY Zenon DEF Promised!Sound
<1> DEFINE admits == Promised!Admits(t, w.result)
           sound == Promised!Sound(t)
<1> SUFFICES /\ ~w.work => admits
             /\ w.work => /\ sound /\ ~t.params /\ (t.staged => t.expected)
                          /\ t.genuine <=> Genuine(a, w.key)
  BY Zenon
<1>k. ASSUME t.keyed PROVE k # NoKey
  BY <1>2, <1>k
<1>9. CASE q.params /\ w = Complete(Error("InvalidAlgorithmParameters"))
  <2>1. w.work = FALSE /\ w.result = Error("InvalidAlgorithmParameters") /\ t.params
    BY <1>2, <1>3, <1>9, Zenon
  <2> HIDE DEF w, t
  <2>2. QED
    BY <1>7, <2>1, Zenon
<1>10. CASE /\ ~q.params /\ q.staged /\ (s # "Ok" \/ q.reader \notin {"any", a.form})
            /\ w = Complete(Error("InvalidPreVerifyResult"))
  <2>1. /\ w.work = FALSE /\ w.result = Error("InvalidPreVerifyResult")
        /\ t.staged /\ ~(t.readable /\ t.expected)
    BY <1>1, <1>2, <1>3, <1>10, Zenon
  <2> HIDE DEF w, t
  <2>2. QED
    BY <1>7, <2>1, Zenon
<1>11. CASE s # "Ok" /\ w = Complete(Malformed)
  <2>1. w.work = FALSE /\ w.result = Malformed /\ ~t.readable
    BY <1>1, <1>3, <1>11, Zenon
  <2> HIDE DEF w, t
  <2>2. QED
    BY <1>7, <2>1, Zenon
<1>12. CASE ~q.params /\ (q.staged => s = "Ok" /\ q.reader \in {"any", a.form}) /\ s = "Ok" /\ w = p
  <2>1. ~t.params /\ (t.staged => t.expected) /\ t.readable
    BY <1>1, <1>2, <1>12, Zenon
  <2>2. CASE p = Complete(Malformed) /\ (~t.sized \/ (t.enabled /\ ~t.proper))
    <3>1. w.work = FALSE /\ w.result = Malformed
      BY <1>3, <1>12, <2>2, Zenon
    <3> HIDE DEF w, t, p
    <3>2. QED
      BY <1>7, <2>2, <3>1, Zenon
  <2>3. CASE p = Complete(StateOf("SignedButAlgorithmUnsupported", alg)) /\ t.sized /\ ~t.enabled
    <3>1. w.work = FALSE /\ w.result = StateOf("SignedButAlgorithmUnsupported", alg)
      BY <1>3, <1>12, <2>3, Zenon
    <3> HIDE DEF w, t, p, alg
    <3>2. QED
      BY <1>7, <2>1, <2>3, <3>1, Zenon
  <2>4. CASE p = Complete(KeyResolutionFailure) /\ t.sized /\ t.enabled /\ ~t.keyed
    <3>1. w.work = FALSE /\ w.result = KeyResolutionFailure
      BY <1>3, <1>12, <2>4, Zenon
    <3> HIDE DEF w, t, p
    <3>2. QED
      BY <1>7, <2>1, <2>4, <3>1, Zenon
  <2>5. CASE p = Work(alg, k) /\ t.sized /\ t.enabled /\ t.proper /\ t.keyed
    <3>1. w.work = TRUE /\ w.key = k
      BY <1>3, <1>12, <2>5, Zenon
    <3>2. t.genuine <=> Genuine(a, k)
      BY <1>2, <1>k, <2>5, Zenon
    <3> HIDE DEF w, t, p, k, a
    <3>3. QED
      BY <1>8, <2>1, <2>5, <3>1, <3>2, Zenon
  <2>6. QED
    BY <1>6, <1>12, <2>2, <2>3, <2>4, <2>5, Zenon
<1>13. ~q.staged /\ s = "Unsigned" => FALSE
  BY <1>1
<1>14. QED
  BY <1>4, <1>9, <1>10, <1>11, <1>12, <1>13, Zenon

-----------------------------------------------------------------------------
(* How the steps of a call map to steps of the contract.                   *)

LEMMA Mapped ==
    ASSUME IInv, NEW c \in Calls, NEW p, NEW q, NEW s, NEW w, NEW a, NEW v, Moved(c, p, q, s, w, a, v)
    PROVE  /\ StageOfCalls' = [StageOfCalls EXCEPT ![c] = StageOf(p)]
           /\ StageOf(p) # "new" => /\ CaseOfCalls' = [CaseOfCalls EXCEPT ![c] = CaseOf(q)]
                                    /\ CaseOfCalls'[c] = CaseOf(q)
           /\ StageOf(p) = "new" => CaseOfCalls' = [CaseOfCalls EXCEPT ![c] = Nothing]
           /\ verdict' = [verdict EXCEPT ![c] = v] /\ verdict'[c] = v
           /\ StageOfCalls[c] = StageOf(phase[c])
           /\ StageOf(phase[c]) = "new" => CaseOfCalls[c] = Nothing
           /\ StageOf(phase[c]) # "new" => CaseOfCalls[c] = CaseOf(request[c])
<1>1. \A d \in Calls : d # c => phase'[d] = phase[d] /\ request'[d] = request[d]
  BY DEF Moved, IInv, CallInv, CallTypeOK, RecordsOK
<1>2. phase'[c] = p /\ request'[c] = q
  BY DEF Moved, IInv, CallInv, CallTypeOK, RecordsOK
<1>3. verdict' = [verdict EXCEPT ![c] = v] /\ verdict'[c] = v
  BY DEF Moved, IInv, CallInv, CallTypeOK
<1>4. StageOfCalls' = [StageOfCalls EXCEPT ![c] = StageOf(p)]
  BY <1>1, <1>2, Zenon DEF StageOfCalls
<1>5. StageOf(p) # "new" => /\ CaseOfCalls' = [CaseOfCalls EXCEPT ![c] = CaseOf(q)]
                            /\ CaseOfCalls'[c] = CaseOf(q)
  BY <1>1, <1>2 DEF CaseOfCalls
<1>6. StageOf(p) = "new" => CaseOfCalls' = [CaseOfCalls EXCEPT ![c] = Nothing]
  BY <1>1, <1>2 DEF CaseOfCalls
<1>7. QED
  BY <1>3, <1>4, <1>5, <1>6 DEF StageOfCalls, CaseOfCalls

LEMMA Decides ==
    ASSUME IInv, NEW c \in Calls, NEW q, NEW s, NEW w, NEW a, NEW v,
           Moved(c, "done", q, s, w, a, v), StageOf(phase[c]) = "new",
           Promised!Admits(CaseOf(q), v)
    PROVE  Promised!Next
<1>1. StageOf("done") = "decided"
  BY StageMeans
<1>2. Promised!Decide(c, CaseOf(q), v)
  BY <1>1, Mapped DEF Promised!Decide
<1>3. CaseOfCalls'[c] = CaseOf(q) /\ verdict'[c] = v
  BY <1>1, Mapped
<1>4. QED
  BY <1>2, <1>3, Zenon DEF Promised!Next

LEMMA Asks ==
    ASSUME IInv, NEW c \in Calls, NEW q, NEW s, NEW w, NEW a,
           Moved(c, "asked", q, s, w, a, verdict[c]), StageOf(phase[c]) = "new",
           LET t == CaseOf(q)
           IN  Promised!Sound(t) /\ ~t.params /\ ~t.oversized /\ (t.staged => t.expected)
    PROVE  Promised!Next
<1>1. StageOf("asked") = "asked"
  BY StageMeans
<1>2. verdict' = verdict
  BY Mapped, Stays DEF IInv
<1>3. Promised!Ask(c, CaseOf(q))
  BY <1>1, <1>2, Mapped DEF Promised!Ask
<1>4. CaseOfCalls'[c] = CaseOf(q)
  BY <1>1, Mapped
<1>5. QED
  BY <1>3, <1>4, Zenon DEF Promised!Next

LEMMA Resumes ==
    ASSUME IInv, NEW c \in Calls, NEW p, NEW s, NEW w, NEW a, NEW v,
           Moved(c, p, request[c], s, w, a, v), StageOf(phase[c]) = "asked",
           \/ p = "done" /\ (Promised!Admits(CaseOf(request[c]), v) \/ v.name = "KeyResolutionFailure")
           \/ p = "dropped" /\ v = verdict[c]
    PROVE  Promised!Next
<1>0. StageOf("done") = "decided" /\ StageOf("dropped") = "abandoned"
  BY StageMeans
<1>1. CaseOfCalls = [CaseOfCalls EXCEPT ![c] = CaseOfCalls[c]]
  BY DEF CaseOfCalls
<1>2. CaseOfCalls[c] = CaseOf(request[c]) /\ StageOfCalls[c] = "asked"
  BY Mapped
<1>3. CaseOfCalls' = CaseOfCalls
  BY <1>0, <1>1, <1>2, Mapped
<1>4. CASE p = "done" /\ (Promised!Admits(CaseOf(request[c]), v) \/ v.name = "KeyResolutionFailure")
  <2>1. Promised!Answer(c, v) /\ verdict'[c] = v
    BY <1>0, <1>2, <1>3, <1>4, Mapped DEF Promised!Answer
  <2>2. QED
    BY <2>1, Zenon DEF Promised!Next
<1>5. CASE p = "dropped" /\ v = verdict[c]
  <2>1. verdict' = verdict
    BY <1>5, Mapped, Stays DEF IInv
  <2>2. Promised!Abandon(c)
    BY <1>0, <1>2, <1>3, <1>5, <2>1, Mapped DEF Promised!Abandon
  <2>3. QED
    BY <2>2, Zenon DEF Promised!Next
<1>6. QED
  BY <1>4, <1>5

LEMMA Stutters ==
    ASSUME IInv, NEW c \in Calls, NEW p, NEW q, NEW s, NEW w, NEW a,
           Moved(c, p, q, s, w, a, verdict[c]), StageOf(phase[c]) = StageOf(p),
           StageOf(p) = "new" \/ q = request[c]
    PROVE  UNCHANGED Promised!vars
<1>1. /\ StageOfCalls = [StageOfCalls EXCEPT ![c] = StageOfCalls[c]]
      /\ CaseOfCalls = [CaseOfCalls EXCEPT ![c] = CaseOfCalls[c]]
  BY DEF StageOfCalls, CaseOfCalls
<1>2. StageOfCalls' = StageOfCalls /\ CaseOfCalls' = CaseOfCalls /\ verdict' = verdict
  BY <1>1, Mapped, Stays DEF IInv
<1>3. QED
  BY <1>2 DEF Promised!vars

\* The first half of a call asks about a sound case, or decides.
LEMMA ProceedKeepsContract ==
    ASSUME IInv, NEW c \in Calls, NEW q, NEW seen, Proceed(c, q, seen),
           ReadInv("asked", q, seen), StageOf(phase[c]) = "new"
    PROVE  Promised!Next
<1> DEFINE w == Admit(q, seen)
           t == CaseOf(q)
<1>1. /\ request' = [request EXCEPT ![c] = q] /\ pre' = [pre EXCEPT ![c] = seen]
      /\ work' = [work EXCEPT ![c] = w] /\ answer' = answer
      /\ IF ~w.work THEN Finish(c, w.result)
         ELSE IF q.api = "builtin" THEN Finish(c, Classify(NativeOutcome(q.artifact, w.key), w.alg))
         ELSE phase' = [phase EXCEPT ![c] = "asked"] /\ verdict' = verdict
  BY Zenon DEF Proceed
<1>2. /\ IsArtifact(q.artifact) /\ ~q.oversized
      /\ seen = PreVerify(q.artifact, IF q.staged THEN q.allowUnsigned ELSE FALSE)
  BY Zenon DEF ReadInv
<1>3. /\ ~w.work => Promised!Admits(t, w.result)
      /\ w.work => /\ Promised!Sound(t) /\ ~t.params /\ (t.staged => t.expected)
                   /\ t.genuine <=> Genuine(q.artifact, w.key)
  BY <1>2, AdmitMeans, Zenon
<1>4. ~t.oversized
  BY <1>2, CaseParts, Zenon
<1>5. CallInv
  BY DEF IInv
<1> HIDE DEF w
<1>6. ASSUME NEW v, Finish(c, v) PROVE Moved(c, "done", q, seen, w, answer[c], v)
  BY <1>1, <1>5, <1>6, Stays, Zenon DEF Moved, Finish
<1>7. CASE ~w.work
  BY <1>1, <1>3, <1>6, <1>7, Decides, Zenon
<1>8. CASE w.work /\ q.api = "builtin"
  <2> DEFINE v == Classify(NativeOutcome(q.artifact, w.key), w.alg)
  <2>1. Promised!Admits(t, v)
    <3>1. CASE Genuine(q.artifact, w.key)
      <4>1. v = StateOf("Verified", w.alg)
        BY <3>1 DEF NativeOutcome, Classify
      <4>2. QED
        BY <1>3, <1>8, <3>1, <4>1, AdmitsEach, Zenon
    <3>2. CASE ~Genuine(q.artifact, w.key)
      <4>1. v = State("SignedButFailedVerification")
        BY <3>2 DEF NativeOutcome, Classify
      <4>2. QED
        BY <1>3, <1>8, <3>2, <4>1, AdmitsEach, Zenon
    <3>3. QED
      BY <3>1, <3>2
  <2>2. QED
    BY <1>1, <1>6, <1>8, <2>1, Decides, Zenon
<1>9. CASE w.work /\ q.api # "builtin"
  <2>1. Moved(c, "asked", q, seen, w, answer[c], verdict[c])
    BY <1>1, <1>5, <1>9, Stays, Zenon DEF Moved
  <2>2. QED
    BY <1>3, <1>4, <1>9, <2>1, Asks, Zenon
<1>10. QED
  BY <1>7, <1>8, <1>9, Zenon

LEMMA ContractCallStep ==
    ASSUME IInv, HeldInv, QualInv, NativeInv, Trusted, NEW c \in Calls, CallStep(c)
    PROVE  Promised!Next \/ UNCHANGED Promised!vars
<1>i. CallInv
  BY DEF IInv
<1>n. /\ ReadInv(phase[c], request[c], pre[c])
      /\ AskInv(phase[c], request[c], pre[c], work[c], held, handles)
      /\ AnswerInv(Sure, phase[c], request[c], work[c], answer[c])
  BY Zenon DEF NativeInv
<1>z. ASSUME NEW q, q.oversized, StageOf(phase[c]) = "new",
             Moved(c, "done", q, pre[c], work[c], answer[c], Error("InputArtifactTooLarge"))
      PROVE  Promised!Next
  <2>1. Promised!Admits(CaseOf(q), Error("InputArtifactTooLarge"))
    BY <1>z, AdmitsEach, CaseParts, Zenon
  <2>2. QED
    BY <1>z, <2>1, Decides
<1>1. CASE VerifyWhole(c)
  <2>1. PICK q \in Universe[c], ed \in KeysFor("builtin", "ed25519") \cup BoundKeys,
             p2 \in KeysFor("builtin", "p256") \cup BoundKeys :
          /\ ~q.staged
          /\ IF q.oversized
               THEN /\ Finish(c, Error("InputArtifactTooLarge"))
                    /\ request' = [request EXCEPT ![c] = WithKeys(q, ed, p2)]
                    /\ UNCHANGED <<pre, work, answer>>
               ELSE Proceed(c, WithKeys(q, ed, p2), PreVerify(q.artifact, FALSE))
    BY <1>1, Zenon DEF VerifyWhole
  <2>s. StageOf(phase[c]) = "new"
    BY <1>1, StageMeans DEF VerifyWhole
  <2> DEFINE z == WithKeys(q, ed, p2)
  <2>2. z.artifact = q.artifact /\ z.oversized = q.oversized /\ z.staged = q.staged
    BY WithKept
  <2> HIDE DEF z
  <2>3. CASE q.oversized
    <3>1. Moved(c, "done", z, pre[c], work[c], answer[c], Error("InputArtifactTooLarge"))
      BY <1>i, <2>1, <2>3, Stays, Zenon DEF Moved, Finish, z
    <3>2. QED
      BY <1>z, <2>s, <2>2, <2>3, <3>1
  <2>4. CASE ~q.oversized
    <3>1. Proceed(c, z, PreVerify(q.artifact, FALSE))
      BY <2>1, <2>4, Zenon DEF z
    <3>2. IsArtifact(z.artifact) /\ Fits(z.artifact)
      BY <2>2, UniverseFits
    <3>3. PreVerify(z.artifact, IF z.staged THEN z.allowUnsigned ELSE FALSE) = PreVerify(q.artifact, FALSE)
      BY <2>1, <2>2, Zenon
    <3>4. ReadInv("asked", z, PreVerify(q.artifact, FALSE))
      BY <2>2, <2>4, <3>2, <3>3 DEF ReadInv
    <3>5. QED
      BY <2>s, <3>1, <3>4, ProceedKeepsContract
  <2>5. QED
    BY <2>3, <2>4
<1>2. CASE ReadFirst(c)
  <2>1. PICK q \in Universe[c] :
          /\ request' = [request EXCEPT ![c] = WithKeys(q, NoKey, NoKey)]
          /\ IF q.oversized
               THEN Finish(c, Error("InputArtifactTooLarge")) /\ UNCHANGED pre
               ELSE /\ phase' = [phase EXCEPT ![c] = "read"]
                    /\ pre' = [pre EXCEPT ![c] = PreVerify(q.artifact, q.allowUnsigned)]
                    /\ UNCHANGED verdict
    BY <1>2, Zenon DEF ReadFirst
  <2>2. work' = work /\ answer' = answer /\ phase[c] = "new"
    BY <1>2, Zenon DEF ReadFirst
  <2>s. StageOf(phase[c]) = "new" /\ StageOf("read") = "new"
    BY <2>2, StageMeans
  <2> DEFINE z == WithKeys(q, NoKey, NoKey)
  <2>3. z.oversized = q.oversized
    BY WithKept
  <2> HIDE DEF z
  <2>4. CASE q.oversized
    <3>1. Moved(c, "done", z, pre[c], work[c], answer[c], Error("InputArtifactTooLarge"))
      BY <1>i, <2>1, <2>2, <2>4, Stays, Zenon DEF Moved, Finish, z
    <3>2. QED
      BY <1>z, <2>s, <2>3, <2>4, <3>1
  <2>5. CASE ~q.oversized
    <3>1. Moved(c, "read", z, PreVerify(q.artifact, q.allowUnsigned), work[c], answer[c], verdict[c])
      BY <1>i, <2>1, <2>2, <2>5, Stays, Zenon DEF Moved, z
    <3>2. QED
      BY <2>s, <3>1, Stutters, Zenon
  <2>6. QED
    BY <2>4, <2>5
<1>3. CASE VerifyRead(c)
  <2>1. phase[c] = "read" /\ StageOf(phase[c]) = "new"
    BY <1>3, StageMeans DEF VerifyRead
  <2>2. PICK ed \in KeysFor(request[c].api, "ed25519"), p2 \in KeysFor(request[c].api, "p256") :
          Proceed(c, WithKeys(request[c], ed, p2), pre[c])
    BY <1>3, Zenon DEF VerifyRead
  <2> DEFINE z == WithKeys(request[c], ed, p2)
  <2>3. z.artifact = request[c].artifact /\ z.oversized = request[c].oversized
        /\ z.staged = request[c].staged /\ z.allowUnsigned = request[c].allowUnsigned
    BY WithKept
  <2>4. Proceed(c, z, pre[c])
    BY <2>2
  <2> HIDE DEF z
  <2>5. ReadInv("asked", z, pre[c])
    BY <1>n, <2>1, <2>3 DEF ReadInv
  <2>6. QED
    BY <2>1, <2>4, <2>5, ProceedKeepsContract
<1>4. CASE ProviderAnswers(c)
  <2>1. PICK a : answer' = [answer EXCEPT ![c] = a]
    BY <1>4, Zenon DEF ProviderAnswers
  <2>2. /\ phase[c] = "asked" /\ phase' = [phase EXCEPT ![c] = "answered"]
        /\ request' = request /\ pre' = pre /\ work' = work /\ verdict' = verdict
    BY <1>4, Zenon DEF ProviderAnswers
  <2>3. Moved(c, "answered", request[c], pre[c], work[c], a, verdict[c])
    BY <1>i, <2>1, <2>2, Stays, Zenon DEF Moved
  <2>4. StageOf(phase[c]) = StageOf("answered")
    BY <2>2, StageMeans
  <2>5. QED
    BY <2>3, <2>4, Stutters, Zenon
<1>5. CASE Resume(c)
  <2> DEFINE v == Classify(answer[c], work[c].alg)
             q == request[c]
             t == CaseOf(q)
  <2>1. /\ phase[c] = "answered" /\ Finish(c, v)
        /\ request' = request /\ pre' = pre /\ work' = work /\ answer' = answer
    BY <1>5, Zenon DEF Resume
  <2>2. Moved(c, "done", q, pre[c], work[c], answer[c], v)
    BY <1>i, <2>1, Stays, Zenon DEF Moved, Finish
  <2>3. /\ IsArtifact(q.artifact)
        /\ pre[c] = PreVerify(q.artifact, IF q.staged THEN q.allowUnsigned ELSE FALSE)
        /\ work[c] = Admit(q, pre[c]) /\ work[c].work
    BY <1>n, <2>1, Zenon DEF ReadInv, AskInv
  <2>4. Promised!Sound(t) /\ (t.genuine <=> Genuine(q.artifact, work[c].key))
    BY <2>3, AdmitMeans, Zenon
  <2>5. Sure
    BY DEF Sure, Trusted, Candid
  <2>6. answer[c] = NativeOutcome(q.artifact, work[c].key) \/ answer[c] = "ProviderFailure"
    BY <1>n, <2>1, <2>5, Zenon DEF AnswerInv
  <2>7. Promised!Admits(t, v) \/ v.name = "KeyResolutionFailure"
    <3>1. CASE answer[c] = "ProviderFailure"
      <4>1. v = KeyResolutionFailure
        BY <3>1 DEF Classify
      <4>2. QED
        BY <4>1, AdmitsEach, Zenon
    <3>2. CASE answer[c] = NativeOutcome(q.artifact, work[c].key) /\ Genuine(q.artifact, work[c].key)
      <4>1. v = StateOf("Verified", work[c].alg)
        BY <3>2 DEF NativeOutcome, Classify
      <4>2. QED
        BY <2>4, <3>2, <4>1, AdmitsEach, Zenon
    <3>3. CASE answer[c] = NativeOutcome(q.artifact, work[c].key) /\ ~Genuine(q.artifact, work[c].key)
      <4>1. v = State("SignedButFailedVerification")
        BY <3>3 DEF NativeOutcome, Classify
      <4>2. QED
        BY <2>4, <3>3, <4>1, AdmitsEach, Zenon
    <3>4. QED
      BY <2>6, <3>1, <3>2, <3>3
  <2>8. StageOf(phase[c]) = "asked"
    BY <2>1, StageMeans
  <2>9. QED
    BY <2>2, <2>7, <2>8, Resumes, Zenon
<1>6. CASE DropCall(c)
  <2>1. /\ phase' = [phase EXCEPT ![c] = "dropped"] /\ request' = request /\ pre' = pre
        /\ work' = work /\ answer' = answer /\ verdict' = verdict /\ phase[c] = "asked"
    BY <1>6, Zenon DEF DropCall
  <2>2. Moved(c, "dropped", request[c], pre[c], work[c], answer[c], verdict[c])
    BY <1>i, <2>1, Stays, Zenon DEF Moved
  <2>3. StageOf(phase[c]) = "asked"
    BY <2>1, StageMeans
  <2>4. QED
    BY <2>2, <2>3, Resumes, Zenon
<1>7. QED
  BY <1>1, <1>2, <1>3, <1>4, <1>5, <1>6 DEF CallStep

LEMMA ContractInit == Init => Promised!Init
<1> SUFFICES ASSUME Init PROVE Promised!Init
  OBVIOUS
<1>1. \A c \in Calls : StageOf(phase[c]) = "new"
  BY StageMeans DEF Init
<1>2. StageOfCalls = [c \in Calls |-> "new"] /\ CaseOfCalls = [c \in Calls |-> Nothing]
  BY <1>1 DEF StageOfCalls, CaseOfCalls
<1>3. QED
  BY <1>2 DEF Promised!Init, Promised!Undecided, Nothing, Init

LEMMA ContractStep ==
    IInv /\ HeldInv /\ QualInv /\ NativeInv /\ Trusted /\ [Next]_vars => [Promised!Next]_(Promised!vars)
<1> SUFFICES ASSUME IInv, HeldInv, QualInv, NativeInv, Trusted, [Next]_vars
             PROVE  Promised!Next \/ UNCHANGED Promised!vars
  BY Zenon
<1>1. CASE \E c \in Calls : CallStep(c)
  BY <1>1, ContractCallStep, Zenon
<1>2. CASE UNCHANGED callVars
  BY <1>2 DEF callVars, Promised!vars, StageOfCalls, CaseOfCalls
<1>3. QED
  BY <1>1, <1>2, StepMoves, Zenon

LEMMA TrustedStep == IInv /\ HeldInv /\ QualInv /\ NativeInv /\ Trusted /\ [Next]_vars => Trusted'
<1> SUFFICES ASSUME IInv, HeldInv, QualInv, NativeInv, Trusted, [Next]_vars PROVE Trusted'
  OBVIOUS
<1>1. /\ Moves
      /\ slot \notin Algs => status' = status
      /\ slot \in Algs => \A alg \in Algs : status'[alg] # "unchecked"
  BY StepMoves, Zenon
<1>2. (\A alg \in Algs : Wrong(alg)' <=> Wrong(alg)) /\ reports' = reports
  BY <1>1, MovesMean DEF QualInv
<1>3. \A alg \in Algs : status'[alg] = "unchecked" => ~Wrong(alg)'
  BY <1>1, <1>2, Zenon DEF Trusted
<1>4. QED
  BY <1>2, <1>3 DEF Trusted

\* Every verification call keeps the contract, built-in or through a provider
\* that is candid about its failures and qualified or right: the verdict is
\* one that the artifact, the keys and the options admit, somebody is asked
\* only about a sound case, and a call that asked ends with its answer, with a
\* failure or abandoned (verify_with_provider, verify_pre_verified, resume).
THEOREM ContractKept == Spec /\ Trusted => Contract
<1>1. Spec /\ Trusted => [](IInv /\ HeldInv /\ QualInv /\ NativeInv /\ Trusted)
  BY TypeInit, HeldInit, QualInit, NativeInit, TypeStep, HeldStep, QualStep, NativeStep, TrustedStep, PTL
  DEF Spec
<1>2. QED
  BY <1>1, ContractInit, ContractStep, PTL DEF Spec, Contract, Promised!Spec
=============================================================================
