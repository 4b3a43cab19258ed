------------------------- MODULE SigningSession_proofs -------------------------
(***************************************************************************)
(* Proofs about SigningSession, for every set of operations, requests and  *)
(* keys.  What the provider answers is only typed: nothing is assumed of   *)
(* it.                                                                     *)
(***************************************************************************)
EXTENDS SigningSession, WellFoundedInduction, TLAPS

\* A refusal is never a success: every check has a kind of refusal.
Refusals == {"invocation", "resource", "encode", "signer"}

Errors == {"InvalidOrUnsupportedOutputForm", "InvalidOrUnsupportedAlgorithm",
           "InvalidAlgorithmParameters", "InvalidKeyid", "OutputArtifactTooLarge",
           "MessageTooLarge", "InvalidPayloadBytes", "PayloadLineTerminatorRefusal"}

Checks == [fails: BOOLEAN, kind: Refusals, error: Errors]

\* Every check of the admission sequence names a kind of refusal.
LEMMA PartsAreChecks ==
    ASSUME NEW q, IsRequest(q)
    PROVE  /\ ParameterChecks(q) \in Seq(Checks) /\ KeyAlgorithmCheck(q) \in Seq(Checks)
           /\ KeyidContentCheck(q) \in Seq(Checks) /\ BoundKeyCheck(q) \in Seq(Checks)
           /\ Preflight(q) \in Seq(Checks) /\ PreparationChecks(q) \in Seq(Checks)
<1> USE DEF IsRequest, Checks, Refusals, Check, Errors
<1>1. ParameterChecks(q) \in Seq(Checks)
  BY DEF ParameterChecks
<1>2. KeyAlgorithmCheck(q) \in Seq(Checks)
  BY DEF KeyAlgorithmCheck
<1>3. KeyidContentCheck(q) \in Seq(Checks)
  BY DEF KeyidContentCheck
<1>4. BoundKeyCheck(q) \in Seq(Checks)
  BY DEF BoundKeyCheck
<1>5. Preflight(q) \in Seq(Checks)
  BY DEF Preflight, TooLarge
<1>6. PreparationChecks(q) \in Seq(Checks)
  BY DEF PreparationChecks, ValidPayloadStream
<1>7. QED
  BY <1>1, <1>2, <1>3, <1>4, <1>5, <1>6

LEMMA AdmissionIsAboutRefusals ==
    ASSUME NEW q, IsRequest(q)
    PROVE  Admission(q) \in Seq(Checks)
<1>1. QED BY PartsAreChecks DEF Admission

\* Preparing a payload yields a message.
LEMMA PreparationType ==
    ASSUME NEW q \in Universe
    PROVE  PreparedPayload(q) \in Messages
<1>1. AppendsNewline(q) \in BOOLEAN
  BY DEF AppendsNewline
<1>2. QED
  BY <1>1 DEF PreparedPayload, Messages

-----------------------------------------------------------------------------
(* The inductive invariant: while an operation waits it belongs to a       *)
(* provider, what the provider received is what it will frame, and there   *)
(* is an outcome only when it is done.                                     *)

Operation(r) ==
    /\ phase[r] = "idle" => received[r] = <<>> /\ prepared[r] = <<>> /\ reply[r] = <<>>
    /\ phase[r] # "done" => outcome[r] = Unfinished
    /\ phase[r] = "waiting" => request[r].api # "native" /\ received[r] = prepared[r]
    /\ reply[r] # <<>> => received[r] # <<>>

Authentic(r) ==
    Succeeded(r) /\ (request[r].qualified \/ request[r].api = "native") =>
        Verifies(request[r].key, outcome[r].artifact.payload, outcome[r].artifact.signature)

Frames(r) ==
    Succeeded(r) /\ request[r].api # "native" =>
        received[r] = << outcome[r].artifact.payload >>

Inv ==
    /\ TypeOK
    /\ \A r \in Requests : Operation(r) /\ Authentic(r) /\ Frames(r)

LEMMA InitInv == Init => Inv
  BY BoundsAssumption
     DEF Init, Inv, TypeOK, Phases, Operation, Authentic, Frames, Succeeded, Done

\* A waiting operation's next outcome: an error, or an artifact that frames
\* the prepared message under a signature the provider answered with.
LEMMA AfterProviderOutcome ==
    \A q, m, answer :
        /\ AfterProvider(q, m, answer).kind # "success" =>
             AfterProvider(q, m, answer).artifact = NoArtifact
        /\ AfterProvider(q, m, answer).kind = "success" =>
             /\ ~answer.failed
             /\ AcceptsOutput(q, m, answer.signature)
             /\ AfterProvider(q, m, answer).artifact.payload = m
             /\ AfterProvider(q, m, answer).artifact.signature = answer.signature
             /\ AfterProvider(q, m, answer).artifact.absent = FALSE
  BY DEF AfterProvider, FinishSigning, Ended, Artifact

LEMMA FinishSigningOutcome ==
    \A q, m, sig :
        /\ FinishSigning(q, m, sig).kind \in {"success", "resource"}
        /\ FinishSigning(q, m, sig).kind = "success" =>
             /\ FinishSigning(q, m, sig).artifact.payload = m
             /\ FinishSigning(q, m, sig).artifact.signature = sig
             /\ FinishSigning(q, m, sig).artifact.absent = FALSE
        /\ FinishSigning(q, m, sig).kind # "success" =>
             FinishSigning(q, m, sig).artifact = NoArtifact
  BY DEF FinishSigning, Ended, Artifact

\* Waiting operations have a typed message and, once answered, a typed answer.
LEMMA WaitingType ==
    ASSUME Inv, NEW r \in Requests, received[r] # <<>>
    PROVE  /\ request[r] \in Universe
           /\ received[r] = <<received[r][1]>>
           /\ received[r][1] \in Messages
<1>1. PICK m \in Messages : received[r] = <<m>>
  BY DEF Inv, TypeOK
<1>2. phase[r] # "idle"
  BY DEF Inv, Operation
<1>3. QED
  BY <1>1, <1>2 DEF Inv, TypeOK

LEMMA NextInv == Inv /\ [Next]_vars => Inv'
<1> SUFFICES ASSUME Inv, [Next]_vars PROVE Inv'
  OBVIOUS
<1> USE DEF Inv
<1>1. ASSUME NEW r \in Requests, NEW q \in Universe, Refuse(r, q)
      PROVE  Inv'
  <2>1. PICK i \in DOMAIN Admission(q) :
            outcome' = [outcome EXCEPT ![r] = Ended(Admission(q)[i].kind, Admission(q)[i].error)]
    BY <1>1 DEF Refuse
  <2>2. Admission(q)[i].kind # "success"
    <3>1. Admission(q)[i] \in Checks
      BY AdmissionIsAboutRefusals, UniverseAssumption
    <3>2. QED BY <3>1 DEF Checks, Refusals
  <2>3. TypeOK'
    BY <1>1 DEF TypeOK, Refuse, Phases
  <2>4. ASSUME NEW s \in Requests PROVE (Operation(s) /\ Authentic(s) /\ Frames(s))'
    <3>1. CASE s = r
      BY <1>1, <2>1, <2>2, <3>1
         DEF Refuse, TypeOK, Phases, Operation, Authentic, Frames, Succeeded, Done, Ended
    <3>2. CASE s # r
      BY <1>1, <2>1, <3>2
         DEF Refuse, TypeOK, Phases, Operation, Authentic, Frames, Succeeded, Done
    <3>3. QED BY <3>1, <3>2
  <2>5. QED BY <2>3, <2>4
<1>2. ASSUME NEW r \in Requests, NEW q \in Universe, SignNatively(r, q)
      PROVE  Inv'
  <2> DEFINE m == PreparedPayload(q)
  <2>1. m \in Messages
    BY PreparationType
  <2>2. \/ \E plain \in BOOLEAN :
             outcome' = [outcome EXCEPT ![r] =
               FinishSigning(q, m, [key |-> q.key, message |-> m,
                                    wellFormed |-> TRUE, plain |-> plain])]
        \/ outcome' = [outcome EXCEPT ![r] = Ended("signer", "KeyOperationFailure")]
    BY <1>2 DEF SignNatively
  <2>3. TypeOK'
    BY <1>2, <2>1 DEF TypeOK, SignNatively, Phases
  <2>4. ASSUME NEW s \in Requests PROVE (Operation(s) /\ Authentic(s) /\ Frames(s))'
    <3>1. CASE s # r
      BY <1>2, <2>2, <3>1
         DEF SignNatively, TypeOK, Phases, Operation, Authentic, Frames, Succeeded, Done
    <3>2. CASE s = r
      <4>1. Operation(r)'
        BY <1>2 DEF SignNatively, TypeOK, Operation
      <4>2. request'[r] = q /\ q.api = "native"
        BY <1>2 DEF SignNatively, TypeOK
      <4>3. Frames(r)'
        BY <4>2 DEF Frames
      <4>4. outcome'[r].kind = "success" =>
              Verifies(q.key, outcome'[r].artifact.payload, outcome'[r].artifact.signature)
        <5>1. CASE outcome' = [outcome EXCEPT ![r] = Ended("signer", "KeyOperationFailure")]
          BY <5>1 DEF Ended, TypeOK
        <5>2. ASSUME NEW plain \in BOOLEAN,
                     outcome' = [outcome EXCEPT ![r] =
                       FinishSigning(q, m, [key |-> q.key, message |-> m,
                                            wellFormed |-> TRUE, plain |-> plain])]
              PROVE  outcome'[r].kind = "success" =>
                       Verifies(q.key, outcome'[r].artifact.payload, outcome'[r].artifact.signature)
          <6> DEFINE sig == [key |-> q.key, message |-> m, wellFormed |-> TRUE, plain |-> plain]
          <6>1. outcome'[r] = FinishSigning(q, m, sig)
            BY <5>2 DEF TypeOK
          <6>2. Verifies(q.key, m, sig)
            BY DEF Verifies, StructurallyValid
          <6>3. FinishSigning(q, m, sig).kind = "success" =>
                  /\ FinishSigning(q, m, sig).artifact.payload = m
                  /\ FinishSigning(q, m, sig).artifact.signature = sig
            BY FinishSigningOutcome
          <6> HIDE DEF sig, m
          <6>4. QED BY <6>1, <6>2, <6>3
        <5>3. QED BY <2>2, <5>1, <5>2
      <4>5. QED BY <3>2, <4>1, <4>2, <4>3, <4>4 DEF Authentic, Succeeded
    <3>3. QED BY <3>1, <3>2
  <2>5. QED BY <2>3, <2>4
<1>3. ASSUME NEW r \in Requests, NEW q \in Universe, CallProvider(r, q)
      PROVE  Inv'
  <2>1. PreparedPayload(q) \in Messages
    BY PreparationType
  <2>2. received' = [received EXCEPT ![r] = <<PreparedPayload(q)>>]
    <3>1. received[r] = <<>>
      BY <1>3 DEF CallProvider, Operation
    <3>2. Append(<<>>, PreparedPayload(q)) = <<PreparedPayload(q)>>
      OBVIOUS
    <3>3. QED BY <1>3, <3>1, <3>2 DEF CallProvider
  <2>3. TypeOK'
    <3> DEFINE m == PreparedPayload(q)
    <3>1. /\ prepared' = [prepared EXCEPT ![r] = <<m>>]
          /\ received' = [received EXCEPT ![r] = <<m>>]
          /\ phase' = [phase EXCEPT ![r] = "waiting"]
          /\ request' = [request EXCEPT ![r] = q]
          /\ UNCHANGED <<reply, outcome, key, rotations>>
      BY <1>3, <2>2 DEF CallProvider
    <3>2. m \in Messages
      BY <2>1
    <3> HIDE DEF m
    <3>3. prepared' \in [Requests -> {<<>>} \cup {<<x>> : x \in Messages}]
      BY <3>1, <3>2 DEF TypeOK
    <3>4. received' \in [Requests -> {<<>>} \cup {<<x>> : x \in Messages}]
      BY <3>1, <3>2 DEF TypeOK
    <3>5. QED BY <3>1, <3>3, <3>4 DEF TypeOK, Phases
  <2>4. ASSUME NEW s \in Requests PROVE (Operation(s) /\ Authentic(s) /\ Frames(s))'
    BY <1>3, <2>2
       DEF CallProvider, TypeOK, Phases, Operation, Authentic, Frames, Succeeded, Done
  <2>5. QED BY <2>3, <2>4
<1>4. ASSUME NEW r \in Requests, Resume(r)
      PROVE  Inv'
  <2> DEFINE m == prepared[r][1]
             answer == reply[r][1]
  <2>1. /\ phase[r] = "waiting"
        /\ phase' = [phase EXCEPT ![r] = "done"]
        /\ outcome' = [outcome EXCEPT ![r] = AfterProvider(request[r], m, answer)]
        /\ UNCHANGED <<request, prepared, received, reply, key, rotations>>
    BY <1>4 DEF Resume
  <2>2. received[r] = <<m>> /\ request[r].api # "native"
    <3>1. received[r] = prepared[r] /\ prepared[r] # <<>>
      BY <2>1 DEF Operation, TypeOK
    <3>2. received[r] = <<received[r][1]>>
      BY <3>1, WaitingType
    <3>3. QED BY <2>1, <3>1, <3>2 DEF Operation
  <2>3. TypeOK'
    BY <2>1 DEF TypeOK, Phases
  <2> HIDE DEF m, answer
  <2>4. AfterProvider(request[r], m, answer).kind = "success" =>
          /\ AcceptsOutput(request[r], m, answer.signature)
          /\ AfterProvider(request[r], m, answer).artifact.payload = m
          /\ AfterProvider(request[r], m, answer).artifact.signature = answer.signature
    BY AfterProviderOutcome
  <2>5. outcome'[r] = AfterProvider(request[r], m, answer)
    BY <2>1 DEF TypeOK
  <2>6. ASSUME NEW s \in Requests PROVE (Operation(s) /\ Authentic(s) /\ Frames(s))'
    <3>1. CASE s # r
      BY <2>1, <3>1
         DEF TypeOK, Phases, Operation, Authentic, Frames, Succeeded, Done
    <3>2. CASE s = r
      <4>1. Operation(r)'
        BY <2>1, <2>2 DEF TypeOK, Operation
      <4>2. Authentic(r)'
        BY <2>1, <2>2, <2>4, <2>5 DEF Authentic, Succeeded, AcceptsOutput
      <4>3. Frames(r)'
        BY <2>1, <2>2, <2>4, <2>5 DEF Frames, Succeeded
      <4>4. QED BY <3>2, <4>1, <4>2, <4>3
    <3>3. QED BY <3>1, <3>2
  <2>7. QED BY <2>3, <2>6
<1>5. ASSUME NEW r \in Requests, DropFuture(r)
      PROVE  Inv'
  <2>1. TypeOK'
    BY <1>5 DEF TypeOK, DropFuture, Phases
  <2>2. ASSUME NEW s \in Requests PROVE (Operation(s) /\ Authentic(s) /\ Frames(s))'
    BY <1>5 DEF DropFuture, TypeOK, Phases, Operation, Authentic, Frames, Succeeded, Done
  <2>3. QED BY <2>1, <2>2
<1>6. ASSUME NEW r \in Requests, ServiceAnswers(r)
      PROVE  Inv'
  <2>1. received[r] # <<>>
    BY <1>6 DEF ServiceAnswers, Submitted
  <2>2. PICK a \in {Signed(s) : s \in Signatures(Messages)}
                   \cup {Failed(e) : e \in UNION {ProviderErrors(api) : api \in Apis}} :
            reply' = [reply EXCEPT ![r] = <<a>>]
    <3>1. CASE \E other \in Submitted, wellFormed \in BOOLEAN, plain \in BOOLEAN :
                 reply' = [reply EXCEPT ![r] =
                    << Signed([key |-> key, message |-> received[other][1],
                               wellFormed |-> wellFormed, plain |-> plain]) >>]
      <4>1. PICK other \in Submitted, wellFormed \in BOOLEAN, plain \in BOOLEAN :
                 reply' = [reply EXCEPT ![r] =
                    << Signed([key |-> key, message |-> received[other][1],
                               wellFormed |-> wellFormed, plain |-> plain]) >>]
        BY <3>1
      <4>2. received[other][1] \in Messages
        BY WaitingType DEF Submitted
      <4>3. [key |-> key, message |-> received[other][1],
             wellFormed |-> wellFormed, plain |-> plain] \in Signatures(Messages)
        BY <4>2 DEF Signatures, TypeOK
      <4>4. QED BY <4>1, <4>3
    <3>2. CASE \E error \in ProviderErrors(request[r].api) :
                 reply' = [reply EXCEPT ![r] = << Failed(error) >>]
      <4>1. request[r].api \in Apis
        BY <2>1, WaitingType, UniverseAssumption DEF IsRequest
      <4>2. QED BY <3>2, <4>1
    <3>3. QED BY <1>6, <3>1, <3>2 DEF ServiceAnswers
  <2>3. TypeOK'
    BY <1>6, <2>2 DEF TypeOK, ServiceAnswers, Phases
  <2>4. ASSUME NEW s \in Requests PROVE (Operation(s) /\ Authentic(s) /\ Frames(s))'
    BY <1>6, <2>1, <2>2
       DEF ServiceAnswers, TypeOK, Phases, Operation, Authentic, Frames, Succeeded, Done
  <2>5. QED BY <2>3, <2>4
<1>7. CASE RotateKey
  <2>1. TypeOK'
    BY <1>7, BoundsAssumption DEF TypeOK, RotateKey, Phases
  <2>2. ASSUME NEW s \in Requests PROVE (Operation(s) /\ Authentic(s) /\ Frames(s))'
    BY <1>7 DEF RotateKey, Operation, Authentic, Frames, Succeeded, Done
  <2>3. QED BY <2>1, <2>2
<1>8. CASE UNCHANGED vars
  BY <1>8 DEF vars, TypeOK, Phases, Operation, Authentic, Frames, Succeeded, Done
<1>9. QED
  BY <1>1, <1>2, <1>3, <1>4, <1>5, <1>6, <1>7, <1>8 DEF Next

THEOREM InvHolds == Spec => []Inv
<1>1. QED BY InitInv, NextInv, PTL DEF Spec

\* Types are right in every reachable state.
THEOREM TypeCorrect == Spec => []TypeOK
<1>1. Inv => TypeOK
  BY DEF Inv
<1>2. QED BY <1>1, InvHolds, PTL

\* A checked or natively signed artifact is authentic, whatever the service
\* answers, whenever it rotates its key and whoever else is waiting.
THEOREM ArtifactsAreAuthentic == Spec => []AuthenticArtifact
<1>1. Inv => AuthenticArtifact
  BY DEF Inv, Authentic, AuthenticArtifact
<1>2. QED BY <1>1, InvHolds, PTL

\* A framed payload is the one payload its provider was asked about.
THEOREM SubmissionsAreFramed == Spec => []FramesWhatWasSubmitted
<1>1. Inv => FramesWhatWasSubmitted
  BY DEF Inv, Frames, FramesWhatWasSubmitted
<1>2. QED BY <1>1, InvHolds, PTL

-----------------------------------------------------------------------------
(* Varints.  The projection and the emission count them by functions of    *)
(* the same recursion; that there is a function with this recursion is     *)
(* shown by least counterexamples.                                         *)

Groups(f, n) == IF n >= 128 THEN 1 + f[n \div 128] ELSE 1

\* The recursion up to n.
GroupsUpTo(n) == {f \in [0..n -> Nat] : \A v \in 0..n : f[v] = Groups(f, v)}

LEMMA LeastElement ==
    ASSUME NEW S \in SUBSET Nat, S # {}
    PROVE  \E n \in S : \A m \in S : n <= m
<1>1. PICK n \in S : \A m \in S : ~(<<m, n>> \in OpToRel(<, Nat))
  BY NatLessThanWellFounded, WFMin
<1>2. \A m \in S : ~(m < n)
  BY <1>1 DEF OpToRel
<1>3. QED BY <1>2

\* One octet less per step.
LEMMA Shorter == \A n \in Nat : n >= 128 => n \div 128 \in 0..(n - 1)
  OBVIOUS

\* Two functions of the recursion agree where both are defined.
LEMMA GroupsAgree ==
    ASSUME NEW n \in Nat, NEW k \in Nat, NEW f \in GroupsUpTo(n), NEW g \in GroupsUpTo(k),
           NEW v \in Nat, v <= n, v <= k
    PROVE  f[v] = g[v]
<1> DEFINE S == {w \in Nat : w <= n /\ w <= k /\ f[w] # g[w]}
<1>1. SUFFICES ASSUME S # {} PROVE FALSE
  OBVIOUS
<1>2. PICK w \in S : \A m \in S : w <= m
  BY <1>1, LeastElement
<1>3. w >= 128 => f[w \div 128] = g[w \div 128]
  BY <1>2, Shorter
<1>4. f[w] = Groups(f, w) /\ g[w] = Groups(g, w)
  BY DEF GroupsUpTo
<1>5. QED BY <1>2, <1>3, <1>4 DEF Groups

\* There is one for every bound.
LEMMA GroupsExist ==
    ASSUME NEW n \in Nat
    PROVE  GroupsUpTo(n) # {}
<1> DEFINE S == {w \in Nat : GroupsUpTo(w) = {}}
<1>1. SUFFICES ASSUME S # {} PROVE FALSE
  OBVIOUS
<1>2. PICK w \in S : \A m \in S : w <= m
  BY <1>1, LeastElement
<1>3. CASE w = 0
  <2>1. [v \in 0..0 |-> 1] \in GroupsUpTo(0)
    BY DEF GroupsUpTo, Groups
  <2>2. QED BY <1>2, <1>3, <2>1
<1>4. CASE w # 0
  <2>1. PICK f : f \in GroupsUpTo(w - 1)
    BY <1>2, <1>4
  <2> DEFINE g == [v \in 0..w |-> IF v = w THEN Groups(f, w) ELSE f[v]]
  <2>2. g \in [0..w -> Nat]
    BY <1>4, <2>1, Shorter DEF GroupsUpTo, Groups
  <2>3. \A v \in 0..w : g[v] = Groups(g, v)
    BY <1>4, <2>1, Shorter DEF GroupsUpTo, Groups
  <2>4. g \in GroupsUpTo(w)
    BY <2>2, <2>3 DEF GroupsUpTo
  <2>5. QED BY <1>2, <2>4
<1>5. QED BY <1>3, <1>4

\* The function the recursive definition names satisfies its recursion, and
\* every length takes a natural number of octets.
LEMMA Varints ==
    /\ VarintLen = PushVarint
    /\ PushVarint \in [Nat -> Nat]
    /\ \A n \in Nat : PushVarint[n] = Groups(PushVarint, n)
<1> DEFINE F == [n \in Nat |-> (CHOOSE f \in GroupsUpTo(n) : TRUE)[n]]
<1>1. \A n \in Nat : (CHOOSE f \in GroupsUpTo(n) : TRUE) \in GroupsUpTo(n)
  BY GroupsExist
<1>2. ASSUME NEW n \in Nat PROVE F[n] = Groups(F, n)
  <2>1. PICK f \in GroupsUpTo(n) : f = CHOOSE g \in GroupsUpTo(n) : TRUE
    BY <1>1
  <2>2. f[n] = Groups(f, n)
    <3>1. n \in 0..n
      OBVIOUS
    <3>2. QED BY <2>1, <3>1 DEF GroupsUpTo
  <2>3. n >= 128 => f[n \div 128] = F[n \div 128]
    BY <1>1, <2>1, GroupsAgree, Shorter
  <2>4. QED BY <2>1, <2>2, <2>3 DEF Groups
<1>3. F = [n \in Nat |-> Groups(F, n)]
  BY <1>2
<1> HIDE DEF F
<1>4. PushVarint = [n \in Nat |-> Groups(PushVarint, n)]
  <2>1. \E f : f = [n \in Nat |-> Groups(f, n)]
    BY <1>3
  <2>2. QED BY <2>1 DEF PushVarint, Groups
<1>5. \A n \in Nat : PushVarint[n] = Groups(PushVarint, n)
  BY <1>4
<1>6. ASSUME NEW n \in Nat PROVE PushVarint[n] \in Nat
  <2> DEFINE S == {w \in Nat : PushVarint[w] \notin Nat}
  <2>1. SUFFICES ASSUME S # {} PROVE FALSE
    OBVIOUS
  <2>2. PICK w \in S : \A m \in S : w <= m
    BY <2>1, LeastElement
  <2>3. w >= 128 => PushVarint[w \div 128] \in Nat
    BY <2>2, Shorter
  <2>4. QED BY <1>5, <2>2, <2>3 DEF Groups
<1>7. PushVarint \in [Nat -> Nat]
  BY <1>4, <1>6
<1>8. VarintLen = PushVarint
  BY DEF VarintLen, PushVarint
<1>9. QED BY <1>5, <1>7, <1>8

-----------------------------------------------------------------------------
(* Sizes.                                                                  *)

\* Tags and lengths below 128 take one octet.
LEMMA SmallVarints == \A n \in 0..127 : PushVarint[n] = 1 /\ VarintLen[n] = 1
  BY Varints DEF Groups

\* The projection of a protobuf artifact is the size of what is emitted.
LEMMA ProtoProjectionExact ==
    ASSUME NEW len \in Nat, NEW alg \in Algs,
           NEW keyid \in [present: BOOLEAN, len: Nat, escapes: Nat, newline: BOOLEAN]
    PROVE  /\ ProjectedProtoSize(len, keyid) = EmittedProtoSize(len, alg, keyid)
           /\ EmittedProtoSize(len, alg, keyid) \in Nat
<1> DEFINE body == 2 + (IF keyid.present THEN LenFieldSize(keyid.len) ELSE 0)
                     + LenFieldSize(FixedSignatureBytes)
<1>1. /\ PushTag(1, 0) = 1 /\ PushTag(1, 2) = 1 /\ PushTag(2, 2) = 1 /\ PushTag(3, 2) = 1
      /\ PushVarint[AlgWireValue(alg)] = 1
  BY SmallVarints DEF PushTag, AlgWireValue
<1>2. \A n \in Nat : VarintLen[n] \in Nat /\ PushVarint[n] = VarintLen[n]
  BY Varints
<1>3. EmittedProtoCarrier(alg, keyid) = body /\ body \in Nat
  BY <1>1, <1>2 DEF EmittedProtoCarrier, PushLenField, LenFieldSize, FixedSignatureBytes
<1>4. QED
  BY <1>1, <1>2, <1>3 DEF ProjectedProtoSize, EmittedProtoSize, PushLenField, LenFieldSize

\* The projection of a YAML artifact is the size with a plain signature and a
\* keyid without escapes, so a lower bound.
LEMMA YamlProjectionIsLower ==
    ASSUME NEW q \in Universe, q.form = "yaml", NEW plain \in BOOLEAN
    PROVE  /\ ProjectedSize(q) <= EmittedYamlSize(MessageLen(PreparedPayload(q)), q.alg, q.keyid, plain)
           /\ EmittedYamlSize(MessageLen(PreparedPayload(q)), q.alg, q.keyid, plain) \in Nat
           /\ ProjectedSize(q) \in Nat
<1>1. q.keyid.len \in Nat /\ q.keyid.escapes \in Nat /\ q.payload.len \in Nat
      /\ q.keyid.present \in BOOLEAN /\ q.payload.lf \in BOOLEAN /\ q.append \in BOOLEAN
  BY UniverseAssumption DEF IsRequest
<1>2. SignatureTextLen \in Nat /\ AlgNameLen(q.alg) \in Nat /\ SchemaLen \in Nat
  BY DEF SignatureTextLen, FixedSignatureBytes, AlgNameLen, SchemaLen
<1>3. /\ ProjectedSize(q) = YamlLowerBound(q.payload, q.append, q.alg, q.keyid)
      /\ MessageLen(PreparedPayload(q))
           = q.payload.len + (IF q.payload.len > 0 /\ ~q.payload.lf /\ q.append THEN 1 ELSE 0)
  BY <1>1 DEF ProjectedSize, MessageLen, PreparedPayload, Message, AppendsNewline
<1>4. QED
  BY <1>1, <1>2, <1>3 DEF YamlLowerBound, EmittedYamlSize, EmittedYamlCarrier, QuotedLen

\* What is emitted is never smaller than projected, and no larger in protobuf.
LEMMA ProjectionIsRight ==
    ASSUME NEW q \in Universe, NEW sig, sig.plain \in BOOLEAN
    PROVE  /\ ProjectedSize(q) \in Nat /\ EmittedSize(q, PreparedPayload(q), sig) \in Nat
           /\ ProjectedSize(q) <= EmittedSize(q, PreparedPayload(q), sig)
           /\ q.form = "proto" => ProjectedSize(q) = EmittedSize(q, PreparedPayload(q), sig)
<1>1. CASE q.form = "yaml"
  BY <1>1, YamlProjectionIsLower DEF EmittedSize
<1>2. CASE q.form = "proto"
  <2>1. MessageLen(PreparedPayload(q)) = q.payload.len /\ q.payload.len \in Nat /\ q.alg \in Algs
    <3>1. q.payload.len \in Nat /\ q.alg \in Algs
      BY UniverseAssumption DEF IsRequest
    <3>2. ~AppendsNewline(q)
      BY <1>2 DEF AppendsNewline
    <3>3. PreparedPayload(q) = [payload |-> q.payload, appended |-> FALSE]
      BY <3>2 DEF PreparedPayload, Message, AppendsNewline
    <3>4. QED BY <3>1, <3>3 DEF MessageLen
  <2>2. ProjectedProtoSize(q.payload.len, q.keyid) = EmittedProtoSize(q.payload.len, q.alg, q.keyid)
        /\ EmittedProtoSize(q.payload.len, q.alg, q.keyid) \in Nat
    BY <2>1, ProtoProjectionExact, UniverseAssumption DEF IsRequest
  <2>3. QED BY <1>2, <2>1, <2>2 DEF EmittedSize, ProjectedSize
<1>3. QED BY <1>1, <1>2, UniverseAssumption DEF IsRequest, Forms

-----------------------------------------------------------------------------
(* Admission.                                                              *)

FailsWith(checks, kinds) ==
    \E i \in DOMAIN checks : checks[i].fails /\ checks[i].kind \in kinds

LEMMA FailsInEither ==
    ASSUME NEW s \in Seq(Checks), NEW t \in Seq(Checks), NEW K
    PROVE  /\ s \o t \in Seq(Checks)
           /\ FailsWith(s \o t, K) <=> FailsWith(s, K) \/ FailsWith(t, K)
<1>1. /\ s \o t \in Seq(Checks) /\ Len(s \o t) = Len(s) + Len(t)
      /\ \A i \in 1..Len(s) : (s \o t)[i] = s[i]
      /\ \A i \in 1..Len(t) : (s \o t)[Len(s) + i] = t[i]
      /\ Len(s) \in Nat /\ Len(t) \in Nat
  OBVIOUS
<1>2. ASSUME FailsWith(s, K) \/ FailsWith(t, K)
      PROVE  FailsWith(s \o t, K)
  <2>1. CASE FailsWith(s, K)
    BY <1>1, <2>1 DEF FailsWith
  <2>2. CASE FailsWith(t, K)
    <3>1. PICK i \in 1..Len(t) : t[i].fails /\ t[i].kind \in K
      BY <2>2 DEF FailsWith
    <3>2. Len(s) + i \in 1..Len(s \o t) /\ (s \o t)[Len(s) + i] = t[i]
      BY <1>1
    <3>3. QED BY <1>1, <3>1, <3>2 DEF FailsWith
  <2>3. QED BY <1>2, <2>1, <2>2
<1>3. ASSUME FailsWith(s \o t, K)
      PROVE  FailsWith(s, K) \/ FailsWith(t, K)
  <2>1. PICK i \in 1..Len(s \o t) : (s \o t)[i].fails /\ (s \o t)[i].kind \in K
    BY <1>1, <1>3 DEF FailsWith
  <2>2. CASE i <= Len(s)
    BY <1>1, <2>1, <2>2 DEF FailsWith
  <2>3. CASE i > Len(s)
    <3>1. i - Len(s) \in 1..Len(t) /\ Len(s) + (i - Len(s)) = i
      BY <1>1, <2>3
    <3>2. (s \o t)[i] = t[i - Len(s)]
      BY <1>1, <3>1
    <3>3. QED BY <2>1, <3>1, <3>2 DEF FailsWith
  <2>4. QED BY <1>1, <2>2, <2>3
<1>4. QED BY <1>1, <1>2, <1>3

\* A request fails admission where one of its parts does.
Defective(q, K) ==
    \/ FailsWith(ParameterChecks(q), K) \/ FailsWith(KeyAlgorithmCheck(q), K)
    \/ FailsWith(BoundKeyCheck(q), K) \/ FailsWith(KeyidContentCheck(q), K)
    \/ FailsWith(PreparationChecks(q), K)

LEMMA AdmissionFails ==
    ASSUME NEW q, IsRequest(q), NEW K
    PROVE  FailsWith(Admission(q), K) <=>
             Defective(q, K) \/ (q.bounded /\ FailsWith(Preflight(q), K))
<1> DEFINE P == ParameterChecks(q)  A == KeyAlgorithmCheck(q)  B == BoundKeyCheck(q)
           F == Preflight(q)  C == KeyidContentCheck(q)  R == PreparationChecks(q)
<1>1. /\ P \in Seq(Checks) /\ A \in Seq(Checks) /\ B \in Seq(Checks)
      /\ F \in Seq(Checks) /\ C \in Seq(Checks) /\ R \in Seq(Checks)
  BY PartsAreChecks
<1>2. Admission(q) = IF q.bounded THEN P \o A \o B \o F \o C \o R ELSE P \o C \o A \o B \o R
  BY DEF Admission
<1>3. /\ Defective(q, K) <=> FailsWith(P, K) \/ FailsWith(A, K) \/ FailsWith(B, K)
                              \/ FailsWith(C, K) \/ FailsWith(R, K)
      /\ FailsWith(Preflight(q), K) <=> FailsWith(F, K)
  BY DEF Defective
<1> HIDE DEF P, A, B, F, C, R
<1>4. FailsWith(P \o A \o B \o F \o C \o R, K) <=>
        FailsWith(P, K) \/ FailsWith(A, K) \/ FailsWith(B, K)
          \/ FailsWith(F, K) \/ FailsWith(C, K) \/ FailsWith(R, K)
  <2>1. P \o A \in Seq(Checks)
        /\ (FailsWith(P \o A, K) <=> FailsWith(P, K) \/ FailsWith(A, K))
    BY <1>1, FailsInEither
  <2>2. (P \o A) \o B \in Seq(Checks)
        /\ (FailsWith((P \o A) \o B, K) <=> FailsWith(P \o A, K) \/ FailsWith(B, K))
    BY <1>1, <2>1, FailsInEither
  <2>3. ((P \o A) \o B) \o F \in Seq(Checks)
        /\ (FailsWith(((P \o A) \o B) \o F, K) <=> FailsWith((P \o A) \o B, K) \/ FailsWith(F, K))
    BY <1>1, <2>2, FailsInEither
  <2>4. (((P \o A) \o B) \o F) \o C \in Seq(Checks)
        /\ (FailsWith((((P \o A) \o B) \o F) \o C, K) <=>
              FailsWith(((P \o A) \o B) \o F, K) \/ FailsWith(C, K))
    BY <1>1, <2>3, FailsInEither
  <2>5. FailsWith(((((P \o A) \o B) \o F) \o C) \o R, K) <=>
          FailsWith((((P \o A) \o B) \o F) \o C, K) \/ FailsWith(R, K)
    BY <1>1, <2>4, FailsInEither
  <2>6. QED BY <2>1, <2>2, <2>3, <2>4, <2>5
<1>5. FailsWith(P \o C \o A \o B \o R, K) <=>
        FailsWith(P, K) \/ FailsWith(C, K) \/ FailsWith(A, K) \/ FailsWith(B, K) \/ FailsWith(R, K)
  <2>1. P \o C \in Seq(Checks)
        /\ (FailsWith(P \o C, K) <=> FailsWith(P, K) \/ FailsWith(C, K))
    BY <1>1, FailsInEither
  <2>2. (P \o C) \o A \in Seq(Checks)
        /\ (FailsWith((P \o C) \o A, K) <=> FailsWith(P \o C, K) \/ FailsWith(A, K))
    BY <1>1, <2>1, FailsInEither
  <2>3. ((P \o C) \o A) \o B \in Seq(Checks)
        /\ (FailsWith(((P \o C) \o A) \o B, K) <=> FailsWith((P \o C) \o A, K) \/ FailsWith(B, K))
    BY <1>1, <2>2, FailsInEither
  <2>4. FailsWith((((P \o C) \o A) \o B) \o R, K) <=>
          FailsWith(((P \o C) \o A) \o B, K) \/ FailsWith(R, K)
    BY <1>1, <2>3, FailsInEither
  <2>5. QED BY <2>1, <2>2, <2>3, <2>4
<1>6. CASE q.bounded
  BY <1>2, <1>3, <1>4, <1>6
<1>7. CASE ~q.bounded
  BY <1>2, <1>3, <1>5, <1>7
<1>8. QED BY <1>6, <1>7

LEMMA AdmittedMeans ==
    ASSUME NEW q, IsRequest(q)
    PROVE  Admitted(q) <=> ~FailsWith(Admission(q), Refusals)
<1>1. Admission(q) \in Seq(Checks)
  BY AdmissionIsAboutRefusals
<1>2. ASSUME NEW i \in DOMAIN Admission(q) PROVE Admission(q)[i].kind \in Refusals
  <2>1. Admission(q)[i] \in Checks
    BY <1>1
  <2>2. QED BY <2>1 DEF Checks
<1>3. QED BY <1>2 DEF Admitted, FailsWith

\* The preflight refuses exactly what is projected too large; it is the only
\* part that speaks of resources or encoding.
LEMMA PartsSay ==
    ASSUME NEW q, IsRequest(q)
    PROVE  /\ FailsWith(Preflight(q), {"resource"}) <=> TooLarge(ProjectedSize(q), q)
           /\ ~FailsWith(Preflight(q), Refusals) =>
                /\ ~TooLarge(ProjectedSize(q), q)
                /\ q.form = "proto" => ~(ProjectedSize(q) > MaxMessageBytes)
           /\ ~FailsWith(Preflight(q), {"invocation", "signer"})
           /\ ~Defective(q, {"resource"})
           /\ Defective(q, {"invocation", "signer"}) => Defective(q, Refusals)
<1>1. /\ FailsWith(Preflight(q), {"resource"}) <=> TooLarge(ProjectedSize(q), q)
      /\ ~FailsWith(Preflight(q), {"invocation", "signer"})
      /\ ~FailsWith(Preflight(q), Refusals) =>
            /\ ~TooLarge(ProjectedSize(q), q)
            /\ q.form = "proto" => ~(ProjectedSize(q) > MaxMessageBytes)
  <2> DEFINE a == TooLarge(ProjectedSize(q), q)
             b == q.form = "proto" /\ ProjectedSize(q) > MaxMessageBytes
  <2>1. Preflight(q) = << [fails |-> a, kind |-> "resource", error |-> "OutputArtifactTooLarge"],
                          [fails |-> b, kind |-> "encode", error |-> "MessageTooLarge"] >>
    BY DEF Preflight, Check
  <2> HIDE DEF a, b
  <2>2. \A K : FailsWith(Preflight(q), K) <=> (a /\ "resource" \in K) \/ (b /\ "encode" \in K)
    BY <2>1 DEF FailsWith
  <2>3. /\ FailsWith(Preflight(q), {"resource"}) <=> a
        /\ ~FailsWith(Preflight(q), {"invocation", "signer"})
        /\ ~FailsWith(Preflight(q), Refusals) => ~a /\ ~b
    BY <2>2 DEF Refusals
  <2>4. QED BY <2>3 DEF a, b
<1>2. ~Defective(q, {"resource"})
  <2>1. ~FailsWith(ParameterChecks(q), {"resource"})
    <3> DEFINE a == q.form \notin Forms
               b == q.alg \notin Algs
               c == q.keyid.present /\ q.keyid.len \notin 1..1024
    <3>1. ParameterChecks(q) =
            << [fails |-> a, kind |-> "invocation", error |-> "InvalidOrUnsupportedOutputForm"],
               [fails |-> b, kind |-> "invocation", error |-> "InvalidOrUnsupportedAlgorithm"],
               [fails |-> q.params, kind |-> "invocation", error |-> "InvalidAlgorithmParameters"],
               [fails |-> c, kind |-> "invocation", error |-> "InvalidKeyid"] >>
      BY DEF ParameterChecks, Check
    <3> HIDE DEF a, b, c
    <3>2. QED BY <3>1 DEF FailsWith
  <2>2. ~FailsWith(KeyAlgorithmCheck(q), {"resource"})
    BY DEF FailsWith, KeyAlgorithmCheck, Check
  <2>3. ~FailsWith(BoundKeyCheck(q), {"resource"})
    BY DEF FailsWith, BoundKeyCheck, Check
  <2>4. ~FailsWith(KeyidContentCheck(q), {"resource"})
    BY DEF FailsWith, KeyidContentCheck, Check
  <2>5. ~FailsWith(PreparationChecks(q), {"resource"})
    BY DEF FailsWith, PreparationChecks, Check
  <2>6. QED BY <2>1, <2>2, <2>3, <2>4, <2>5 DEF Defective
<1>3. \A s : FailsWith(s, {"invocation", "signer"}) => FailsWith(s, Refusals)
  BY DEF FailsWith, Refusals
<1>4. Defective(q, {"invocation", "signer"}) => Defective(q, Refusals)
  BY <1>3 DEF Defective
<1>5. QED BY <1>1, <1>2, <1>4

Unbounded(q) == [q EXCEPT !.bounded = FALSE]

\* Without limits a request has the same defects and no preflight.
LEMMA UnboundedAdmission ==
    ASSUME NEW q \in Universe
    PROVE  Admitted(Unbounded(q)) <=> ~Defective(q, Refusals)
<1> DEFINE u == Unbounded(q)
<1>1. /\ IsRequest(u) /\ ~u.bounded
      /\ u.api = q.api /\ u.form = q.form /\ u.alg = q.alg /\ u.variant = q.variant
      /\ u.boundAlg = q.boundAlg /\ u.params = q.params /\ u.append = q.append
      /\ u.keyid = q.keyid /\ u.payload = q.payload
  BY UniverseAssumption DEF Unbounded, IsRequest
<1> HIDE DEF u
<1>2. /\ ParameterChecks(u) = ParameterChecks(q)
      /\ KeyAlgorithmCheck(u) = KeyAlgorithmCheck(q)
      /\ BoundKeyCheck(u) = BoundKeyCheck(q)
      /\ KeyidContentCheck(u) = KeyidContentCheck(q)
  BY <1>1 DEF ParameterChecks, KeyAlgorithmCheck, BoundKeyCheck, KeyidContentCheck
<1>3. PreparationChecks(u) = PreparationChecks(q)
  <2>1. PreparedPayload(u) = PreparedPayload(q)
    BY <1>1 DEF PreparedPayload, AppendsNewline
  <2>2. QED BY <1>1, <2>1 DEF PreparationChecks
<1>4. Defective(u, Refusals) <=> Defective(q, Refusals)
  BY <1>2, <1>3 DEF Defective
<1>5. QED BY <1>1, <1>4, AdmissionFails, AdmittedMeans DEF u

-----------------------------------------------------------------------------
(* What ceilings do.  An operation that prepared or submitted anything was *)
(* admitted, and one that is done was refused by a check, failed for want  *)
(* of a signature, or finished with one.                                   *)

RefusedByCheck(r) ==
    /\ prepared[r] = <<>> /\ received[r] = <<>>
    /\ outcome[r].kind # "success"
    /\ FailsWith(Admission(request[r]), {outcome[r].kind})

Finished(r) ==
    \E sig \in Signatures(Messages) :
        outcome[r] = FinishSigning(request[r], PreparedPayload(request[r]), sig)

SizeInv ==
    \A r \in Requests :
        /\ prepared[r] # <<>> \/ received[r] # <<>> => Admitted(request[r])
        /\ prepared[r] # <<>> => prepared[r] = <<PreparedPayload(request[r])>>
        /\ Done(r) => \/ RefusedByCheck(r)
                      \/ prepared[r] # <<>> /\ (outcome[r].kind = "signer" \/ Finished(r))

LEMMA InitSizes == Init => SizeInv
  BY DEF Init, SizeInv, Done

LEMMA NextSizes == Inv /\ SizeInv /\ [Next]_vars => SizeInv'
<1> SUFFICES ASSUME Inv, SizeInv, [Next]_vars, NEW s \in Requests
             PROVE  (/\ prepared[s] # <<>> \/ received[s] # <<>> => Admitted(request[s])
                     /\ prepared[s] # <<>> => prepared[s] = <<PreparedPayload(request[s])>>
                     /\ Done(s) => \/ RefusedByCheck(s)
                                   \/ prepared[s] # <<>> /\ (outcome[s].kind = "signer" \/ Finished(s)))'
  BY DEF SizeInv
<1> DEFINE G == (/\ prepared[s] # <<>> \/ received[s] # <<>> => Admitted(request[s])
                 /\ prepared[s] # <<>> => prepared[s] = <<PreparedPayload(request[s])>>
                 /\ Done(s) => \/ RefusedByCheck(s)
                               \/ prepared[s] # <<>> /\ (outcome[s].kind = "signer" \/ Finished(s)))'
<1> SUFFICES G
  OBVIOUS
<1>0. ASSUME phase'[s] = phase[s], request'[s] = request[s], prepared'[s] = prepared[s],
             received'[s] = received[s], outcome'[s] = outcome[s]
      PROVE  G
  BY <1>0 DEF SizeInv, Done, RefusedByCheck, Finished
<1>1. ASSUME NEW r \in Requests, NEW q \in Universe, Refuse(r, q)
      PROVE  G
  <2>1. CASE s = r
    <3>1. PICK i \in DOMAIN Admission(q) :
            /\ IsFirstFailure(q, i)
            /\ outcome' = [outcome EXCEPT ![r] = Ended(Admission(q)[i].kind, Admission(q)[i].error)]
      BY <1>1 DEF Refuse
    <3>2. Admission(q)[i] \in Checks
      BY AdmissionIsAboutRefusals, UniverseAssumption
    <3>3. /\ request'[s] = q /\ phase[s] = "idle" /\ phase'[s] = "done"
          /\ outcome'[s] = Ended(Admission(q)[i].kind, Admission(q)[i].error)
          /\ prepared'[s] = <<>> /\ received'[s] = <<>>
      BY <1>1, <2>1, <3>1 DEF Refuse, Inv, Operation, TypeOK
    <3>4. outcome'[s].kind = Admission(q)[i].kind /\ outcome'[s].kind # "success"
      BY <3>2, <3>3 DEF Ended, Checks, Refusals
    <3>5. FailsWith(Admission(q), {outcome'[s].kind})
      BY <3>1, <3>4 DEF FailsWith, IsFirstFailure
    <3>6. RefusedByCheck(s)'
      BY <3>3, <3>4, <3>5 DEF RefusedByCheck
    <3>7. QED BY <3>3, <3>6
  <2>2. CASE s # r
    BY <1>0, <1>1, <2>2 DEF Refuse, Inv, TypeOK
  <2>3. QED BY <2>1, <2>2
<1>2. ASSUME NEW r \in Requests, NEW q \in Universe, SignNatively(r, q)
      PROVE  G
  <2>1. CASE s = r
    <3> DEFINE m == PreparedPayload(q)
               Sig(plain) == [key |-> q.key, message |-> m, wellFormed |-> TRUE, plain |-> plain]
    <3>1. /\ request'[s] = q /\ Admitted(q) /\ phase'[s] = "done"
          /\ prepared'[s] = <<m>> /\ received'[s] = <<>>
          /\ \/ \E plain \in BOOLEAN : outcome'[s] = FinishSigning(q, m, Sig(plain))
             \/ outcome'[s] = Ended("signer", "KeyOperationFailure")
      BY <1>2, <2>1 DEF SignNatively, Inv, Operation, TypeOK
    <3>2. \A plain \in BOOLEAN : Sig(plain) \in Signatures(Messages)
      BY PreparationType, UniverseAssumption DEF Signatures, IsRequest
    <3> HIDE DEF m, Sig
    <3>3. outcome'[s].kind = "signer" \/ Finished(s)'
      BY <3>1, <3>2 DEF Finished, Ended, m
    <3>4. QED BY <3>1, <3>3 DEF m
  <2>2. CASE s # r
    BY <1>0, <1>2, <2>2 DEF SignNatively, Inv, TypeOK
  <2>3. QED BY <2>1, <2>2
<1>3. ASSUME NEW r \in Requests, NEW q \in Universe, CallProvider(r, q)
      PROVE  G
  <2>1. CASE s = r
    <3>1. /\ request'[s] = q /\ Admitted(q) /\ phase'[s] = "waiting"
          /\ prepared'[s] = <<PreparedPayload(q)>>
      BY <1>3, <2>1 DEF CallProvider, Inv, TypeOK
    <3>2. QED BY <3>1 DEF Done
  <2>2. CASE s # r
    BY <1>0, <1>3, <2>2 DEF CallProvider, Inv, TypeOK
  <2>3. QED BY <2>1, <2>2
<1>4. ASSUME NEW r \in Requests, Resume(r)
      PROVE  G
  <2>1. CASE s = r
    <3> DEFINE q == request[s]
               m == PreparedPayload(q)
               answer == reply[s][1]
    <3>1. /\ phase[s] = "waiting" /\ prepared[s] # <<>> /\ reply[s] # <<>>
          /\ prepared[s] = <<PreparedPayload(request[s])>>
          /\ Admitted(request[s])
      BY <1>4, <2>1 DEF Resume, Inv, TypeOK, SizeInv
    <3>2. /\ UNCHANGED <<request, prepared, received>> /\ phase'[s] = "done"
          /\ outcome'[s] = AfterProvider(q, m, answer)
      BY <1>4, <2>1, <3>1 DEF Resume, Inv, TypeOK
    <3>3. /\ answer.failed \in BOOLEAN
          /\ ~answer.failed => answer.signature \in Signatures(Messages)
      <4>1. reply[s] \in {<<Signed(x)>> : x \in Signatures(Messages)}
                          \cup {<<Failed(e)>> : e \in UNION {ProviderErrors(api) : api \in Apis}}
        BY <3>1 DEF Inv, TypeOK
      <4>2. CASE \E x \in Signatures(Messages) : answer = Signed(x)
        BY <4>2 DEF Signed
      <4>3. CASE \E e : answer = Failed(e)
        BY <4>3 DEF Failed
      <4>4. QED BY <4>1, <4>2, <4>3
    <3> HIDE DEF m, answer
    <3>4. \/ outcome'[s].kind = "signer"
          \/ ~answer.failed /\ outcome'[s] = FinishSigning(q, m, answer.signature)
      BY <3>2, <3>3 DEF AfterProvider, Ended
    <3>5. outcome'[s].kind = "signer" \/ Finished(s)'
      BY <3>2, <3>3, <3>4 DEF Finished, m
    <3>6. QED BY <3>1, <3>2, <3>5
  <2>2. CASE s # r
    BY <1>0, <1>4, <2>2 DEF Resume, Inv, TypeOK
  <2>3. QED BY <2>1, <2>2
<1>5. ASSUME NEW r \in Requests, DropFuture(r)
      PROVE  G
  <2>1. CASE s = r
    BY <1>5, <2>1 DEF DropFuture, Inv, TypeOK, Phases, SizeInv, Done
  <2>2. CASE s # r
    BY <1>0, <1>5, <2>2 DEF DropFuture, Inv, TypeOK
  <2>3. QED BY <2>1, <2>2
<1>6. ASSUME NEW r \in Requests, ServiceAnswers(r)
      PROVE  G
  BY <1>0, <1>6 DEF ServiceAnswers
<1>7. CASE RotateKey
  BY <1>0, <1>7 DEF RotateKey
<1>8. CASE UNCHANGED vars
  BY <1>0, <1>8 DEF vars
<1>9. QED
  <2> HIDE DEF G
  <2>1. QED BY <1>1, <1>2, <1>3, <1>4, <1>5, <1>6, <1>7, <1>8 DEF Next

THEOREM SizesHold == Spec => []SizeInv
<1>1. QED BY InvHolds, InitSizes, NextSizes, PTL DEF Spec

\* What a finished operation says of sizes.
LEMMA FinishedSizes ==
    ASSUME NEW q \in Universe, NEW m, NEW sig
    PROVE  /\ FinishSigning(q, m, sig).kind = "success" =>
                /\ FinishSigning(q, m, sig).artifact.size = EmittedSize(q, m, sig)
                /\ q.form = "yaml" /\ q.bounded => ~TooLarge(EmittedSize(q, m, sig), q)
           /\ FinishSigning(q, m, sig).kind # "success" =>
                /\ FinishSigning(q, m, sig).kind = "resource"
                /\ q.form = "yaml" /\ TooLarge(EmittedSize(q, m, sig), q)
  BY DEF FinishSigning, Ended, Artifact

LEMMA OnlyPlainCounts ==
    \A q, m, sig : EmittedSize(q, m, sig) = EmittedSize(q, m, [plain |-> sig.plain])
  BY DEF EmittedSize

\* Every part of the property follows from the invariant.
LEMMA LimitsFromInv ==
    ASSUME Inv, SizeInv
    PROVE  LimitsAreExact
<1>1. ASSUME NEW r \in Requests, phase[r] # "idle"
      PROVE  /\ request[r] \in Universe /\ IsRequest(request[r])
             /\ request[r].max \in Nat /\ request[r].bounded \in BOOLEAN
             /\ request[r].form \in {"yaml", "proto"}
  BY <1>1, UniverseAssumption DEF Inv, TypeOK, IsRequest, Forms
<1>2. ASSUME NEW r \in Requests, phase[r] # "idle", Admitted(request[r])
      PROVE  /\ ~Defective(request[r], Refusals)
             /\ request[r].bounded =>
                  /\ ~TooLarge(ProjectedSize(request[r]), request[r])
                  /\ request[r].form = "proto" => ~(ProjectedSize(request[r]) > MaxMessageBytes)
  BY <1>1, <1>2, AdmittedMeans, AdmissionFails, PartsSay
<1>3. ASSUME NEW r \in Requests, Called(r) \/ prepared[r] # <<>>
      PROVE  phase[r] # "idle" /\ Admitted(request[r])
  BY <1>3 DEF Inv, Operation, SizeInv, Called
<1>4. ASSUME NEW r \in Requests, Done(r), prepared[r] # <<>>, outcome[r].kind # "signer"
      PROVE  \E sig \in Signatures(Messages) :
                /\ outcome[r] = FinishSigning(request[r], PreparedPayload(request[r]), sig)
                /\ sig.plain \in BOOLEAN
  BY <1>4 DEF SizeInv, RefusedByCheck, Finished, Signatures
<1>5. ASSUME NEW q \in Universe, NEW a \in Nat, NEW b \in Nat, a <= b, TooLarge(a, q)
      PROVE  TooLarge(b, q)
  BY <1>5, UniverseAssumption DEF TooLarge, IsRequest
<1>6. BoundedOutputFits
  <2> SUFFICES ASSUME NEW r \in Requests, Succeeded(r), request[r].bounded
               PROVE  /\ ~TooLarge(outcome[r].artifact.size, request[r])
                      /\ request[r].form = "proto" => outcome[r].artifact.size <= MaxMessageBytes
    BY DEF BoundedOutputFits
  <2> DEFINE q == request[r]
             m == PreparedPayload(q)
  <2>1. Done(r) /\ phase[r] # "idle" /\ outcome[r].kind = "success" /\ prepared[r] # <<>>
    BY DEF Succeeded, Done, SizeInv, RefusedByCheck
  <2>2. PICK sig \in Signatures(Messages) :
            outcome[r] = FinishSigning(q, m, sig) /\ sig.plain \in BOOLEAN
    BY <1>4, <2>1
  <2>3. q \in Universe /\ q.form \in {"yaml", "proto"}
    BY <1>1, <2>1
  <2>4. Admitted(q)
    BY <1>3, <2>1
  <2>5. ~TooLarge(ProjectedSize(q), q) /\ (q.form = "proto" => ~(ProjectedSize(q) > MaxMessageBytes))
    BY <1>2, <2>1, <2>4
  <2> HIDE DEF q, m
  <2>6. /\ outcome[r].artifact.size = EmittedSize(q, m, sig)
        /\ q.form = "yaml" /\ q.bounded => ~TooLarge(EmittedSize(q, m, sig), q)
    BY <2>1, <2>2, <2>3, FinishedSizes
  <2>7. ProjectedSize(q) \in Nat /\ (q.form = "proto" => ProjectedSize(q) = EmittedSize(q, m, sig))
    BY <2>2, <2>3, ProjectionIsRight DEF m
  <2>8. CASE q.form = "yaml"
    BY <2>6, <2>8 DEF q
  <2>9. CASE q.form = "proto"
    BY <2>5, <2>6, <2>7, <2>9, BoundsAssumption DEF q
  <2>10. QED BY <2>3, <2>8, <2>9
<1>7. NoFalseSizeRefusal
  <2> SUFFICES ASSUME NEW r \in Requests, Done(r), outcome[r].kind = "resource"
               PROVE  IF Called(r) \/ prepared[r] # <<>>
                      THEN \E plain \in BOOLEAN :
                             TooLarge(EmittedSize(request[r], PreparedPayload(request[r]), [plain |-> plain]), request[r])
                      ELSE \A plain \in BOOLEAN :
                             TooLarge(EmittedSize(request[r], PreparedPayload(request[r]), [plain |-> plain]), request[r])
    BY DEF NoFalseSizeRefusal
  <2> DEFINE q == request[r]
             m == PreparedPayload(q)
  <2>1. phase[r] # "idle" /\ q \in Universe /\ IsRequest(q)
    BY <1>1 DEF Done
  <2>2. CASE prepared[r] # <<>>
    <3>1. PICK sig \in Signatures(Messages) :
              outcome[r] = FinishSigning(q, m, sig) /\ sig.plain \in BOOLEAN
      BY <1>4, <2>2
    <3>2. TooLarge(EmittedSize(q, m, sig), q)
      <4> HIDE DEF q, m
      <4>1. QED BY <2>1, <3>1, FinishedSizes
    <3>3. TooLarge(EmittedSize(q, m, [plain |-> sig.plain]), q)
      BY <3>2, OnlyPlainCounts
    <3>4. QED BY <2>2, <3>1, <3>3
  <2>3. CASE prepared[r] = <<>>
    <3>1. RefusedByCheck(r)
      BY <2>3 DEF SizeInv
    <3>2. FailsWith(Admission(q), {"resource"}) /\ ~Called(r)
      BY <3>1 DEF RefusedByCheck, Called
    <3>3. TooLarge(ProjectedSize(q), q)
      BY <2>1, <3>2, AdmissionFails, PartsSay
    <3>4. ASSUME NEW plain \in BOOLEAN
          PROVE  TooLarge(EmittedSize(q, m, [plain |-> plain]), q)
      <4>1. [plain |-> plain].plain \in BOOLEAN
        OBVIOUS
      <4>2. /\ ProjectedSize(q) \in Nat /\ EmittedSize(q, m, [plain |-> plain]) \in Nat
            /\ ProjectedSize(q) <= EmittedSize(q, m, [plain |-> plain])
        BY <2>1, <4>1, ProjectionIsRight
      <4> HIDE DEF q, m
      <4>3. QED BY <1>5, <2>1, <3>3, <4>2
    <3>5. QED BY <2>3, <3>2, <3>4
  <2>4. QED BY <2>2, <2>3
<1>8. SizeVerdictBeforeSigning
  <2> SUFFICES ASSUME NEW r \in Requests, Called(r), request[r].bounded
               PROVE  /\ ~TooLarge(ProjectedSize(request[r]), request[r])
                      /\ request[r].form = "proto" => outcome[r].kind \notin {"resource", "encode"}
    BY DEF SizeVerdictBeforeSigning
  <2>1. phase[r] # "idle" /\ Admitted(request[r])
    BY <1>3
  <2>2. ~TooLarge(ProjectedSize(request[r]), request[r]) /\ request[r] \in Universe
    BY <1>1, <1>2, <2>1
  <2>3. CASE ~Done(r)
    BY <2>2, <2>3 DEF Inv, Operation, Done, Unfinished, Ended
  <2>4. CASE Done(r) /\ outcome[r].kind = "signer"
    BY <2>2, <2>4
  <2>5. CASE Done(r) /\ outcome[r].kind # "signer"
    <3>1. prepared[r] # <<>>
      BY <2>5 DEF SizeInv, RefusedByCheck, Called
    <3>2. PICK sig : outcome[r] = FinishSigning(request[r], PreparedPayload(request[r]), sig)
      BY <1>4, <2>5, <3>1
    <3>3. outcome[r].kind # "success" => outcome[r].kind = "resource" /\ request[r].form = "yaml"
      BY <2>2, <3>2, FinishedSizes
    <3>4. QED BY <2>2, <3>3
  <2>6. QED BY <2>3, <2>4, <2>5
<1>9. LimitsOnlyAddSizeRefusals
  <2> SUFFICES ASSUME NEW r \in Requests, phase[r] # "idle", request[r].bounded
               PROVE  /\ prepared[r] # <<>> => Admitted(Unbounded(request[r]))
                      /\ (Done(r) /\ prepared[r] = <<>> /\ outcome[r].kind \in {"invocation", "signer"}
                            => ~Admitted(Unbounded(request[r])))
    BY DEF LimitsOnlyAddSizeRefusals, Unbounded
  <2>1. request[r] \in Universe /\ IsRequest(request[r])
    BY <1>1
  <2>2. Admitted(Unbounded(request[r])) <=> ~Defective(request[r], Refusals)
    BY <2>1, UnboundedAdmission
  <2>3. ASSUME prepared[r] # <<>>
        PROVE  Admitted(Unbounded(request[r]))
    BY <1>2, <1>3, <2>2, <2>3
  <2>4. ASSUME Done(r), prepared[r] = <<>>, outcome[r].kind \in {"invocation", "signer"}
        PROVE  ~Admitted(Unbounded(request[r]))
    <3>1. FailsWith(Admission(request[r]), {outcome[r].kind})
      BY <2>4 DEF SizeInv, RefusedByCheck
    <3>2. FailsWith(Admission(request[r]), {"invocation", "signer"})
      BY <2>4, <3>1 DEF FailsWith
    <3>3. Defective(request[r], {"invocation", "signer"})
      BY <2>1, <3>2, AdmissionFails, PartsSay
    <3>4. QED BY <2>1, <2>2, <3>3, PartsSay
  <2>5. QED BY <2>3, <2>4
<1>10. QED BY <1>6, <1>7, <1>8, <1>9 DEF LimitsAreExact

\* A ceiling bounds what is emitted, refuses only what cannot fit, refuses it
\* before signing where that is decidable, and changes no other verdict: for
\* payloads, keyids and ceilings of every size.
THEOREM LimitsExact == Spec => []LimitsAreExact
<1>1. QED BY InvHolds, SizesHold, LimitsFromInv, PTL

-----------------------------------------------------------------------------
(* The contract.                                                           *)

\* An operation no step concerns looks the same to the contract.
LEMMA Bystander ==
    ASSUME NEW s \in Requests,
           phase'[s] = phase[s], request'[s] = request[s], prepared'[s] = prepared[s],
           received'[s] = received[s], outcome'[s] = outcome[s]
    PROVE  /\ StageOf(s)' = StageOf(s)
           /\ TermsOf(s)' = TermsOf(s)
           /\ MessageOf(s)' = MessageOf(s)
           /\ ArtifactOf(s)' = ArtifactOf(s)
  BY DEF StageOf, TermsOf, MessageOf, ArtifactOf, Succeeded, Done, Called

LEMMA InitContract == Init => Promised!Init
  BY DEF Init, Promised!Init, Promised!None, StageOf, TermsOf, MessageOf, ArtifactOf,
         Succeeded, Done, Called, Unfinished, Ended, NoArtifact

LEMMA StepContract == Inv /\ Inv' /\ [Next]_vars => [Promised!Next]_(Promised!vars)
<1> SUFFICES ASSUME Inv, Inv', [Next]_vars
             PROVE  Promised!Next \/ UNCHANGED Promised!vars
  OBVIOUS
<1>1. ASSUME NEW r \in Requests, NEW q \in Universe, Refuse(r, q)
      PROVE  Promised!Next
  <2> DEFINE t == [checked |-> q.qualified \/ q.api = "native", signer |-> q.key]
  <2>1. t \in Promised!Terms
    BY UniverseAssumption DEF IsRequest, Promised!Terms
  <2>2. PICK i \in DOMAIN Admission(q) :
            outcome' = [outcome EXCEPT ![r] = Ended(Admission(q)[i].kind, Admission(q)[i].error)]
    BY <1>1 DEF Refuse
  <2>3. Admission(q)[i].kind # "success"
    <3>1. Admission(q)[i] \in Checks
      BY AdmissionIsAboutRefusals, UniverseAssumption
    <3>2. QED BY <3>1 DEF Checks, Refusals
  <2>4. /\ phase[r] = "idle" /\ phase'[r] = "done" /\ request'[r] = q
        /\ received[r] = <<>> /\ prepared[r] = <<>> /\ outcome[r] = Unfinished
        /\ outcome'[r] = Ended(Admission(q)[i].kind, Admission(q)[i].error)
        /\ UNCHANGED <<prepared, received>>
    BY <1>1, <2>2 DEF Refuse, Inv, Operation, TypeOK
  <2>5. /\ StageOf(r) = "new" /\ StageOf(r)' = "refused" /\ TermsOf(r)' = t
        /\ MessageOf(r)' = MessageOf(r) /\ ArtifactOf(r)' = ArtifactOf(r)
    BY <2>3, <2>4
       DEF StageOf, TermsOf, MessageOf, ArtifactOf, Succeeded, Done, Called, Ended, Unfinished,
           NoArtifact
  <2>6. ASSUME NEW s \in Requests, s # r
        PROVE  /\ StageOf(s)' = StageOf(s) /\ TermsOf(s)' = TermsOf(s)
               /\ MessageOf(s)' = MessageOf(s) /\ ArtifactOf(s)' = ArtifactOf(s)
    BY <1>1, <2>2, <2>6, Bystander DEF Refuse, Inv, TypeOK
  <2> HIDE DEF t
  <2>7. Promised!Refuse(r, t)
    BY <2>5, <2>6 DEF Promised!Refuse
  <2>8. Promised!Begin(r)
    BY <2>1, <2>7 DEF Promised!Begin
  <2>9. QED BY <2>5, <2>8 DEF Promised!Next
<1>2. ASSUME NEW r \in Requests, NEW q \in Universe, SignNatively(r, q)
      PROVE  Promised!Next
  <2> DEFINE t == [checked |-> q.qualified \/ q.api = "native", signer |-> q.key]
             m == PreparedPayload(q)
             Sig(plain) == [key |-> q.key, message |-> m, wellFormed |-> TRUE, plain |-> plain]
             a == [payload |-> m, signer |-> q.key, signed |-> m]
  <2>1. t \in Promised!Terms /\ m \in Messages /\ a \in Promised!Artifacts(m)
    BY PreparationType, UniverseAssumption DEF IsRequest, Promised!Terms, Promised!Artifacts
  <2>2. PICK o :
          /\ outcome' = [outcome EXCEPT ![r] = o]
          /\ \/ \E plain \in BOOLEAN : o = FinishSigning(q, m, Sig(plain))
             \/ o = Ended("signer", "KeyOperationFailure")
    BY <1>2 DEF SignNatively
  <2>3. \/ o.kind = "success" /\ o.artifact.absent = FALSE /\ o.artifact.payload = m
              /\ o.artifact.signature.key = q.key /\ o.artifact.signature.message = m
        \/ o.kind # "success" /\ o.artifact = NoArtifact
    <3>1. CASE o = Ended("signer", "KeyOperationFailure")
      BY <3>1 DEF Ended
    <3>2. ASSUME NEW plain \in BOOLEAN, o = FinishSigning(q, m, Sig(plain))
          PROVE  \/ o.kind = "success" /\ o.artifact.absent = FALSE /\ o.artifact.payload = m
                       /\ o.artifact.signature.key = q.key /\ o.artifact.signature.message = m
                 \/ o.kind # "success" /\ o.artifact = NoArtifact
      <4>1. Sig(plain).key = q.key /\ Sig(plain).message = m
        OBVIOUS
      <4> HIDE DEF m, Sig
      <4>2. QED BY <3>2, <4>1, FinishSigningOutcome
    <3>3. QED BY <2>2, <3>1, <3>2
  <2>4. /\ phase[r] = "idle" /\ phase'[r] = "done" /\ request'[r] = q
        /\ received[r] = <<>> /\ prepared[r] = <<>> /\ outcome[r] = Unfinished
        /\ prepared'[r] = <<m>> /\ outcome'[r] = o /\ UNCHANGED received
    BY <1>2, <2>2 DEF SignNatively, Inv, Operation, TypeOK
  <2> HIDE DEF m
  <2>5. /\ StageOf(r) = "new" /\ TermsOf(r)' = t /\ MessageOf(r)' = m
    BY <2>4 DEF StageOf, TermsOf, MessageOf, Succeeded, Done, Called
  <2>6. ASSUME NEW s \in Requests, s # r
        PROVE  /\ StageOf(s)' = StageOf(s) /\ TermsOf(s)' = TermsOf(s)
               /\ MessageOf(s)' = MessageOf(s) /\ ArtifactOf(s)' = ArtifactOf(s)
    BY <1>2, <2>2, <2>6, Bystander DEF SignNatively, Inv, TypeOK
  <2>7. CASE o.kind = "success"
    <3>1. StageOf(r)' = "emitted" /\ ArtifactOf(r)' = a
      BY <2>3, <2>4, <2>7 DEF StageOf, ArtifactOf, Succeeded, Done
    <3>2. Promised!Honours(t, m, a)
      BY DEF Promised!Honours
    <3> HIDE DEF t, a
    <3>3. Promised!SignLocally(r, t, m, a)
      BY <2>5, <2>6, <3>1, <3>2 DEF Promised!SignLocally
    <3>4. Promised!Begin(r)
      BY <2>1, <3>3 DEF Promised!Begin
    <3>5. QED BY <2>5, <3>4 DEF Promised!Next
  <2>8. CASE o.kind # "success"
    <3>1. StageOf(r)' = "failed" /\ ArtifactOf(r)' = ArtifactOf(r)
      BY <2>3, <2>4, <2>8
         DEF StageOf, ArtifactOf, Succeeded, Done, Unfinished, Ended, NoArtifact
    <3> HIDE DEF t
    <3>2. Promised!FailLocally(r, t, m)
      BY <2>5, <2>6, <3>1 DEF Promised!FailLocally
    <3>3. Promised!Begin(r)
      BY <2>1, <3>2 DEF Promised!Begin
    <3>4. QED BY <2>5, <3>3 DEF Promised!Next
  <2>9. QED BY <2>7, <2>8
<1>3. ASSUME NEW r \in Requests, NEW q \in Universe, CallProvider(r, q)
      PROVE  Promised!Next
  <2> DEFINE t == [checked |-> q.qualified \/ q.api = "native", signer |-> q.key]
             m == PreparedPayload(q)
  <2>1. t \in Promised!Terms /\ m \in Messages
    BY PreparationType, UniverseAssumption DEF IsRequest, Promised!Terms
  <2>2. /\ phase[r] = "idle" /\ phase'[r] = "waiting" /\ request'[r] = q
        /\ received[r] = <<>> /\ received'[r] = Append(<<>>, m) /\ UNCHANGED outcome
    BY <1>3 DEF CallProvider, Inv, Operation, TypeOK
  <2> HIDE DEF m
  <2>3. received'[r] = <<m>>
    BY <2>2
  <2>4. /\ StageOf(r) = "new" /\ StageOf(r)' = "asked" /\ TermsOf(r)' = t
        /\ MessageOf(r)' = m /\ ArtifactOf(r)' = ArtifactOf(r)
    BY <2>2, <2>3 DEF StageOf, TermsOf, MessageOf, ArtifactOf, Succeeded, Done, Called
  <2>5. ASSUME NEW s \in Requests, s # r
        PROVE  /\ StageOf(s)' = StageOf(s) /\ TermsOf(s)' = TermsOf(s)
               /\ MessageOf(s)' = MessageOf(s) /\ ArtifactOf(s)' = ArtifactOf(s)
    BY <1>3, <2>5, Bystander DEF CallProvider, Inv, TypeOK
  <2> HIDE DEF t
  <2>6. Promised!Ask(r, t, m)
    BY <2>4, <2>5 DEF Promised!Ask
  <2>7. Promised!Begin(r)
    BY <2>1, <2>6 DEF Promised!Begin
  <2>8. QED BY <2>4, <2>7 DEF Promised!Next
<1>4. ASSUME NEW r \in Requests, Resume(r)
      PROVE  Promised!Next
  <2> DEFINE m == prepared[r][1]
             answer == reply[r][1]
             o == AfterProvider(request[r], m, answer)
             a == [payload |-> m, signer |-> answer.signature.key,
                   signed |-> answer.signature.message]
  <2>1. /\ phase[r] = "waiting" /\ phase'[r] = "done" /\ reply[r] # <<>>
        /\ outcome[r] = Unfinished /\ outcome'[r] = o
        /\ UNCHANGED <<request, prepared, received, reply>>
    BY <1>4 DEF Resume, Inv, Operation, TypeOK
  <2>2. /\ received[r] = <<m>> /\ prepared[r] = <<m>> /\ request[r] \in Universe
        /\ m \in Messages
    <3>1. received[r] = prepared[r] /\ prepared[r] # <<>>
      BY <2>1 DEF Inv, Operation, TypeOK
    <3>2. QED BY <3>1, WaitingType
  <2>3. ~answer.failed => answer.signature \in Signatures(Messages)
    BY <2>1 DEF Inv, TypeOK, Signed, Failed
  <2>4. ASSUME NEW s \in Requests, s # r
        PROVE  /\ StageOf(s)' = StageOf(s) /\ TermsOf(s)' = TermsOf(s)
               /\ MessageOf(s)' = MessageOf(s) /\ ArtifactOf(s)' = ArtifactOf(s)
    BY <1>4, <2>4, Bystander DEF Resume, Inv, TypeOK
  <2>5. /\ o.kind # "success" => o.artifact = NoArtifact
        /\ o.kind = "success" =>
             /\ ~answer.failed /\ AcceptsOutput(request[r], m, answer.signature)
             /\ o.artifact.payload = m /\ o.artifact.signature = answer.signature
             /\ o.artifact.absent = FALSE
    <3> HIDE DEF m, answer
    <3>1. QED BY AfterProviderOutcome
  <2>6. StageOf(r) = "asked" /\ TermsOf(r)' = TermsOf(r) /\ MessageOf(r)' = MessageOf(r)
        /\ MessageOf(r) = m
    BY <2>1, <2>2 DEF StageOf, TermsOf, MessageOf, Succeeded, Done, Called
  <2>7. TermsOf(r) = [checked |-> request[r].qualified \/ request[r].api = "native",
                      signer |-> request[r].key]
        /\ request[r].api # "native"
    BY <2>1 DEF TermsOf, Inv, Operation
  <2>8. CASE o.kind = "success"
    <3>1. m \in Messages /\ a \in Promised!Artifacts(m)
      BY <2>2, <2>3, <2>5, <2>8 DEF Promised!Artifacts, Signatures
    <3>2. Promised!Honours(TermsOf(r), MessageOf(r), a)
      <4>1. request[r].qualified =>
              answer.signature.key = request[r].key /\ answer.signature.message = m
        BY <2>5, <2>8 DEF AcceptsOutput, Verifies
      <4>2. TermsOf(r).checked => request[r].qualified
        <5>1. request[r].qualified \in BOOLEAN
          BY <2>2, UniverseAssumption DEF IsRequest
        <5>2. (request[r].qualified \/ request[r].api = "native") = request[r].qualified
          BY <2>7, <5>1
        <5>3. TermsOf(r) = [checked |-> request[r].qualified, signer |-> request[r].key]
          BY ONLY <2>7, <5>2, Zenon
        <5>4. QED BY ONLY <5>3
      <4>3. TermsOf(r).signer = request[r].key
        BY <2>7
      <4> HIDE DEF m, answer
      <4>4. QED BY <2>6, <4>1, <4>2, <4>3 DEF Promised!Honours
    <3> HIDE DEF m, answer, o
    <3>3. StageOf(r)' = "emitted" /\ ArtifactOf(r)' = a
      BY <2>1, <2>5, <2>8 DEF StageOf, ArtifactOf, Succeeded, Done
    <3> HIDE DEF a
    <3>4. Promised!Emit(r, a)
      BY <2>4, <2>6, <3>2, <3>3 DEF Promised!Emit
    <3>5. Promised!End(r)
      BY <3>1, <3>4 DEF Promised!End
    <3>6. QED BY <2>6, <3>5 DEF Promised!Next
  <2>9. CASE o.kind # "success"
    <3> HIDE DEF m, answer, o
    <3>1. StageOf(r)' = "failed" /\ ArtifactOf(r)' = ArtifactOf(r)
      BY <2>1, <2>2, <2>5, <2>9
         DEF StageOf, ArtifactOf, Succeeded, Done, Unfinished, Ended, NoArtifact
    <3>2. Promised!Stop(r, "failed")
      BY <2>4, <2>6, <3>1 DEF Promised!Stop
    <3>3. Promised!End(r)
      BY <3>2 DEF Promised!End
    <3>4. QED BY <2>6, <3>3 DEF Promised!Next
  <2>10. QED BY <2>8, <2>9
<1>5. ASSUME NEW r \in Requests, DropFuture(r)
      PROVE  Promised!Next
  <2>1. /\ phase[r] = "waiting" /\ phase'[r] = "dropped" /\ received[r] # <<>>
        /\ UNCHANGED <<request, received, outcome>>
    BY <1>5 DEF DropFuture, Inv, Operation, TypeOK
  <2>2. /\ StageOf(r) = "asked" /\ StageOf(r)' = "abandoned" /\ TermsOf(r)' = TermsOf(r)
        /\ MessageOf(r)' = MessageOf(r) /\ ArtifactOf(r)' = ArtifactOf(r)
    BY <2>1 DEF StageOf, TermsOf, MessageOf, ArtifactOf, Succeeded, Done, Called
  <2>3. ASSUME NEW s \in Requests, s # r
        PROVE  /\ StageOf(s)' = StageOf(s) /\ TermsOf(s)' = TermsOf(s)
               /\ MessageOf(s)' = MessageOf(s) /\ ArtifactOf(s)' = ArtifactOf(s)
    BY <1>5, <2>3, Bystander DEF DropFuture, Inv, TypeOK
  <2>4. Promised!Stop(r, "abandoned")
    BY <2>2, <2>3 DEF Promised!Stop
  <2>5. Promised!End(r)
    BY <2>4 DEF Promised!End
  <2>6. QED BY <2>2, <2>5 DEF Promised!Next
<1>6. CASE UNCHANGED <<phase, request, prepared, received, outcome>>
  <2>1. ASSUME NEW s \in Requests
        PROVE  /\ StageOf(s)' = StageOf(s) /\ TermsOf(s)' = TermsOf(s)
               /\ MessageOf(s)' = MessageOf(s) /\ ArtifactOf(s)' = ArtifactOf(s)
    BY <1>6, Bystander
  <2>2. QED BY <2>1 DEF Promised!vars
<1>7. ASSUME NEW r \in Requests, ServiceAnswers(r)
      PROVE  UNCHANGED <<phase, request, prepared, received, outcome>>
  BY <1>7 DEF ServiceAnswers
<1>8. RotateKey => UNCHANGED <<phase, request, prepared, received, outcome>>
  BY DEF RotateKey
<1>9. UNCHANGED vars => UNCHANGED <<phase, request, prepared, received, outcome>>
  BY DEF vars
<1>10. QED
  BY <1>1, <1>2, <1>3, <1>4, <1>5, <1>6, <1>7, <1>8, <1>9 DEF Next

\* Every signing operation, beside any others and against any service, keeps
\* the abstract contract.
THEOREM ContractKept == Spec => Contract
<1>1. QED BY InvHolds, InitContract, StepContract, PTL DEF Spec, Contract, Promised!Spec
=============================================================================
