---------------------------- MODULE SigningSession ----------------------------
(***************************************************************************)
(* Signing operations of yaml-sigil-signing: native keys, callbacks on the *)
(* calling thread, P-256 digest callbacks and awaited providers.  Several  *)
(* operations run at once against one provider service, which may rotate   *)
(* its key, answer with another operation's signature, answer malformed    *)
(* octets or fail.  An awaited operation can be dropped; what it submitted *)
(* stays submitted.                                                        *)
(*                                                                         *)
(* Everything the code does before it reaches the provider is one step     *)
(* (it awaits nothing), and so is everything it does after.  Cryptography  *)
(* is ideal: a signature verifies under the key and message it was made    *)
(* with and under no other.  Payload ids name contents.                    *)
(***************************************************************************)
EXTENDS SigningSizes, Sequences

CONSTANTS
    Requests,        \* signing operations
    Universe,        \* the requests callers may make
    Keys,            \* keys the provider service can hold
    InitialKey,      \* the key it holds at first
    MaxRotations,    \* bound: how often the service changes its key
    MaxMessageBytes  \* buffa::MAX_MESSAGE_BYTES

Algs == {"ed25519", "p256"}
Forms == {"yaml", "proto"}
Apis == {"native", "callback", "digest", "async"}

\* What a caller hands in.  bounded: an entry point with resource limits; max
\* is their ceiling, 0 for none.  variant is the arm of the key enumeration,
\* boundAlg the algorithm of the public key inside it.
IsRequest(q) ==
    q \in [api: Apis, qualified: BOOLEAN, form: Forms, alg: Algs,
           variant: Algs, boundAlg: Algs, key: Keys,
           params: BOOLEAN, append: BOOLEAN, bounded: BOOLEAN, max: Nat,
           keyid: [present: BOOLEAN, len: Nat, escapes: Nat, newline: BOOLEAN],
           payload: [id: Nat, len: Nat, utf8: BOOLEAN, bom: BOOLEAN, lf: BOOLEAN]]

\* Typing of the code: a native key's variant is its algorithm, a native
\* signer is always the one that signs, and only callbacks see digests.
ASSUME UniverseAssumption == \A q \in Universe : IsRequest(q)
ASSUME BoundsAssumption ==
    /\ InitialKey \in Keys
    /\ MaxRotations \in Nat
    /\ MaxMessageBytes \in Nat

VARIABLES
    phase,     \* where each operation is
    request,   \* what it was asked
    prepared,  \* the final payload it owns across the provider call
    received,  \* the payloads the provider was given for it, in order
    reply,     \* the provider's answer, once there is one
    outcome,   \* what the caller got
    key,       \* the key the service holds now
    rotations  \* how often it has changed

vars == <<phase, request, prepared, received, reply, outcome, key, rotations>>

-----------------------------------------------------------------------------
(* Payload preparation.                                                    *)

\* A message is a request payload, possibly with the final newline appended.
Message(payload, appended) == [payload |-> payload, appended |-> appended]

MessageLen(m) == m.payload.len + (IF m.appended THEN 1 ELSE 0)

EndsWithNewline(m) == m.payload.lf \/ m.appended

ValidPayloadStream(m) ==
    /\ m.payload.utf8
    /\ ~m.payload.bom
    /\ MessageLen(m) = 0 \/ EndsWithNewline(m)

AppendsNewline(q) ==
    q.form = "yaml" /\ q.payload.len > 0 /\ ~q.payload.lf /\ q.append

PreparedPayload(q) == Message(q.payload, AppendsNewline(q))

\* The message returned as modified_payload; absent when nothing changed.
ModifiedPayload(q, m) == IF m = Message(q.payload, FALSE) THEN <<>> ELSE <<m>>

-----------------------------------------------------------------------------
(* Admission.  A check is <<it fails, kind, error>>; the first that fails  *)
(* decides.                                                                *)

Check(fails, kind, error) == [fails |-> fails, kind |-> kind, error |-> error]

ParameterChecks(q) == <<
    Check(q.form \notin Forms, "invocation", "InvalidOrUnsupportedOutputForm"),
    Check(q.alg \notin Algs, "invocation", "InvalidOrUnsupportedAlgorithm"),
    Check(q.params, "invocation", "InvalidAlgorithmParameters"),
    Check(q.keyid.present /\ q.keyid.len \notin 1..1024, "invocation", "InvalidKeyid") >>

KeyAlgorithmCheck(q) ==
    << Check(q.alg # q.variant, "invocation", "InvalidOrUnsupportedAlgorithm") >>

KeyidContentCheck(q) ==
    << Check(q.keyid.present /\ q.keyid.newline, "invocation", "InvalidKeyid") >>

\* Provider entry points compare the bound public key, and a digest entry
\* point admits P-256 only; native keys have no second algorithm.
BoundKeyCheck(q) ==
    << Check(/\ q.api # "native"
             /\ q.boundAlg # q.alg \/ (q.api = "digest" /\ q.alg # "p256"),
             "invocation", "InvalidOrUnsupportedAlgorithm") >>

TooLarge(size, q) == q.max # 0 /\ size > q.max

ProjectedSize(q) ==
    IF q.form = "yaml" THEN YamlLowerBound(q.payload, q.append, q.alg, q.keyid)
                       ELSE ProjectedProtoSize(q.payload.len, q.keyid)

Preflight(q) == <<
    Check(TooLarge(ProjectedSize(q), q), "resource", "OutputArtifactTooLarge"),
    Check(q.form = "proto" /\ ProjectedSize(q) > MaxMessageBytes, "encode", "MessageTooLarge") >>

PreparationChecks(q) == <<
    Check(q.form = "yaml" /\ (~q.payload.utf8 \/ q.payload.bom), "signer", "InvalidPayloadBytes"),
    Check(q.form = "yaml" /\ q.payload.len > 0 /\ ~q.payload.lf /\ ~q.append,
          "signer", "PayloadLineTerminatorRefusal"),
    Check(q.form = "yaml" /\ ~ValidPayloadStream(PreparedPayload(q)),
          "signer", "InvalidPayloadBytes") >>

\* Bounded: shape, size, content.  Unbounded: shape and content together.
Admission(q) ==
    IF q.bounded
    THEN ParameterChecks(q) \o KeyAlgorithmCheck(q) \o BoundKeyCheck(q)
           \o Preflight(q) \o KeyidContentCheck(q) \o PreparationChecks(q)
    ELSE ParameterChecks(q) \o KeyidContentCheck(q) \o KeyAlgorithmCheck(q)
           \o BoundKeyCheck(q) \o PreparationChecks(q)

Admitted(q) == \A i \in DOMAIN Admission(q) : ~Admission(q)[i].fails

IsFirstFailure(q, i) ==
    /\ Admission(q)[i].fails
    /\ \A j \in DOMAIN Admission(q) : j < i => ~Admission(q)[j].fails

-----------------------------------------------------------------------------
(* Signatures and outcomes.                                                *)

\* wellFormed: the 64 octets parse as a canonical signature of the caller's
\* algorithm; plain: their base64url text needs no quotes in YAML.
Signatures(messages) ==
    [key: Keys, message: messages, wellFormed: BOOLEAN, plain: BOOLEAN]

StructurallyValid(sig) == sig.wellFormed

Verifies(k, m, sig) == StructurallyValid(sig) /\ sig.key = k /\ sig.message = m

NoArtifact == [absent |-> TRUE]

Artifact(q, m, sig, size) ==
    [absent |-> FALSE, form |-> q.form, payload |-> m, signature |-> sig, size |-> size]

Ended(kind, error) ==
    [kind |-> kind, error |-> error, artifact |-> NoArtifact, modified |-> <<>>]

Unfinished == Ended("none", "none")

EmittedSize(q, m, sig) ==
    IF q.form = "yaml"
    THEN EmittedYamlSize(MessageLen(m), q.alg, q.keyid, sig.plain)
    ELSE EmittedProtoSize(MessageLen(m), q.alg, q.keyid)

\* Only YAML has a size check after signing.
FinishSigning(q, m, sig) ==
    LET size == EmittedSize(q, m, sig)
    IN  IF q.form = "yaml" /\ q.bounded /\ TooLarge(size, q)
        THEN Ended("resource", "OutputArtifactTooLarge")
        ELSE [kind |-> "success", error |-> "none",
              artifact |-> Artifact(q, m, sig, size), modified |-> ModifiedPayload(q, m)]

\* An answer is an error or a signature; a callback's error is passed on,
\* an awaited provider's becomes KeyOperationFailure.
Failed(error) == [failed |-> TRUE, error |-> error]
Signed(sig) == [failed |-> FALSE, signature |-> sig]

ProviderError(q, answer) ==
    IF q.api = "async" THEN "KeyOperationFailure" ELSE answer.error

\* Fault: the signature is checked against the key but not the payload.
AcceptsOutputOfKey(q, m, sig) ==
    StructurallyValid(sig) /\ (q.qualified => sig.key = q.key)

AcceptsOutput(q, m, sig) ==
    /\ StructurallyValid(sig)
    /\ q.qualified => Verifies(q.key, m, sig)

AfterProvider(q, m, answer) ==
    IF answer.failed THEN Ended("signer", ProviderError(q, answer))
    ELSE IF ~AcceptsOutput(q, m, answer.signature)
    THEN Ended("signer", "KeyOperationFailure")
    ELSE FinishSigning(q, m, answer.signature)

-----------------------------------------------------------------------------
NoRequest == [absent |-> TRUE]

Init ==
    /\ phase = [r \in Requests |-> "idle"]
    /\ request = [r \in Requests |-> NoRequest]
    /\ prepared = [r \in Requests |-> <<>>]
    /\ received = [r \in Requests |-> <<>>]
    /\ reply = [r \in Requests |-> <<>>]
    /\ outcome = [r \in Requests |-> Unfinished]
    /\ key = InitialKey
    /\ rotations = 0

\* The caller's request fails a check that needs no signature.
Refuse(r, q) ==
    /\ phase[r] = "idle"
    /\ \E i \in DOMAIN Admission(q) :
         /\ IsFirstFailure(q, i)
         /\ outcome' = [outcome EXCEPT ![r] = Ended(Admission(q)[i].kind, Admission(q)[i].error)]
    /\ phase' = [phase EXCEPT ![r] = "done"]
    /\ request' = [request EXCEPT ![r] = q]
    /\ UNCHANGED <<prepared, received, reply, key, rotations>>

\* Signing with an in-memory key: no provider is involved.  P-256 fails when
\* the entropy source does.
SignNatively(r, q) ==
    /\ phase[r] = "idle"
    /\ q.api = "native"
    /\ Admitted(q)
    /\ phase' = [phase EXCEPT ![r] = "done"]
    /\ request' = [request EXCEPT ![r] = q]
    /\ prepared' = [prepared EXCEPT ![r] = <<PreparedPayload(q)>>]
    /\ \/ \E plain \in BOOLEAN :
            LET sig == [key |-> q.key, message |-> PreparedPayload(q),
                        wellFormed |-> TRUE, plain |-> plain]
            IN  outcome' = [outcome EXCEPT ![r] = FinishSigning(q, PreparedPayload(q), sig)]
       \/ /\ q.alg = "p256"
          /\ outcome' = [outcome EXCEPT ![r] = Ended("signer", "KeyOperationFailure")]
    /\ UNCHANGED <<received, reply, key, rotations>>

\* Preparation succeeds and the provider is handed the final payload.
CallProvider(r, q) ==
    /\ phase[r] = "idle"
    /\ q.api # "native"
    /\ Admitted(q)
    /\ phase' = [phase EXCEPT ![r] = "waiting"]
    /\ request' = [request EXCEPT ![r] = q]
    /\ prepared' = [prepared EXCEPT ![r] = <<PreparedPayload(q)>>]
    /\ received' = [received EXCEPT ![r] = Append(@, PreparedPayload(q))]
    /\ UNCHANGED <<reply, outcome, key, rotations>>

\* Fault: the caller's payload is framed instead of the prepared one.
ResumeWithRawPayload(r) ==
    /\ phase[r] = "waiting"
    /\ reply[r] # <<>>
    /\ phase' = [phase EXCEPT ![r] = "done"]
    /\ outcome' = [outcome EXCEPT ![r] =
                     AfterProvider(request[r], Message(request[r].payload, FALSE), reply[r][1])]
    /\ UNCHANGED <<request, prepared, received, reply, key, rotations>>

\* Fault: an error of the provider is not an answer.
ResumeOnSignature(r) ==
    /\ phase[r] = "waiting"
    /\ reply[r] # <<>>
    /\ ~reply[r][1].failed
    /\ phase' = [phase EXCEPT ![r] = "done"]
    /\ outcome' = [outcome EXCEPT ![r] =
                     AfterProvider(request[r], prepared[r][1], reply[r][1])]
    /\ UNCHANGED <<request, prepared, received, reply, key, rotations>>

\* The provider returned, or its future became ready: check and frame.
Resume(r) ==
    /\ phase[r] = "waiting"
    /\ reply[r] # <<>>
    /\ phase' = [phase EXCEPT ![r] = "done"]
    /\ outcome' = [outcome EXCEPT ![r] =
                     AfterProvider(request[r], prepared[r][1], reply[r][1])]
    /\ UNCHANGED <<request, prepared, received, reply, key, rotations>>

\* Entry points that return a future; the others block their thread.
Awaited(r) == request[r].api = "async"

\* Fault: a dropped operation starts over.
DropFutureRestarts(r) ==
    /\ phase[r] = "waiting"
    /\ Awaited(r)
    /\ phase' = [phase EXCEPT ![r] = "idle"]
    /\ prepared' = [prepared EXCEPT ![r] = <<>>]
    /\ UNCHANGED <<request, received, reply, outcome, key, rotations>>

\* The caller drops a pending future.  The submission is not withdrawn.
DropFuture(r) ==
    /\ phase[r] = "waiting"
    /\ Awaited(r)
    /\ phase' = [phase EXCEPT ![r] = "dropped"]
    /\ prepared' = [prepared EXCEPT ![r] = <<>>]
    /\ UNCHANGED <<request, received, reply, outcome, key, rotations>>

-----------------------------------------------------------------------------
(* The provider service, outside the library: it promises nothing.         *)

\* A callback chooses among the library's errors (two stand for them); an
\* awaited provider's error is opaque.
ProviderErrors(api) ==
    IF api = "async" THEN {"opaque"} ELSE {"KeyOperationFailure", "InvalidPayloadBytes"}

Submitted == {r \in Requests : received[r] # <<>>}

\* Answer with a signature made now over a payload some operation submitted,
\* not necessarily this one, or with an error.
ServiceAnswers(r) ==
    /\ r \in Submitted
    /\ reply[r] = <<>>
    /\ \/ \E other \in Submitted, wellFormed \in BOOLEAN, plain \in BOOLEAN :
            reply' = [reply EXCEPT ![r] =
                << Signed([key |-> key, message |-> received[other][1],
                           wellFormed |-> wellFormed, plain |-> plain]) >>]
       \/ \E error \in ProviderErrors(request[r].api) :
            reply' = [reply EXCEPT ![r] = << Failed(error) >>]
    /\ UNCHANGED <<phase, request, prepared, received, outcome, key, rotations>>

RotateKey ==
    /\ rotations < MaxRotations
    /\ rotations' = rotations + 1
    /\ key' \in Keys \ {key}
    /\ UNCHANGED <<phase, request, prepared, received, reply, outcome>>

Next ==
    \/ \E r \in Requests :
         \/ \E q \in Universe : Refuse(r, q) \/ SignNatively(r, q) \/ CallProvider(r, q)
         \/ Resume(r)
         \/ DropFuture(r)
         \/ ServiceAnswers(r)
    \/ RotateKey

Spec == Init /\ [][Next]_vars

\* The executor polls a ready future and a blocked thread resumes (the code
\* has no other wait); that the service answers is its operator's promise,
\* since the library imposes no timeout.
FairSpec ==
    /\ Spec
    /\ \A r \in Requests : WF_vars(Resume(r)) /\ WF_vars(ServiceAnswers(r))

-----------------------------------------------------------------------------
(* Properties.                                                             *)

Phases == {"idle", "waiting", "done", "dropped"}

Messages == { Message(q.payload, appended) : q \in Universe, appended \in BOOLEAN }

Done(r) == phase[r] = "done"
Succeeded(r) == Done(r) /\ outcome[r].kind = "success"
Called(r) == received[r] # <<>>

\* Types, and which parts of an operation exist in which phase.
TypeOK ==
    /\ phase \in [Requests -> Phases]
    /\ request \in [Requests -> Universe \cup {NoRequest}]
    /\ prepared \in [Requests -> {<<>>} \cup {<<m>> : m \in Messages}]
    /\ received \in [Requests -> {<<>>} \cup {<<m>> : m \in Messages}]
    /\ reply \in [Requests -> {<<>>}
                     \cup {<<Signed(s)>> : s \in Signatures(Messages)}
                     \cup {<<Failed(e)>> : e \in UNION {ProviderErrors(api) : api \in Apis}}]
    /\ outcome = [r \in Requests |-> outcome[r]]
    /\ key \in Keys
    /\ rotations \in 0..MaxRotations
    /\ \A r \in Requests :
         /\ phase[r] # "idle" => request[r] \in Universe
         /\ phase[r] = "waiting" => prepared[r] # <<>>

\* An artifact returned by a self-verifying entry point, or signed with an
\* in-memory key, verifies under the caller's public key over the payload it
\* frames, whatever the service did meanwhile (lib.rs:392, provider.rs:282).
AuthenticArtifact ==
    \A r \in Requests :
        Succeeded(r) /\ (request[r].qualified \/ request[r].api = "native") =>
            Verifies(request[r].key, outcome[r].artifact.payload, outcome[r].artifact.signature)

\* The provider is asked once, about the very payload the artifact frames:
\* nothing another operation does while this one waits changes it, and no
\* entry point probes or retries (lib.rs:399, 632).
FramesWhatWasSubmitted ==
    \A r \in Requests :
        Succeeded(r) /\ request[r].api # "native" =>
            received[r] = << outcome[r].artifact.payload >>

\* What a bounded entry point returns fits the ceiling and the protobuf
\* format, in octets really emitted.  Protobuf has no check after signing, so
\* its projection must be exact (lib.rs:313, 775).
BoundedOutputFits ==
    \A r \in Requests :
        Succeeded(r) /\ request[r].bounded =>
            /\ ~TooLarge(outcome[r].artifact.size, request[r])
            /\ request[r].form = "proto" => outcome[r].artifact.size <= MaxMessageBytes

\* A size refusal is never false: before signing it says that no signature
\* would have fitted, afterwards that some would not (lib.rs:245, 751).
NoFalseSizeRefusal ==
    \A r \in Requests :
        LET q == request[r]
            size(plain) == EmittedSize(q, PreparedPayload(q), [plain |-> plain])
        IN  Done(r) /\ outcome[r].kind = "resource" =>
                IF Called(r) \/ prepared[r] # <<>>
                THEN \E plain \in BOOLEAN : TooLarge(size(plain), q)
                ELSE \A plain \in BOOLEAN : TooLarge(size(plain), q)

\* Signing work is never spent on an output the code could have refused: a
\* protobuf size or format refusal, and any conclusive YAML one, comes before
\* the provider is asked (lib.rs:434, 536).
SizeVerdictBeforeSigning ==
    \A r \in Requests :
        Called(r) /\ request[r].bounded =>
            /\ ~TooLarge(ProjectedSize(request[r]), request[r])
            /\ request[r].form = "proto" => outcome[r].kind \notin {"resource", "encode"}

\* Limits only add refusals about size: what a bounded call refuses for
\* another reason the unbounded call refuses, and what it hands to a signer
\* the unbounded call would hand over too (lib.rs:566).
LimitsOnlyAddSizeRefusals ==
    \A r \in Requests :
        LET unbounded == [request[r] EXCEPT !.bounded = FALSE]
        IN  phase[r] # "idle" /\ request[r].bounded =>
                /\ prepared[r] # <<>> => Admitted(unbounded)
                /\ (Done(r) /\ prepared[r] = <<>> /\ outcome[r].kind \in {"invocation", "signer"}
                      => ~Admitted(unbounded))

\* What a ceiling may do: bound what is emitted, refuse only what cannot fit,
\* before signing where that is decidable, and change no other verdict.
LimitsAreExact ==
    /\ BoundedOutputFits
    /\ NoFalseSizeRefusal
    /\ SizeVerdictBeforeSigning
    /\ LimitsOnlyAddSizeRefusals

\* A caller that waits for a provider is answered, once the service is.
WaitingEnds ==
    \A r \in Requests : phase[r] = "waiting" ~> phase[r] \in {"done", "dropped"}

-----------------------------------------------------------------------------
(* The contract the operations implement.                                  *)

StageOf(r) ==
    CASE phase[r] = "idle" -> "new"
      [] phase[r] = "waiting" -> "asked"
      [] phase[r] = "dropped" -> "abandoned"
      [] Succeeded(r) -> "emitted"
      [] Done(r) /\ outcome[r].kind # "success" /\ prepared[r] = <<>> -> "refused"
      [] OTHER -> "failed"

TermsOf(r) ==
    IF phase[r] = "idle" THEN [none |-> TRUE]
    ELSE [checked |-> request[r].qualified \/ request[r].api = "native",
          signer |-> request[r].key]

\* A native operation has nothing received; its prepared payload is what the
\* key signed.
MessageOf(r) ==
    CASE Called(r) -> received[r][1]
      [] ~Called(r) /\ prepared[r] # <<>> -> prepared[r][1]
      [] OTHER -> [none |-> TRUE]

ArtifactOf(r) ==
    IF outcome[r].artifact.absent THEN [none |-> TRUE]
    ELSE [payload |-> outcome[r].artifact.payload,
          signer |-> outcome[r].artifact.signature.key,
          signed |-> outcome[r].artifact.signature.message]

Promised == INSTANCE SigningContract WITH
    Operations <- Requests,
    Messages <- Messages,
    Signers <- Keys,
    stage <- [r \in Requests |-> StageOf(r)],
    terms <- [r \in Requests |-> TermsOf(r)],
    message <- [r \in Requests |-> MessageOf(r)],
    artifact <- [r \in Requests |-> ArtifactOf(r)]

\* Every operation keeps the contract, step by step.
Contract == Promised!Spec
=============================================================================
