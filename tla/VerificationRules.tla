--------------------------- MODULE VerificationRules ---------------------------
(***************************************************************************)
(* The decisions of yaml-sigil-verification that await nothing: how an     *)
(* artifact is read before any cryptography (pre-verification), which      *)
(* verification work item its metadata, the caller's keys and the options  *)
(* leave, and how the outcome of that work is classified.                  *)
(*                                                                         *)
(* An artifact is what decomposition and metadata extraction find in it.   *)
(* Cryptography is ideal: a signature names the key and message that it    *)
(* was made with, and the equation holds for those and no others.          *)
(***************************************************************************)
EXTENDS Naturals

CONSTANT Inadmissible  \* keys no slot admits: small order, not canonical, off the curve

Algs == {"ed25519", "p256"}
Forms == {"yaml", "proto"}
NoKey == [none |-> TRUE]

\* decomposed: outcome of structural decomposition; envelope: the payload
\* obeys the YAML stream rules; parses: the carrier parses and fits its schema
\* (YAML text or protobuf); alg: the algorithm number, 1 and 2 being known;
\* base64: the YAML text of the signature decodes; shape: of the octets.
IsArtifact(a) ==
    /\ a.form \in Forms
    /\ a.decomposed \in {"ok", "unsigned", "malformed", "refused"}
    /\ {a.envelope, a.parses, a.base64} \subseteq BOOLEAN
    /\ a.alg \in 0..3
    /\ a.keyid \in {"absent", "valid", "invalid"}
    /\ a.shape \in {"empty", "wrong_length", "out_of_range", "proper"}

AlgorithmOf(number) == IF number = 1 THEN "ed25519" ELSE "p256"

KnownAlgorithm(number) == number \in {1, 2}

-----------------------------------------------------------------------------
(* Pre-verification.                                                       *)

MetadataReadable(a) ==
    /\ a.parses
    /\ KnownAlgorithm(a.alg)
    /\ a.keyid # "invalid"
    /\ a.form = "yaml" => a.base64

\* The payload of a protobuf artifact is any octets.
StructureReadable(a) == a.decomposed = "ok" /\ (a.form = "yaml" => a.envelope)

\* Fault: the payload of a YAML artifact is taken as decomposition left it.
PreVerifyWithoutEnvelope(a, allowUnsigned) ==
    IF a.form = "yaml" /\ a.decomposed = "unsigned" /\ allowUnsigned THEN "Unsigned"
    ELSE IF a.decomposed # "ok" THEN "StructuralFailure"
    ELSE IF ~MetadataReadable(a) THEN "MetadataParseFailure"
    ELSE "Ok"

\* allowUnsigned is ignored for protobuf.
PreVerify(a, allowUnsigned) ==
    IF a.form = "yaml" /\ a.decomposed = "unsigned" /\ allowUnsigned THEN "Unsigned"
    ELSE IF ~StructureReadable(a) THEN "StructuralFailure"
    ELSE IF ~MetadataReadable(a) THEN "MetadataParseFailure"
    ELSE "Ok"

-----------------------------------------------------------------------------
(* Results: a verifier state or an invocation error.                       *)

State(name) == [kind |-> "state", name |-> name, alg |-> "none"]
StateOf(name, alg) == [kind |-> "state", name |-> name, alg |-> alg]
Error(name) == [kind |-> "error", name |-> name, alg |-> "none"]

Malformed == State("MalformedAttemptedSigned")
KeyResolutionFailure == Error("KeyResolutionFailure")

\* The work that is left for a key: nothing but `complete`, or one equation.
Complete(result) == [work |-> FALSE, result |-> result, alg |-> "none", key |-> NoKey]
Work(alg, key) == [work |-> TRUE, result |-> State("none"), alg |-> alg, key |-> key]

\* A key fits a slot when it was bound for that algorithm and is admissible.
AdmissibleIn(alg, key) == key.alg = alg /\ key.value \notin Inadmissible

\* The order is the code's: octets first; then for Ed25519 the canonical form
\* and then the key, for P-256 the key's presence and then the range.
Prepare(number, shape, keys, enabled) ==
    LET alg == AlgorithmOf(number)
        vk == keys[alg]
    IN  IF ~KnownAlgorithm(number) \/ shape \in {"empty", "wrong_length"}
          THEN Complete(Malformed)
        ELSE IF alg \notin enabled
          THEN Complete(StateOf("SignedButAlgorithmUnsupported", alg))
        ELSE IF alg = "ed25519" /\ shape = "out_of_range"
          THEN Complete(Malformed)
        ELSE IF vk = NoKey
          THEN Complete(KeyResolutionFailure)
        ELSE IF shape = "out_of_range"
          THEN Complete(Malformed)
        ELSE IF ~AdmissibleIn(alg, vk)
          THEN Complete(KeyResolutionFailure)
        ELSE Work(alg, vk)

\* Fault: an operational failure is reported as a bad signature.
ClassifyFailureAsMismatch(outcome, alg) ==
    IF outcome = "Verified" THEN StateOf("Verified", alg)
    ELSE State("SignedButFailedVerification")

Classify(outcome, alg) ==
    CASE outcome = "Verified" -> StateOf("Verified", alg)
      [] outcome = "SignatureMismatch" -> State("SignedButFailedVerification")
      [] outcome = "ProviderFailure" -> KeyResolutionFailure

-----------------------------------------------------------------------------
(* The built-in verifier, which calls nobody.                              *)

Genuine(a, key) == a.signature.key = key.value /\ a.signature.message = a.payload

NativeOutcome(a, key) == IF Genuine(a, key) THEN "Verified" ELSE "SignatureMismatch"

\* What an entry point does with a pre-verification result before any
\* cryptography.  A whole call made the result itself; a later stage was given
\* it, perhaps through an entry point for one form.
Admit(q, pre) ==
    IF q.params
      THEN Complete(Error("InvalidAlgorithmParameters"))
    ELSE IF q.staged /\ (pre # "Ok" \/ q.reader \notin {"any", q.artifact.form})
      THEN Complete(Error("InvalidPreVerifyResult"))
    ELSE IF pre = "Ok"
      THEN Prepare(q.artifact.alg, q.artifact.shape, q.keys, q.enabled)
    ELSE IF pre = "Unsigned"
      THEN Complete(State("Unsigned"))
    ELSE Complete(Malformed)

\* The verdict of the built-in verifier on the same request.
NativeVerdict(q, pre) ==
    LET w == Admit(q, pre)
    IN  IF w.work THEN Classify(NativeOutcome(q.artifact, w.key), w.alg) ELSE w.result
=============================================================================
