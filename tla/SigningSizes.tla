----------------------------- MODULE SigningSizes -----------------------------
(***************************************************************************)
(* Octet counts of signed artifacts: the arithmetic with which signing     *)
(* projects the size of its output before it signs, and, separately, the   *)
(* count of the octets the emitters really write.  The two come from       *)
(* different crates and must agree.  Lengths are those of the program, not *)
(* scaled down, so that varint boundaries fall where they fall in reality. *)
(***************************************************************************)
EXTENDS Integers

FixedSignatureBytes == 64

\* Base64url text of a signature, unpadded: ceil(64 * 4 / 3) = 86.
SignatureTextLen == (FixedSignatureBytes * 4 + 2) \div 3

\* "YamlSigilSignature.v1alpha1"
SchemaLen == 27

\* ED25519_PUREEDDSA_RAW_RS64_CANONICAL and ECDSA_SECP256R1_SHA256_RAW_RS64
AlgNameLen(alg) == IF alg = "ed25519" THEN 36 ELSE 31

\* The wire value of the algorithm enumeration.
AlgWireValue(alg) == IF alg = "ed25519" THEN 1 ELSE 2

-----------------------------------------------------------------------------
(* The projection.                                                         *)

VarintLen[value \in Nat] ==
    IF value >= 128 THEN 1 + VarintLen[value \div 128] ELSE 1

LenFieldSize(len) == 1 + VarintLen[len] + len

\* keyid is a record [present, len, escapes, newline].
ProjectedProtoSize(payloadLen, keyid) ==
    LET carrier == 2 + (IF keyid.present THEN LenFieldSize(keyid.len) ELSE 0)
                     + LenFieldSize(FixedSignatureBytes)
    IN  LenFieldSize(payloadLen) + LenFieldSize(carrier)

\* Fault: the bound already counts quotes around the signature.
YamlLowerBoundQuoted(payload, append, alg, keyid) ==
    LET projectedLf == IF payload.len > 0 /\ ~payload.lf /\ append THEN 1 ELSE 0
        carrier == 8 + SchemaLen + 1 + 5 + AlgNameLen(alg) + 1
                     + (IF keyid.present THEN 7 + 2 + keyid.len + 1 ELSE 0)
                     + 11 + 2 + SignatureTextLen + 1
    IN  payload.len + projectedLf + 4 + carrier

\* Lower bound: the keyid needs no escape and the signature no quotes.
YamlLowerBound(payload, append, alg, keyid) ==
    LET projectedLf == IF payload.len > 0 /\ ~payload.lf /\ append THEN 1 ELSE 0
        carrier == 8 + SchemaLen + 1 + 5 + AlgNameLen(alg) + 1
                     + (IF keyid.present THEN 7 + 2 + keyid.len + 1 ELSE 0)
                     + 11 + SignatureTextLen + 1
    IN  payload.len + projectedLf + 4 + carrier

-----------------------------------------------------------------------------
(* The emission: octets written by the protobuf sink and by the canonical  *)
(* YAML serializer.                                                        *)

PushVarint[value \in Nat] ==
    IF value >= 128 THEN 1 + PushVarint[value \div 128] ELSE 1

PushTag(field, wireType) == PushVarint[field * 8 + wireType]

PushLenField(field, len) == PushTag(field, 2) + PushVarint[len] + len

EmittedProtoCarrier(alg, keyid) ==
    PushTag(1, 0) + PushVarint[AlgWireValue(alg)]
      + (IF keyid.present THEN PushLenField(2, keyid.len) ELSE 0)
      + PushLenField(3, FixedSignatureBytes)

EmittedProtoSize(payloadLen, alg, keyid) ==
    PushLenField(1, payloadLen) + PushLenField(2, EmittedProtoCarrier(alg, keyid))

\* A keyid is always quoted, and each escape lengthens it; the signature is
\* quoted only when its text would not read back as a plain string.
QuotedLen(keyid) == 2 + keyid.len + keyid.escapes

EmittedYamlCarrier(alg, keyid, plainSignature) ==
    (8 + SchemaLen + 1) + (5 + AlgNameLen(alg) + 1)
      + (IF keyid.present THEN 7 + QuotedLen(keyid) + 1 ELSE 0)
      + 11 + (IF plainSignature THEN SignatureTextLen ELSE SignatureTextLen + 2) + 1

EmittedYamlSize(payloadLen, alg, keyid, plainSignature) ==
    payloadLen + 4 + EmittedYamlCarrier(alg, keyid, plainSignature)
=============================================================================
