----------------------------- MODULE MessageFacade -----------------------------
(***************************************************************************)
(* The protobuf message facade of the core crate: owned messages and       *)
(* borrowed views, their setters, and the encoders that count a message    *)
(* first and then write it, into a new vector or behind what a caller's    *)
(* buffer already holds, with or without a resource policy.  Octet strings *)
(* are names with a length; tags and varints are counted as written.  The  *)
(* decoder is the buffa runtime, taken from how this crate uses it.        *)
(***************************************************************************)
EXTENDS SigningSizes, Sequences

CONSTANTS
    Incoming,         \* artifact messages that arrive, as outer fields
    IncomingCarriers, \* signature messages that arrive, as inner fields
    Prior,            \* what a caller's buffer holds before an append
    Limits,           \* NoLimits, 0 (unbounded policy) or a ceiling in octets
    Algorithms,       \* wire values of the enumeration a caller may set
    BlobLen,          \* octets of each octet string; "empty" has none
    FormatCeiling,    \* buffa::MAX_MESSAGE_BYTES, scaled down
    PlatformMaximum   \* usize::MAX, scaled down

Blobs == DOMAIN BlobLen
Strings == Blobs \ {"not-utf8"}
NoLimits == -1

\* Fields on the wire: a varint, an octet string, a nested message behind its
\* declared length, or one that is cut short.
FieldOf(inner) == [num : Nat, type : {"varint", "len", "nested", "cut"}, int : Int, blob : Blobs,
                   inner : inner, declared : Nat]
InnerField == FieldOf({<<>>})
OuterField == FieldOf(Seq(InnerField))

\* What a format can hold fits a platform's address space.
ASSUME FacadeAssumption ==
    /\ BlobLen \in [Blobs -> Nat]
    /\ "empty" \in Blobs /\ BlobLen["empty"] = 0 /\ "absent" \notin Blobs
    /\ Limits \subseteq {NoLimits} \cup Nat /\ Algorithms \subseteq Int
    /\ FormatCeiling \in Nat /\ PlatformMaximum \in Nat /\ FormatCeiling <= PlatformMaximum
    /\ Incoming \subseteq Seq(OuterField) /\ Prior \subseteq Seq(OuterField)
    /\ IncomingCarriers \subseteq Seq(InnerField)

VARIABLES
    message,     \* the owned artifact
    view,        \* the input a borrowed view looks into
    viewing,     \* whether there is such a view
    destination, \* the caller's buffer, as fields
    answer       \* what the last fallible call returned

facadeVars == <<message, view, viewing, destination, answer>>

\* keyid is "absent" or an octet string, possibly the empty one.
NoSignature == [present |-> FALSE, alg |-> 0, keyid |-> "absent", octets |-> "empty", unknown |-> <<>>]
DefaultSignature == [NoSignature EXCEPT !.present = TRUE]
EmptyMessage == [payload |-> "empty", signature |-> NoSignature, unknown |-> <<>>]

VarintField(n, v) == [num |-> n, type |-> "varint", int |-> v, blob |-> "empty", inner |-> <<>>, declared |-> 0]
LenField(n, b) == [VarintField(n, 0) EXCEPT !.type = "len", !.blob = b]
NestedField(n, w, len) == [VarintField(n, 0) EXCEPT !.type = "nested", !.inner = w, !.declared = len]
CutField(n) == [VarintField(n, 0) EXCEPT !.type = "cut"]

Ok == [kind |-> "ok", why |-> "none", observed |-> 0]
Failed(kind, why) == [kind |-> kind, why |-> why, observed |-> 0]
OverLimit(why, size) == [kind |-> "resource", why |-> why, observed |-> size]

-----------------------------------------------------------------------------
(* Counting.                                                               *)

\* An enumeration is sign-extended: a negative value takes ten octets.
EnumOctets(v) == IF v < 0 THEN 10 ELSE PushVarint[v]

InnerOctets(f) ==
    CASE f.type = "varint" -> PushTag(f.num, 0) + EnumOctets(f.int)
      [] f.type = "len" -> PushLenField(f.num, BlobLen[f.blob])
      [] OTHER -> PushTag(f.num, 2)

InnerLen(w) ==
    LET upTo[i \in 0 .. Len(w)] == IF i = 0 THEN 0 ELSE upTo[i - 1] + InnerOctets(w[i])
    IN  upTo[Len(w)]

OuterOctets(f) ==
    IF f.type = "nested" THEN PushTag(f.num, 2) + PushVarint[f.declared] + InnerLen(f.inner)
    ELSE InnerOctets(f)

OuterLen(w) ==
    LET upTo[i \in 0 .. Len(w)] == IF i = 0 THEN 0 ELSE upTo[i - 1] + OuterOctets(w[i])
    IN  upTo[Len(w)]

-----------------------------------------------------------------------------
(* Decoding: repeated fields overwrite, nested messages merge, fields the  *)
(* schema does not know are kept in their order.                           *)

InnerRefusal(f) ==
    IF f.type = "cut" THEN "unexpected_end"
    ELSE IF (f.num \in {2, 3} /\ f.type # "len") \/ (f.num = 1 /\ f.type # "varint")
    THEN "unexpected_wire_type"
    ELSE IF f.num = 2 /\ f.blob = "not-utf8" THEN "invalid_utf8"
    ELSE "none"

FirstRefusal(refusals) ==
    LET bad == {i \in DOMAIN refusals : refusals[i] # "none"}
    IN  IF bad = {} THEN "none" ELSE refusals[CHOOSE i \in bad : \A k \in bad : i <= k]

CarrierRefusal(w) == FirstRefusal([i \in DOMAIN w |-> InnerRefusal(w[i])])

OuterRefusal(f) ==
    IF f.type = "cut" THEN "unexpected_end"
    ELSE IF (f.num = 1 /\ f.type # "len") \/ (f.num = 2 /\ f.type # "nested")
    THEN "unexpected_wire_type"
    ELSE IF f.num = 2 /\ f.declared # InnerLen(f.inner) THEN "unexpected_end"
    ELSE IF f.num = 2 THEN CarrierRefusal(f.inner)
    ELSE "none"

ArtifactRefusal(w) == FirstRefusal([i \in DOMAIN w |-> OuterRefusal(w[i])])

MergeInner(s, f) ==
    CASE f.num = 1 -> [s EXCEPT !.alg = f.int]
      [] f.num = 2 -> [s EXCEPT !.keyid = f.blob]
      [] f.num = 3 -> [s EXCEPT !.octets = f.blob]
      [] OTHER -> [s EXCEPT !.unknown = Append(@, f)]

SignatureOf(s, w) ==
    LET upTo[i \in 0 .. Len(w)] ==
            IF i = 0 THEN [s EXCEPT !.present = TRUE] ELSE MergeInner(upTo[i - 1], w[i])
    IN  upTo[Len(w)]

MergeOuter(m, f) ==
    CASE f.num = 1 -> [m EXCEPT !.payload = f.blob]
      [] f.num = 2 -> [m EXCEPT !.signature = SignatureOf(@, f.inner)]
      [] OTHER -> [m EXCEPT !.unknown = Append(@, f)]

ArtifactOf(w) ==
    LET upTo[i \in 0 .. Len(w)] == IF i = 0 THEN EmptyMessage ELSE MergeOuter(upTo[i - 1], w[i])
    IN  upTo[Len(w)]

-----------------------------------------------------------------------------
(* Writing.                                                                *)

\* Defaults are omitted; a keyid that is present is written even when empty.
SignatureFields(alg, keyid, octets, unknown) ==
    (IF alg # 0 THEN <<VarintField(1, alg)>> ELSE <<>>)
      \o (IF keyid # "absent" THEN <<LenField(2, keyid)>> ELSE <<>>)
      \o (IF octets # "empty" THEN <<LenField(3, octets)>> ELSE <<>>)
      \o unknown

WriteSignature(s) == SignatureFields(s.alg, s.keyid, s.octets, s.unknown)

\* Fault: the length is that of the fields the schema knows.
NestedLengthKnown(s) == InnerLen(SignatureFields(s.alg, s.keyid, s.octets, <<>>))

\* The nested message is counted by itself before its length is written.
NestedLength(s) == InnerLen(WriteSignature(s))

WriteArtifact(m) ==
    (IF m.payload # "empty" THEN <<LenField(1, m.payload)>> ELSE <<>>)
      \o (IF m.signature.present
          THEN <<NestedField(2, WriteSignature(m.signature), NestedLength(m.signature))>> ELSE <<>>)
      \o m.unknown

\* The borrowed writers read what the decoder has merged.
WriteSignatureRef == WriteSignature(ArtifactOf(view).signature)
WriteArtifactRef == WriteArtifact(ArtifactOf(view))

-----------------------------------------------------------------------------
(* Policies.                                                               *)

OverCeiling(limit, size) == limit > 0 /\ size > limit

CheckInput(limit, size) ==
    IF OverCeiling(limit, size) THEN OverLimit("input_too_large", size) ELSE Ok

CheckProtobufSize(size) ==
    IF size > PlatformMaximum \/ size > FormatCeiling THEN Failed("format", "message_too_large") ELSE Ok

\* What the platform can represent, then the policy, then the format.
Preflight(limit, size) ==
    IF limit = NoLimits THEN CheckProtobufSize(size)
    ELSE IF size > PlatformMaximum THEN Failed("resource", "size_overflow")
    ELSE IF OverCeiling(limit, size) THEN OverLimit("output_too_large", size)
    ELSE CheckProtobufSize(size)

-----------------------------------------------------------------------------
(* The caller.                                                             *)

FacadeInit ==
    /\ message = EmptyMessage
    /\ view = <<>>
    /\ viewing = FALSE
    /\ destination \in Prior
    /\ answer = Ok

\* A caller that has encoded looks at the buffer before anything else.
Ready == destination \in Prior

DecodeAnswer(limit, w) ==
    IF CheckInput(limit, OuterLen(w)) # Ok THEN CheckInput(limit, OuterLen(w))
    ELSE IF ArtifactRefusal(w) # "none" THEN Failed("decode", ArtifactRefusal(w))
    ELSE Ok

DecodeArtifact(w, limit) ==
    /\ Ready /\ ~viewing /\ message = EmptyMessage
    /\ answer' = DecodeAnswer(limit, w)
    /\ message' = IF answer' = Ok THEN ArtifactOf(w) ELSE message
    /\ UNCHANGED <<view, viewing, destination>>

DecodeRef(w, limit) ==
    /\ Ready /\ ~viewing /\ message = EmptyMessage
    /\ answer' = DecodeAnswer(limit, w)
    /\ viewing' = (answer' = Ok)
    /\ view' = IF answer' = Ok THEN w ELSE <<>>
    /\ UNCHANGED <<message, destination>>

\* The view is dropped together with its input.
ToOwned ==
    /\ Ready /\ viewing
    /\ message' = ArtifactOf(view)
    /\ view' = <<>>
    /\ viewing' = FALSE
    /\ answer' = Ok
    /\ UNCHANGED destination

\* A signature decoded by itself, then set_signature.
DecodeSignature(w) ==
    /\ Ready /\ ~viewing
    /\ answer' = IF CarrierRefusal(w) = "none" THEN Ok ELSE Failed("decode", CarrierRefusal(w))
    /\ message' = IF answer' = Ok
                  THEN [message EXCEPT !.signature = SignatureOf(NoSignature, w)] ELSE message
    /\ UNCHANGED <<view, viewing, destination>>

Mutate(m) ==
    /\ Ready /\ ~viewing
    /\ message' = m
    /\ answer' = Ok
    /\ UNCHANGED <<view, viewing, destination>>

SetPayload(b) == Mutate([message EXCEPT !.payload = b])

SetSignature == Mutate([message EXCEPT !.signature = DefaultSignature])

TakeSignature == Mutate([message EXCEPT !.signature = NoSignature])

SetAlgorithmWireValue(v) ==
    message.signature.present /\ Mutate([message EXCEPT !.signature.alg = v])

SetKeyid(k) == message.signature.present /\ Mutate([message EXCEPT !.signature.keyid = k])

SetSignatureOctets(b) == message.signature.present /\ Mutate([message EXCEPT !.signature.octets = b])

DiscardUnknownFields ==
    Mutate([message EXCEPT !.unknown = <<>>, !.signature.unknown = <<>>])

\* view_signed_yaml_artifact: the fields of a message that has a signature.
ViewArtifact ==
    /\ Ready /\ ~viewing
    /\ answer' = IF message.signature.present THEN Ok ELSE Failed("decode", "missing_signature")
    /\ UNCHANGED <<message, view, viewing, destination>>

-----------------------------------------------------------------------------
(* The encoders of an artifact or of its signature alone, behind what the  *)
(* buffer holds; a new vector is an empty buffer.  Policies exist for      *)
(* artifacts only.                                                         *)

Source == IF viewing THEN ArtifactOf(view) ELSE message

Written(part) ==
    IF part = "artifact" THEN (IF viewing THEN WriteArtifactRef ELSE WriteArtifact(message))
    ELSE (IF viewing THEN WriteSignatureRef ELSE WriteSignature(message.signature))

Encode(part, limit) ==
    /\ Ready
    /\ UNCHANGED <<message, view, viewing>>
    /\ part = "signature" => Source.signature.present /\ limit = NoLimits
    /\ answer' = Preflight(limit, OuterLen(Written(part)))
    /\ destination' = IF answer' # Ok THEN destination
                      ELSE destination \o Written(part)

\* The caller reads its buffer back, or clears it.
Decodes(part, w) == IF part = "artifact" THEN ArtifactRefusal(w) = "none" ELSE CarrierRefusal(w) = "none"

ReadBack ==
    /\ ~Ready /\ ~viewing
    /\ ArtifactRefusal(destination) = "none"
    /\ message' = ArtifactOf(destination)
    /\ destination' \in Prior
    /\ answer' = Ok
    /\ UNCHANGED <<view, viewing>>

Clear ==
    /\ ~Ready
    /\ destination' \in Prior
    /\ answer' = Ok
    /\ UNCHANGED <<message, view, viewing>>

FacadeNext ==
    \/ \E w \in Incoming, limit \in Limits : DecodeArtifact(w, limit) \/ DecodeRef(w, limit)
    \/ \E w \in IncomingCarriers : DecodeSignature(w)
    \/ ToOwned
    \/ \E b \in Strings : SetPayload(b) \/ SetSignatureOctets(b)
    \/ \E k \in Strings \cup {"absent"} : SetKeyid(k)
    \/ SetSignature
    \/ TakeSignature
    \/ \E v \in Algorithms : SetAlgorithmWireValue(v)
    \/ DiscardUnknownFields
    \/ ViewArtifact
    \/ \E part \in {"artifact", "signature"}, limit \in Limits :
          Encode(part, limit)
    \/ ReadBack
    \/ Clear

FacadeSpec == FacadeInit /\ [][FacadeNext]_facadeVars

-----------------------------------------------------------------------------
(* Properties.                                                             *)

\* What an encoder has added to the buffer reads back as the message that was
\* encoded and is within what was allowed; a failure adds nothing, and what it
\* would have added is too long for the format or for the policy, which then
\* reports that very size.  What the buffer held counts for neither.
Faithful(part, limit) ==
    LET added == SubSeq(destination', Len(destination) + 1, Len(destination'))
        size == OuterLen(added)
        needed == OuterLen(Written(part))
    IN  IF answer' = Ok
        THEN /\ SubSeq(destination', 1, Len(destination)) = destination
             /\ Decodes(part, added)
             /\ IF part = "artifact" THEN ArtifactOf(added) = Source
                ELSE SignatureOf(NoSignature, added) = Source.signature
             /\ size <= FormatCeiling /\ ~OverCeiling(limit, size)
        ELSE /\ destination' = destination
             /\ needed > FormatCeiling \/ OverCeiling(limit, needed)
             /\ OverCeiling(limit, needed) => answer'.kind = "resource"
             /\ answer'.why = "output_too_large" => answer'.observed = needed

\* Every encoder is faithful (encode_facade_into, write_facade_wire).
EncodingFaithful ==
    [][facadeVars' # facadeVars =>
         \A part \in {"artifact", "signature"}, limit \in Limits :
            Encode(part, limit) => Faithful(part, limit)]_facadeVars
=============================================================================
