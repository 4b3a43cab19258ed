------------------------------- MODULE Envelope -------------------------------
(***************************************************************************)
(* Signed artifacts in their two wire forms: composing them from a payload *)
(* and a signature carrier, splitting them again, and transcoding a signed *)
(* artifact from one form into the other, each with or without a resource  *)
(* policy.  A caller receives or composes one artifact and then makes any  *)
(* calls on it; a transcoding replaces it by its result.  The two loops    *)
(* over untrusted input, the search for the last marker and the reading of *)
(* the outer protobuf fields, take one step per iteration.                 *)
(***************************************************************************)
EXTENDS ArtifactText, SigningSizes

CONSTANTS
    Texts,             \* YAML artifacts that may arrive from outside
    Wires,             \* outer protobuf messages that may arrive from outside
    Components,        \* pairs <<payload, carrier>> a caller may compose
    Policies,          \* NoPolicy, 0 (no ceiling) or a ceiling in octets
    Weight,            \* octets of each character
    Documents,         \* texts the YAML parser reads, with what they say
    Carriers,          \* inner protobuf carriers the decoder reads, likewise
    CanonicalDocument, \* the text the serializer emits for a signature
    CanonicalCarrier,  \* the carrier the encoder emits for a signature
    MaxDocument,       \* SIGNATURE_DOCUMENT_MAX_BYTES
    MaxMessageBytes    \* the ceiling of a protobuf message

Characters == DOMAIN Weight

Tags == {"payload", "signature", "unknown"}

\* Fields of the outer message as they stand on the wire: length-delimited, of
\* another wire type, or cut short.
WireFields == [tag : Tags, type : {"len", "other", "cut"}, value : Seq(Characters)]

\* The codecs read what they write; no signature reads from an empty document,
\* and no line of an emitted document is three hyphens.
ASSUME EnvelopeAssumption ==
    /\ Weight \in [Characters -> Nat]
    /\ {"-", "lf", "cr"} \subseteq Characters
    /\ \A ch \in {"-", "lf", "cr"} : Weight[ch] = 1
    /\ Texts \subseteq Seq(Characters)
    /\ Wires \subseteq Seq(WireFields)
    /\ Components \subseteq Seq(Characters) \X Seq(Characters)
    /\ Policies \subseteq Int
    /\ MaxMessageBytes \in Int /\ MaxDocument \in Int
    /\ DOMAIN CanonicalDocument \cap {"none", "too_long", "unreadable"} = {}
    /\ <<>> \in DOMAIN Documents => Documents[<<>>] \notin DOMAIN CanonicalDocument
    /\ \A s \in DOMAIN CanonicalDocument :
         /\ CanonicalDocument[s] \in Seq(Characters)
         /\ CanonicalDocument[s] # <<>> /\ Utf8Ok(CanonicalDocument[s])
         /\ ~ContainsConstrainedMarker(CanonicalDocument[s])
         /\ CanonicalDocument[s] \in DOMAIN Documents /\ Documents[CanonicalDocument[s]] = s
         /\ CanonicalCarrier[s] \in Seq(Characters)
         /\ CanonicalCarrier[s] \in DOMAIN Carriers /\ Carriers[CanonicalCarrier[s]] = s

VARIABLES
    held,     \* the caller's artifact, in its form
    call,     \* the call in progress, or the last one
    running,  \* whether a loop of the call is still running
    at,       \* next octet or field of that loop
    last,     \* last_marker, 0 while none has been found
    seen,     \* what the field loop has collected
    result,   \* what the last call returned
    origin    \* where the artifact came from; no code reads it

vars == <<held, call, running, at, last, seen, result, origin>>

NoPolicy == -1
Forms == {"yaml", "protobuf"}
Modes == {"none", "strict", "signature_strict"}
Signatures == DOMAIN CanonicalDocument

Nothing == [form |-> "none", text |-> <<>>, wire |-> <<>>]
Yaml(t) == [form |-> "yaml", text |-> t, wire |-> <<>>]
Proto(w) == [form |-> "protobuf", text |-> <<>>, wire |-> w]

NoCall == [op |-> "none", mode |-> "none", policy |-> NoPolicy]
NoOrigin == [how |-> "none", doc |-> Nothing, payload |-> <<>>, carrier |-> <<>>]
NothingSeen == [payload |-> <<>>, carrier |-> <<>>, payloads |-> 0, carriers |-> 0]

Refused(why) == [kind |-> "refused", why |-> why, payload |-> <<>>, carrier |-> <<>>]
Unsigned == [kind |-> "unsigned", why |-> "none", payload |-> <<>>, carrier |-> <<>>]
Malformed == [kind |-> "malformed", why |-> "none", payload |-> <<>>, carrier |-> <<>>]
SplitInto(p, c) == [kind |-> "split", why |-> "none", payload |-> p, carrier |-> c]
Done == [kind |-> "done", why |-> "none", payload |-> <<>>, carrier |-> <<>>]

-----------------------------------------------------------------------------
(* Sizes and policies.                                                     *)

Octets(t) ==
    LET upTo[i \in 0..Len(t)] == IF i = 0 THEN 0 ELSE upTo[i - 1] + Weight[t[i]]
    IN  upTo[Len(t)]

\* A field of the outer message: [tag, type, value].
FieldOctets(f) == IF f.type = "len" THEN PushLenField(1, Octets(f.value)) ELSE 2

WireOctets(w) ==
    LET upTo[i \in 0..Len(w)] == IF i = 0 THEN 0 ELSE upTo[i - 1] + FieldOctets(w[i])
    IN  upTo[Len(w)]

InputOctets(doc) == IF doc.form = "yaml" THEN Octets(doc.text) ELSE WireOctets(doc.wire)

Fits(size, policy) == policy <= 0 \/ size <= policy

Field(tag, value) == [tag |-> tag, type |-> "len", value |-> value]

\* Both fields are written, also when they are empty.
ComposeOuter(p, c) == <<Field("payload", p), Field("signature", c)>>

\* Fault: every length is taken to fit one varint octet.
ProjectedOctetsOneOctet(form, p, c) ==
    IF form = "yaml" THEN Octets(p) + 4 + Octets(c) ELSE 4 + Octets(p) + Octets(c)

\* The projection of compose_with_resource_limits.
ProjectedOctets(form, p, c) ==
    IF form = "yaml" THEN Octets(p) + 4 + Octets(c)
    ELSE LenFieldSize(Octets(p)) + LenFieldSize(Octets(c))

Admitted(form, size, policy) ==
    policy # NoPolicy =>
        /\ Fits(size, policy)
        /\ form = "protobuf" => size <= MaxMessageBytes

-----------------------------------------------------------------------------
(* Composition.                                                            *)

\* The reply of compose and compose_with_resource_limits: a refusal or Done.
ComposeReply(form, p, c, policy) ==
    IF ~Admitted(form, ProjectedOctets(form, p, c), policy) THEN Refused("size")
    ELSE IF form = "yaml" /\ ~PayloadValid(p) THEN Refused("payload")
    ELSE IF form = "yaml" /\ ContainsConstrainedMarker(c) THEN Refused("carrier")
    ELSE Done

Composed(form, p, c) ==
    IF form = "yaml" THEN Yaml(ComposeText(p, c)) ELSE Proto(ComposeOuter(p, c))

-----------------------------------------------------------------------------
(* Transcoding, once the artifact has been split.                          *)

\* Parsing is bounded by the length of the carrier; what is read may still
\* name another schema, an unknown algorithm or undecodable text.
ReadDocument(c) ==
    IF Octets(c) > MaxDocument THEN "too_long"
    ELSE IF c \in DOMAIN Documents THEN Documents[c] ELSE "unreadable"

ReadCarrier(c) == IF c \in DOMAIN Carriers THEN Carriers[c] ELSE "unreadable"

\* yaml_to_proto_components and the admission of the outer message.
ToProtoReply(p, c, policy) ==
    LET signature == ReadDocument(c)
    IN  IF ~PayloadValid(p) THEN Refused("payload")
        ELSE IF signature \notin Signatures THEN Refused("signature")
        ELSE IF ~Admitted("protobuf", WireOctets(ComposeOuter(p, CanonicalCarrier[signature])), policy)
             THEN Refused("size")
        ELSE Done

\* Fault: the payload is trusted as it comes out of the message.
ToYamlReplyUnchecked(p, c, policy) ==
    LET signature == ReadCarrier(c)
    IN  IF signature \notin Signatures THEN Refused("signature")
        ELSE IF ~Fits(Octets(p) + 4 + Octets(CanonicalDocument[signature]), policy) THEN Refused("size")
        ELSE Done

\* proto_to_yaml_components, the admission of the text and its composition.
ToYamlReply(p, c, policy) ==
    LET signature == ReadCarrier(c)
    IN  IF ~PayloadValid(p) THEN Refused("payload")
        ELSE IF signature \notin Signatures THEN Refused("signature")
        ELSE IF ~Fits(Octets(p) + 4 + Octets(CanonicalDocument[signature]), policy) THEN Refused("size")
        ELSE IF ContainsConstrainedMarker(CanonicalDocument[signature]) THEN Refused("not_signed")
        ELSE Done

TranscodeReply(form, split, policy) ==
    IF split.kind # "split" THEN Refused("not_signed")
    ELSE IF form = "yaml" THEN ToProtoReply(split.payload, split.carrier, policy)
    ELSE ToYamlReply(split.payload, split.carrier, policy)

Transcoded(form, split) ==
    IF form = "yaml"
    THEN Proto(ComposeOuter(split.payload, CanonicalCarrier[ReadDocument(split.carrier)]))
    ELSE Yaml(ComposeText(split.payload, CanonicalDocument[ReadCarrier(split.carrier)]))

-----------------------------------------------------------------------------
(* The caller.                                                             *)

Init ==
    /\ held = Nothing
    /\ call = NoCall
    /\ running = FALSE
    /\ at = 1
    /\ last = 0
    /\ seen = NothingSeen
    /\ result = Done
    /\ origin = NoOrigin

Receive(doc) ==
    /\ origin = NoOrigin
    /\ held' = doc
    /\ origin' = [NoOrigin EXCEPT !.how = "received", !.doc = doc]
    /\ UNCHANGED <<call, running, at, last, seen, result>>

\* compose and compose_with_resource_limits.  A refusal leaves nothing; what
\* would have been written is remembered in origin.
Compose(form, p, c, policy) ==
    /\ origin = NoOrigin
    /\ call' = [op |-> "compose", mode |-> "none", policy |-> policy]
    /\ result' = ComposeReply(form, p, c, policy)
    /\ held' = IF result' = Done THEN Composed(form, p, c) ELSE Nothing
    /\ origin' = [how |-> IF result' = Done THEN "composed" ELSE "refused",
                  doc |-> Composed(form, p, c), payload |-> p, carrier |-> c]
    /\ UNCHANGED <<running, at, last, seen>>

\* The end of a call whose artifact was split, or could not be; the locals of
\* its loop are gone.
Conclude(split) ==
    /\ running' = FALSE
    /\ IF call.op = "decompose"
       THEN result' = split /\ held' = held
       ELSE /\ result' = TranscodeReply(held.form, split, call.policy)
            /\ held' = IF result' = Done THEN Transcoded(held.form, split) ELSE held
    /\ at' = 1
    /\ last' = 0
    /\ seen' = NothingSeen
    /\ UNCHANGED <<call, origin>>

\* The mode an entry point passes on: the caller's for a decomposition, the
\* tolerant one for the transcoding of a message.
ModeOf(op, mode) ==
    IF op = "decompose" THEN mode
    ELSE IF held.form = "yaml" THEN "none" ELSE "signature_strict"

ModeFits(mode) == (held.form = "yaml") <=> (mode = "none")

\* decompose, the two transcodings, and their variants with a policy: the
\* size of the input comes first, then the shape of the request, then text
\* that cannot be an artifact at all.
Ask(op, mode, policy) ==
    /\ held # Nothing
    /\ ~running
    /\ mode = ModeOf(op, mode)
    /\ call' = [op |-> op, mode |-> mode, policy |-> policy]
    /\ at' = 1
    /\ last' = 0
    /\ seen' = NothingSeen
    /\ IF policy # NoPolicy /\ ~Fits(InputOctets(held), policy)
       THEN result' = Refused("size") /\ running' = FALSE
       ELSE IF ~ModeFits(mode)
       THEN result' = Refused("mode") /\ running' = FALSE
       ELSE IF held.form = "yaml" /\ (~Utf8Ok(held.text) \/ BomAtZero(held.text))
       THEN /\ result' = IF op = "decompose" THEN Malformed ELSE Refused("not_signed")
            /\ running' = FALSE
       ELSE IF held = Yaml(<<>>)
       THEN /\ result' = IF op = "decompose" THEN Unsigned ELSE Refused("not_signed")
            /\ running' = FALSE
       ELSE result' = Done /\ running' = TRUE
    /\ UNCHANGED <<held, origin>>

-----------------------------------------------------------------------------
(* The search for the last marker.                                         *)

PastMarker(t, i) == IF MarkerLen(t, i) > 0 THEN i + MarkerLen(t, i) ELSE i + 1

Scan ==
    /\ running
    /\ held.form = "yaml"
    /\ at <= Len(held.text)
    /\ last' = IF MarkerLen(held.text, at) > 0 THEN at ELSE last
    /\ at' = PastMarker(held.text, at)
    /\ UNCHANGED <<held, call, running, seen, result, origin>>

\* An artifact that ends with its marker has no carrier.
SplitAtLast ==
    LET t == held.text
        end == last + MarkerLen(t, last)
    IN  IF last = 0 THEN Unsigned
        ELSE IF end = Len(t) + 1 THEN Malformed
        ELSE SplitInto(SubSeq(t, 1, last - 1), SubSeq(t, end, Len(t)))

EndScan ==
    /\ running
    /\ held.form = "yaml"
    /\ at > Len(held.text)
    /\ Conclude(SplitAtLast)

-----------------------------------------------------------------------------
(* The outer fields.                                                       *)

\* Truncated or undecodable fields, foreign ones and repeated payloads under
\* the strict mode, and a second signature under both.
FieldRefused(f) ==
    \/ f.type = "cut"
    \/ call.mode = "strict" /\ (f.type # "len" \/ f.tag = "unknown")
    \/ call.mode = "strict" /\ f.tag = "payload" /\ seen.payloads > 0
    \/ f.type = "len" /\ f.tag = "signature" /\ seen.carriers > 0

\* The last payload counts; fields of another wire type are skipped.
Collect(f) ==
    IF f.type # "len" THEN seen
    ELSE IF f.tag = "payload"
         THEN [seen EXCEPT !.payload = f.value, !.payloads = @ + 1]
    ELSE IF f.tag = "signature"
         THEN [seen EXCEPT !.carrier = f.value, !.carriers = @ + 1]
    ELSE seen

ReadField ==
    /\ running
    /\ held.form = "protobuf"
    /\ at <= Len(held.wire)
    /\ ~FieldRefused(held.wire[at])
    /\ seen' = Collect(held.wire[at])
    /\ at' = at + 1
    /\ UNCHANGED <<held, call, running, last, result, origin>>

RefuseField ==
    /\ running
    /\ held.form = "protobuf"
    /\ at <= Len(held.wire)
    /\ FieldRefused(held.wire[at])
    /\ Conclude(Malformed)

EndFields ==
    /\ running
    /\ held.form = "protobuf"
    /\ at > Len(held.wire)
    /\ Conclude(IF seen.carriers = 0 THEN Malformed ELSE SplitInto(seen.payload, seen.carrier))

-----------------------------------------------------------------------------

Next ==
    \/ \E t \in Texts : Receive(Yaml(t))
    \/ \E w \in Wires : Receive(Proto(w))
    \/ \E form \in Forms, parts \in Components, policy \in Policies :
          Compose(form, parts[1], parts[2], policy)
    \/ \E op \in {"decompose", "transcode"}, mode \in Modes, policy \in Policies :
          Ask(op, mode, policy)
    \/ Scan
    \/ EndScan
    \/ ReadField
    \/ RefuseField
    \/ EndFields

Spec == Init /\ [][Next]_vars

-----------------------------------------------------------------------------
(* What the two forms say, defined without the loops.                      *)

LastMark(t) == CHOOSE i \in Marks(t) : \A j \in Marks(t) : j <= i

IsText(t) == Utf8Ok(t) /\ ~BomAtZero(t)

TextReadRightly(t, r) ==
    \/ r.kind = "split" /\ IsText(t) /\ TextSplitsInto(t, r.payload, r.carrier)
    \/ r.kind = "unsigned" /\ IsText(t) /\ Marks(t) = {}
    \/ /\ r.kind = "malformed"
       /\ IsText(t) => \E i \in Marks(t) : SubSeq(t, i, Len(t)) \in MarkerTexts

FieldsOf(w, tag) == { i \in 1..Len(w) : w[i].type = "len" /\ w[i].tag = tag }

LastValue(w, tag) ==
    IF FieldsOf(w, tag) = {} THEN <<>>
    ELSE w[CHOOSE i \in FieldsOf(w, tag) : \A j \in FieldsOf(w, tag) : j <= i].value

OnlyOne(S) == \A i, j \in S : i = j

\* One signature; under the strict mode also at most one payload and no more.
WireAccepted(w, mode) ==
    /\ \A i \in 1..Len(w) : w[i].type # "cut"
    /\ FieldsOf(w, "signature") # {} /\ OnlyOne(FieldsOf(w, "signature"))
    /\ mode = "strict" =>
         /\ \A i \in 1..Len(w) : w[i].type = "len" /\ w[i].tag \in {"payload", "signature"}
         /\ OnlyOne(FieldsOf(w, "payload"))

WireReadRightly(w, mode, r) ==
    IF WireAccepted(w, mode)
    THEN r = SplitInto(LastValue(w, "payload"), LastValue(w, "signature"))
    ELSE r = Malformed

Exceeds(size, policy) == policy > 0 /\ size > policy

\* What a verifier would take from the artifact: payload octets and signature.
Meaning(doc) ==
    LET i == LastMark(doc.text)
        end == i + IF doc.text[i + 3] = "lf" THEN 4 ELSE 5
    IN  IF doc.form = "yaml" /\ IsText(doc.text) /\ Marks(doc.text) # {}
        THEN [payload |-> SubSeq(doc.text, 1, i - 1),
              signature |-> ReadDocument(SubSeq(doc.text, end, Len(doc.text)))]
        ELSE IF doc.form = "protobuf" /\ WireAccepted(doc.wire, "signature_strict")
        THEN [payload |-> LastValue(doc.wire, "payload"),
              signature |-> ReadCarrier(LastValue(doc.wire, "signature"))]
        ELSE [payload |-> <<>>, signature |-> "none"]

Meaningful(doc) == Meaning(doc).signature \in Signatures /\ PayloadValid(Meaning(doc).payload)

-----------------------------------------------------------------------------
(* Properties.                                                             *)

Results == {"refused", "unsigned", "malformed", "split", "done"}

\* Every variable keeps its shape, and the loop runs over the artifact that
\* is held (all of Envelope).
TypeOK ==
    /\ held.form \in Forms \cup {"none"}
    /\ call.op \in {"none", "compose", "decompose", "transcode"}
    /\ call.mode \in Modes
    /\ call.policy \in Policies \cup {NoPolicy}
    /\ running \in BOOLEAN
    /\ running => held.form \in Forms /\ call.op \in {"decompose", "transcode"}
    /\ at \in 1..(IF held.form = "yaml" THEN Len(held.text) ELSE Len(held.wire)) + 1
         \/ ~running
    /\ running => last < at
    /\ seen.payloads \in Nat /\ seen.carriers \in 0..1
    /\ result.kind \in Results
    /\ origin.how \in {"none", "received", "composed", "refused"}

\* A decomposition returns what the artifact says: the payload before the last
\* marker and a carrier without one, or the last payload and the only
\* signature of a message (decompose_artifact, decompose_raw_outer).
DecomposedRightly ==
    ~running /\ call.op = "decompose" /\ result.kind # "refused" =>
        IF held.form = "yaml" THEN TextReadRightly(held.text, result)
        ELSE WireReadRightly(held.wire, call.mode, result)

\* What compose joined, decompose takes apart again, in every mode.  A YAML
\* artifact whose carrier is empty or is not text is composed all the same
\* and is then malformed (compose, decompose).
ComposedSplitsBack ==
    /\ ~running /\ call.op = "decompose" /\ result.kind # "refused"
    /\ origin.how = "composed" /\ held = origin.doc
    => \/ result = SplitInto(origin.payload, origin.carrier)
       \/ /\ held.form = "yaml" /\ (origin.carrier = <<>> \/ ~Utf8Ok(origin.carrier))
          /\ result = Malformed

\* A carrier is refused only if the joined artifact would be split elsewhere:
\* the recogniser of compose is no stricter than the one of decompose.
RefusedJoinIsAmbiguous ==
    origin.how = "refused" /\ result.why = "carrier" =>
        LastMark(origin.doc.text) # Len(origin.payload) + 1

\* compose joins exactly what decompose can take apart again.
JoinExact == ComposedSplitsBack /\ RefusedJoinIsAmbiguous

\* However often an artifact is transcoded, it keeps its payload octets and
\* its signature; only a signature document that has grown beyond the parser's
\* bound can no longer be read (transcription.rs of yaml-sigil-signing).
MeaningKept ==
    held # Nothing /\ held # origin.doc =>
        /\ Meaning(held).payload = Meaning(origin.doc).payload
        /\ \/ Meaning(held).signature = Meaning(origin.doc).signature
           \/ Meaning(held).signature = "too_long"

\* A transcoding is refused only for what the artifact lacks or for a size
\* that is really exceeded, by its input or by what it would have emitted.
RefusedForCause ==
    ~running /\ call.op = "transcode" /\ result.kind = "refused" =>
        IF result.why = "size"
        THEN LET m == Meaning(held)
                 output == IF held.form = "yaml"
                           THEN Proto(ComposeOuter(m.payload, CanonicalCarrier[m.signature]))
                           ELSE Yaml(ComposeText(m.payload, CanonicalDocument[m.signature]))
             IN  \/ Exceeds(InputOctets(held), call.policy)
                 \/ Exceeds(InputOctets(output), call.policy)
                 \/ output.form = "protobuf" /\ InputOctets(output) > MaxMessageBytes
        ELSE ~Meaningful(held)

\* What a transcoding emitted can be transcoded back, unless a size forbids it
\* (transcription.rs, signature_doc.rs).
ReturnTrip ==
    /\ ~running /\ call.op = "transcode" /\ result.kind = "refused"
    /\ held # origin.doc
    => result.why = "size" \/ Meaning(held).signature = "too_long"

\* Transcodings lose nothing, and can be undone.
TranscodingKeeps == MeaningKept /\ ReturnTrip

\* Under a ceiling nothing larger is emitted, and a composition is refused
\* only if what it would emit is larger: projection and emission agree.
SizesAgree ==
    /\ call.op \in {"compose", "transcode"} /\ ~running /\ result = Done =>
         ~Exceeds(InputOctets(held), call.policy)
    /\ origin.how = "refused" /\ result.why = "size" =>
         \/ Exceeds(InputOctets(origin.doc), call.policy)
         \/ origin.doc.form = "protobuf" /\ InputOctets(origin.doc) > MaxMessageBytes

\* Refusals have their cause, and projected sizes are those of what is emitted.
RefusalsJustified == RefusedForCause /\ SizesAgree
=============================================================================
