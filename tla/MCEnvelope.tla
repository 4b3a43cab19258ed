------------------------------ MODULE MCEnvelope ------------------------------
(* Artifacts built from lines and fragments, messages of up to three fields. *)
(* Signature a is short, b has the longest document the parser accepts, and  *)
(* the document emitted for c is longer than the one it may be read from.    *)
EXTENDS Envelope, MessageFacade

LongestDocument == 16384
LargestMessage == 12010

Weights ==
    [ch \in {"-", "lf", "cr", "x", "lead", "cont", "bom", "pad", "a", "b", "c", "c-quoted",
             "wrong-schema", "ia", "ia-unknown", "ib", "ic", "i-alg"} |->
        CASE ch = "bom" -> 3 [] ch = "pad" -> 126 [] ch = "a" -> 150
          [] ch = "b" -> LongestDocument - 1 [] ch = "c" -> LongestDocument
          [] ch = "c-quoted" -> LongestDocument + 2 [] ch = "wrong-schema" -> 150
          [] ch = "ia" -> 68 [] ch = "ia-unknown" -> 74 [] ch = "ib" -> 12000 [] ch = "ic" -> 12100
          [] ch = "i-alg" -> 68 [] OTHER -> 1]

Line(ch) == <<ch, "lf">>

\* A comment line that ends in hyphens, before the document itself.
Commented == <<"x", "-", "-", "-", "lf", "a", "lf">>

ReadableDocuments ==
    [t \in {Line("a"), <<"a">>, <<"a", "cr", "lf">>, Commented, Line("b"), <<"b", "cr", "lf">>,
            <<"c">>, Line("c-quoted"), Line("wrong-schema")} |->
        CASE t = Line("b") \/ t = <<"b", "cr", "lf">> -> "sig-b"
          [] t = <<"c">> \/ t = Line("c-quoted") -> "sig-c"
          [] t = Line("wrong-schema") -> "schema" [] OTHER -> "sig-a"]

EmittedDocument ==
    [s \in {"sig-a", "sig-b", "sig-c"} |->
        CASE s = "sig-a" -> Line("a") [] s = "sig-b" -> Line("b") [] OTHER -> Line("c-quoted")]

ReadableCarriers ==
    [t \in {<<"ia">>, <<"ia-unknown">>, <<"ib">>, <<"ic">>, <<"i-alg">>} |->
        CASE t = <<"ib">> -> "sig-b" [] t = <<"ic">> -> "sig-c"
          [] t = <<"i-alg">> -> "algorithm" [] OTHER -> "sig-a"]

EmittedCarrier ==
    [s \in {"sig-a", "sig-b", "sig-c"} |->
        CASE s = "sig-a" -> <<"ia">> [] s = "sig-b" -> <<"ib">> [] OTHER -> <<"ic">>]

-----------------------------------------------------------------------------

Fragments == { LfMarker, CrLfMarker, <<"-", "-", "-">>, <<"-">>, Line("x"), <<"cr">>, <<"lead">>,
               <<"cont">>, <<"bom">>, Line("a") }

Heads ==
    { <<>> } \cup Fragments
      \cup { f \o g : f \in Fragments, g \in {LfMarker, <<"-", "-", "-">>, Line("x"), <<"cont">>} }

Middles == { <<>>, LfMarker, CrLfMarker, <<"x">> \o LfMarker, <<"-", "-", "-">> }

Tails == DOMAIN ReadableDocuments \cup { <<>>, LfMarker, <<"lead", "cont", "lf">> }

ArrivingTexts == { h \o m \o t : h \in Heads, m \in Middles, t \in Tails }

SomeFields ==
    { Field("payload", v) : v \in { Line("x"), <<"x">>, <<"pad", "lf">>, LfMarker } }
      \cup { Field("signature", v) : v \in { <<"ia">>, <<"ia-unknown">>, <<"ic">>, <<"i-alg">>, <<>> } }
      \cup { Field("unknown", <<"x">>) }
      \cup { [tag |-> tag, type |-> "other", value |-> <<>>] : tag \in {"payload", "unknown"} }
      \cup { [tag |-> "unknown", type |-> "cut", value |-> <<>>] }

ArrivingWires == { <<>> } \cup { <<f>> : f \in SomeFields }
                    \cup { <<f, g>> : f \in SomeFields, g \in SomeFields }
                    \cup { <<f, g, h>> : f \in SomeFields, g \in SomeFields, h \in SomeFields }

\* Payloads of 127 and 128 octets are on both sides of a varint boundary.
ComposedParts ==
    { <<>>, Line("x"), <<"x">>, LfMarker, <<"lead", "lf">>, <<"bom", "lf">>, <<"pad", "lf">>,
      <<"pad", "x", "lf">>, Line("x") \o LfMarker \o Line("a") }
      \X ({ <<>>, <<"lead">>, LfMarker, CrLfMarker, <<"a">> \o LfMarker,
            Line("a") \o CrLfMarker \o <<"x">>, <<"-", "-", "-">>, <<"cr">> \o LfMarker, <<"ia">>, <<"ic">> }
            \cup DOMAIN ReadableDocuments)

\* Sizes of small artifacts in both forms; 200 is one less than such a size.
Ceilings == { NoPolicy, 0, 74, 157, 200 }

-----------------------------------------------------------------------------
(* The message facade is explored beside the envelopes.  They share no     *)
(* state, so that one of them rests while the other moves.                 *)

\* Lengths below and above a varint boundary; two long strings together are
\* too long for the format, three for the platform.
Lengths ==
    [b \in {"empty", "p127", "long", "not-utf8"} |->
        CASE b = "empty" -> 0 [] b = "p127" -> 127 [] b = "long" -> 600 [] OTHER -> 3]

SmallFormat == 1000
SmallPlatform == 1500

\* Unspecified, recognized and negative.
WireValues == {0, 2, -1}

UnknownField == LenField(9, "p127")

SomeCarriers ==
    { <<>>, <<VarintField(1, 1), LenField(3, "p127")>>, <<VarintField(1, -1), UnknownField>>,
      <<LenField(2, "empty"), LenField(2, "long"), UnknownField>>, <<LenField(2, "not-utf8")>>,
      <<LenField(1, "p127")>>, <<CutField(3)>> }

Nest(w) == NestedField(2, w, InnerLen(w))

SomeArtifacts ==
    { <<>>, <<LenField(1, "long"), LenField(1, "p127"), UnknownField>>, <<VarintField(1, 3)>>,
      <<LenField(1, "long"), Nest(<<>>)>>, <<UnknownField, CutField(9)>>, <<LenField(2, "p127")>> }
      \cup { <<Nest(w)>> : w \in SomeCarriers }
      \cup { <<LenField(1, "p127"), Nest(w), UnknownField, Nest(<<LenField(2, "p127")>>)>> : w \in SomeCarriers }

\* Nothing, or another artifact in front.
Contents == { <<>>, <<LenField(1, "p127"), Nest(<<VarintField(1, 2)>>)>> }

\* 129 and 131 are sizes of small artifacts.
Bounds == { NoLimits, 0, 129, 131 }

FacadeRests == message = EmptyMessage /\ ~viewing /\ destination = <<>> /\ answer = Ok

EnvelopeRests == held = Nothing /\ origin = NoOrigin

CoreNext ==
    \/ /\ EnvelopeRests /\ FacadeRests
       /\ \/ \E t \in Texts : Receive(Yaml(t))
          \/ \E w \in Wires : Receive(Proto(w))
          \/ \E form \in Forms, parts \in Components, policy \in Policies :
                Compose(form, parts[1], parts[2], policy)
       /\ UNCHANGED facadeVars
    \/ /\ ~EnvelopeRests
       /\ \/ \E op \in {"decompose", "transcode"}, mode \in Modes, policy \in Policies :
                Ask(op, mode, policy)
          \/ Scan \/ EndScan \/ ReadField \/ RefuseField \/ EndFields
       /\ UNCHANGED facadeVars
    \/ EnvelopeRests /\ FacadeNext /\ UNCHANGED vars

CoreInit == Init /\ FacadeInit

CoreSpec == CoreInit /\ [][CoreNext]_<<vars, facadeVars>>
=============================================================================
