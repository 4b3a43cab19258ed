----------------------------- MODULE ArtifactText -----------------------------
(***************************************************************************)
(* Octet streams in YAML form, as sequences of characters: hyphen, line    *)
(* terminators, the halves of a two-octet character ("lead", "cont"), the  *)
(* byte order mark, characters that stand for a whole signature document,  *)
(* and anything else.  Two pieces of code recognise the constrained marker *)
(* independently of each other: MarkerLen, by which an artifact is split,  *)
(* and ContainsConstrainedMarker, which decides what may be joined.        *)
(***************************************************************************)
EXTENDS Integers, Sequences

LfMarker   == <<"-", "-", "-", "lf">>
CrLfMarker == <<"-", "-", "-", "cr", "lf">>

-----------------------------------------------------------------------------
(* Splitting.                                                              *)

\* A line starts at the beginning and after a line feed, not after a lone CR.
IsLineStart(t, i) == i = 1 \/ t[i - 1] = "lf"

\* Fault: any three hyphens before a terminator are taken for a marker.
MarkerLenAnywhere(t, i) ==
    IF i + 2 > Len(t) \/ t[i] # "-" \/ t[i+1] # "-" \/ t[i+2] # "-" \/ i + 3 > Len(t)
    THEN 0
    ELSE IF t[i+3] = "lf" THEN 4
    ELSE IF t[i+3] = "cr" /\ i + 4 <= Len(t) /\ t[i+4] = "lf" THEN 5 ELSE 0

\* Length of the marker that starts at position i, 0 if none does.
MarkerLen(t, i) ==
    IF i + 2 > Len(t) \/ t[i] # "-" \/ t[i+1] # "-" \/ t[i+2] # "-"
         \/ ~IsLineStart(t, i) \/ i + 3 > Len(t)
    THEN 0
    ELSE IF t[i+3] = "lf" THEN 4
    ELSE IF t[i+3] = "cr" /\ i + 4 <= Len(t) /\ t[i+4] = "lf" THEN 5 ELSE 0

Utf8Ok(t) ==
    \A i \in 1..Len(t) :
        /\ t[i] = "lead" => i < Len(t) /\ t[i+1] = "cont"
        /\ t[i] = "cont" => i > 1 /\ t[i-1] = "lead"

BomAtZero(t) == Len(t) > 0 /\ t[1] = "bom"

-----------------------------------------------------------------------------
(* Joining.                                                                *)

StartsWith(t, w) == Len(w) <= Len(t) /\ SubSeq(t, 1, Len(w)) = w

HasWindow(t, w) ==
    \E i \in 1..Len(t) : i + Len(w) - 1 <= Len(t) /\ SubSeq(t, i, i + Len(w) - 1) = w

\* Fault: the carrier's own first line is not looked at.
ContainsLaterMarker(c) ==
    HasWindow(c, <<"lf">> \o LfMarker) \/ HasWindow(c, <<"lf">> \o CrLfMarker)

ContainsConstrainedMarker(c) ==
    \/ StartsWith(c, LfMarker)
    \/ StartsWith(c, CrLfMarker)
    \/ HasWindow(c, <<"lf">> \o LfMarker)
    \/ HasWindow(c, <<"lf">> \o CrLfMarker)

\* The next octet would begin a line.
LineEnds(p) == p # <<>> => p[Len(p)] = "lf"

\* A payload is text without a byte order mark whose last line is terminated.
PayloadValid(p) ==
    /\ Utf8Ok(p)
    /\ ~BomAtZero(p)
    /\ LineEnds(p)

ComposeText(p, c) == p \o LfMarker \o c

-----------------------------------------------------------------------------
(* What splitting and joining are measured by, defined without a search.   *)

MarkerTexts == {LfMarker, CrLfMarker}

\* The markers of a text, defined without a search.
Marks(t) ==
    { i \in 1..Len(t) :
        /\ i = 1 \/ t[i - 1] = "lf"
        /\ \E m \in MarkerTexts : i + Len(m) - 1 <= Len(t) /\ SubSeq(t, i, i + Len(m) - 1) = m }

\* The artifact is payload, marker, carrier; the carrier has no marker.
TextSplitsInto(t, p, c) ==
    /\ \E m \in MarkerTexts : t = p \o m \o c
    /\ LineEnds(p)
    /\ c # <<>>
    /\ Marks(c) = {}
=============================================================================
