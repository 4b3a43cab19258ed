---------------------------- MODULE Envelope_proofs ----------------------------
(***************************************************************************)
(* What splitting, joining and transcoding return, for all texts and       *)
(* messages: type correctness, the loop invariants of the two readers of   *)
(* untrusted input, the agreement of compose with decompose, the exactness *)
(* of projected sizes, and that transcodings keep what an artifact means.  *)
(* Last, the message facade: what its encoders add reads back.             *)
(***************************************************************************)
EXTENDS Envelope, MessageFacade, SequenceTheorems, WellFoundedInduction, TLAPS

-----------------------------------------------------------------------------
(* Markers in texts of any length over any characters: what the two        *)
(* recognisers find, that markers do not overlap, and that a text can be   *)
(* split at its last marker in one way only.                               *)

MarkerAlphabet(S) == {"-", "lf", "cr"} \subseteq S

LfAt(t, i) ==
    /\ i + 3 <= Len(t)
    /\ t[i] = "-" /\ t[i+1] = "-" /\ t[i+2] = "-" /\ t[i+3] = "lf"

CrLfAt(t, i) ==
    /\ i + 4 <= Len(t)
    /\ t[i] = "-" /\ t[i+1] = "-" /\ t[i+2] = "-" /\ t[i+3] = "cr" /\ t[i+4] = "lf"

-----------------------------------------------------------------------------

LEMMA MarkerLiterals ==
    ASSUME NEW S, MarkerAlphabet(S)
    PROVE  /\ LfMarker \in Seq(S) /\ Len(LfMarker) = 4
           /\ LfMarker[1] = "-" /\ LfMarker[2] = "-" /\ LfMarker[3] = "-" /\ LfMarker[4] = "lf"
           /\ CrLfMarker \in Seq(S) /\ Len(CrLfMarker) = 5
           /\ CrLfMarker[1] = "-" /\ CrLfMarker[2] = "-" /\ CrLfMarker[3] = "-"
           /\ CrLfMarker[4] = "cr" /\ CrLfMarker[5] = "lf"
BY DEF LfMarker, CrLfMarker, MarkerAlphabet

\* MarkerLen is 4 before LF, 5 before CRLF, and 0 wherever no line consists of
\* three hyphens (marker_len).
LEMMA MarkerLenIs ==
    ASSUME NEW S, NEW t \in Seq(S), NEW i \in Nat \ {0}
    PROVE  /\ MarkerLen(t, i) \in {0, 4, 5}
           /\ MarkerLen(t, i) = 4 <=> IsLineStart(t, i) /\ LfAt(t, i)
           /\ MarkerLen(t, i) = 5 <=> IsLineStart(t, i) /\ CrLfAt(t, i)
<1>1. Len(t) \in Nat /\ "lf" # "cr"
  OBVIOUS
<1>2. QED
  BY <1>1 DEF MarkerLen, LfAt, CrLfAt

\* A window of a text is a marker if its octets are.
LEMMA Windows ==
    ASSUME NEW S, MarkerAlphabet(S), NEW t \in Seq(S), NEW i \in Nat \ {0}
    PROVE  /\ LfAt(t, i) <=> i + 3 <= Len(t) /\ SubSeq(t, i, i + 3) = LfMarker
           /\ CrLfAt(t, i) <=> i + 4 <= Len(t) /\ SubSeq(t, i, i + 4) = CrLfMarker
<1>0. Len(t) \in Nat /\ \A k \in 1..Len(t) : t[k] \in S
  OBVIOUS
<1>1. ASSUME NEW n \in {3, 4}, i + n <= Len(t)
      PROVE  /\ SubSeq(t, i, i + n) \in Seq(S) /\ Len(SubSeq(t, i, i + n)) = n + 1
             /\ \A k \in 1..(n + 1) : SubSeq(t, i, i + n)[k] = t[i + k - 1]
  <2>1. \A k \in i..(i + n) : t[k] \in S
    BY <1>0, <1>1
  <2>2. QED
    BY <1>1, <2>1, SubSeqProperties
<1>2. LfAt(t, i) <=> i + 3 <= Len(t) /\ SubSeq(t, i, i + 3) = LfMarker
  <2>1. SUFFICES ASSUME i + 3 <= Len(t) PROVE LfAt(t, i) <=> SubSeq(t, i, i + 3) = LfMarker
    BY DEF LfAt
  <2>2. /\ SubSeq(t, i, i + 3) \in Seq(S) /\ Len(SubSeq(t, i, i + 3)) = 4
        /\ SubSeq(t, i, i + 3)[1] = t[i] /\ SubSeq(t, i, i + 3)[2] = t[i + 1]
        /\ SubSeq(t, i, i + 3)[3] = t[i + 2] /\ SubSeq(t, i, i + 3)[4] = t[i + 3]
    BY <1>1, <2>1
  <2>3. SubSeq(t, i, i + 3) = LfMarker
          <=> \A k \in 1..4 : SubSeq(t, i, i + 3)[k] = LfMarker[k]
    BY <2>2, MarkerLiterals, SeqEqual
  <2>4. (\A k \in 1..4 : SubSeq(t, i, i + 3)[k] = LfMarker[k])
          <=> SubSeq(t, i, i + 3)[1] = LfMarker[1] /\ SubSeq(t, i, i + 3)[2] = LfMarker[2]
              /\ SubSeq(t, i, i + 3)[3] = LfMarker[3] /\ SubSeq(t, i, i + 3)[4] = LfMarker[4]
    OBVIOUS
  <2>5. LfMarker[1] = "-" /\ LfMarker[2] = "-" /\ LfMarker[3] = "-" /\ LfMarker[4] = "lf"
    BY MarkerLiterals
  <2>6. QED
    BY <2>1, <2>2, <2>3, <2>4, <2>5 DEF LfAt
<1>3. CrLfAt(t, i) <=> i + 4 <= Len(t) /\ SubSeq(t, i, i + 4) = CrLfMarker
  <2>1. SUFFICES ASSUME i + 4 <= Len(t) PROVE CrLfAt(t, i) <=> SubSeq(t, i, i + 4) = CrLfMarker
    BY DEF CrLfAt
  <2>2. /\ SubSeq(t, i, i + 4) \in Seq(S) /\ Len(SubSeq(t, i, i + 4)) = 5
        /\ SubSeq(t, i, i + 4)[1] = t[i] /\ SubSeq(t, i, i + 4)[2] = t[i + 1]
        /\ SubSeq(t, i, i + 4)[3] = t[i + 2] /\ SubSeq(t, i, i + 4)[4] = t[i + 3]
        /\ SubSeq(t, i, i + 4)[5] = t[i + 4]
    BY <1>1, <2>1
  <2>3. SubSeq(t, i, i + 4) = CrLfMarker
          <=> \A k \in 1..5 : SubSeq(t, i, i + 4)[k] = CrLfMarker[k]
    BY <2>2, MarkerLiterals, SeqEqual
  <2>4. (\A k \in 1..5 : SubSeq(t, i, i + 4)[k] = CrLfMarker[k])
          <=> SubSeq(t, i, i + 4)[1] = CrLfMarker[1] /\ SubSeq(t, i, i + 4)[2] = CrLfMarker[2]
              /\ SubSeq(t, i, i + 4)[3] = CrLfMarker[3] /\ SubSeq(t, i, i + 4)[4] = CrLfMarker[4] /\ SubSeq(t, i, i + 4)[5] = CrLfMarker[5]
    OBVIOUS
  <2>5. CrLfMarker[1] = "-" /\ CrLfMarker[2] = "-" /\ CrLfMarker[3] = "-" /\ CrLfMarker[4] = "cr" /\ CrLfMarker[5] = "lf"
    BY MarkerLiterals
  <2>6. QED
    BY <2>1, <2>2, <2>3, <2>4, <2>5 DEF CrLfAt
<1>4. QED
  BY <1>2, <1>3

\* The search and the definition agree on where markers are.
LEMMA MarksAre ==
    ASSUME NEW S, MarkerAlphabet(S), NEW t \in Seq(S), NEW i \in Nat \ {0}
    PROVE  /\ i \in Marks(t) <=> i <= Len(t) /\ MarkerLen(t, i) # 0
           /\ i \in Marks(t) <=> IsLineStart(t, i) /\ (LfAt(t, i) \/ CrLfAt(t, i))
<1>1. Len(t) \in Nat
  OBVIOUS
<1>2. i \in Marks(t) <=> /\ i <= Len(t)
                         /\ IsLineStart(t, i)
                         /\ \/ i + 4 - 1 <= Len(t) /\ SubSeq(t, i, i + 4 - 1) = LfMarker
                            \/ i + 5 - 1 <= Len(t) /\ SubSeq(t, i, i + 5 - 1) = CrLfMarker
  <2>1. Len(LfMarker) = 4 /\ Len(CrLfMarker) = 5
    BY MarkerLiterals
  <2>2. i \in Marks(t) <=>
          /\ i \in 1..Len(t)
          /\ i = 1 \/ t[i - 1] = "lf"
          /\ \E m \in {LfMarker, CrLfMarker} :
               i + Len(m) - 1 <= Len(t) /\ SubSeq(t, i, i + Len(m) - 1) = m
    BY DEF Marks, MarkerTexts
  <2>3. (\E m \in {LfMarker, CrLfMarker} :
           i + Len(m) - 1 <= Len(t) /\ SubSeq(t, i, i + Len(m) - 1) = m)
        <=> \/ i + Len(LfMarker) - 1 <= Len(t) /\ SubSeq(t, i, i + Len(LfMarker) - 1) = LfMarker
            \/ i + Len(CrLfMarker) - 1 <= Len(t) /\ SubSeq(t, i, i + Len(CrLfMarker) - 1) = CrLfMarker
    OBVIOUS
  <2>4. QED
    BY <1>1, <2>1, <2>2, <2>3, SMTT(40) DEF IsLineStart
<1>3. i + 4 - 1 = i + 3 /\ i + 5 - 1 = i + 4
  OBVIOUS
<1>4. i \in Marks(t) <=> i <= Len(t) /\ IsLineStart(t, i) /\ (LfAt(t, i) \/ CrLfAt(t, i))
  BY <1>2, <1>3, Windows
<1>5. LfAt(t, i) \/ CrLfAt(t, i) => i <= Len(t)
  BY <1>1 DEF LfAt, CrLfAt
<1>6. MarkerLen(t, i) # 0 <=> IsLineStart(t, i) /\ (LfAt(t, i) \/ CrLfAt(t, i))
  BY MarkerLenIs
<1>7. QED
  BY <1>4, <1>5, <1>6

\* No marker starts inside another: the search may jump over one it found
\* (find_last_marker).
LEMMA NoOverlap ==
    ASSUME NEW S, NEW t \in Seq(S), NEW i \in Nat \ {0}, MarkerLen(t, i) # 0,
           NEW j \in (i + 1)..(i + MarkerLen(t, i) - 1)
    PROVE  MarkerLen(t, j) = 0
<1>1. CASE MarkerLen(t, i) = 4
  <2>1. LfAt(t, i) /\ j \in {i + 1, i + 2, i + 3}
    BY <1>1, MarkerLenIs
  <2>2. t[j] # "-" \/ (j # 1 /\ t[j - 1] # "lf")
    BY <2>1 DEF LfAt
  <2>3. QED
    BY <2>2 DEF MarkerLen, IsLineStart
<1>2. CASE MarkerLen(t, i) = 5
  <2>1. CrLfAt(t, i) /\ j \in {i + 1, i + 2, i + 3, i + 4}
    BY <1>2, MarkerLenIs
  <2>2. t[j] # "-" \/ (j # 1 /\ t[j - 1] # "lf")
    BY <2>1 DEF CrLfAt
  <2>3. QED
    BY <2>2 DEF MarkerLen, IsLineStart
<1>3. QED
  BY <1>1, <1>2, MarkerLenIs

\* A marker lies within its text.
LEMMA MarkerWithin ==
    ASSUME NEW S, NEW t \in Seq(S), NEW i \in Nat \ {0}, MarkerLen(t, i) # 0
    PROVE  /\ MarkerLen(t, i) \in {4, 5}
           /\ i + MarkerLen(t, i) <= Len(t) + 1
           /\ t[i + MarkerLen(t, i) - 1] = "lf"
           /\ i = 1 \/ t[i - 1] = "lf"
<1>1. CASE MarkerLen(t, i) = 4
  <2>1. LfAt(t, i) /\ IsLineStart(t, i)
    BY <1>1, MarkerLenIs
  <2>2. QED
    BY <1>1, <2>1 DEF LfAt, IsLineStart
<1>2. CASE MarkerLen(t, i) = 5
  <2>1. CrLfAt(t, i) /\ IsLineStart(t, i)
    BY <1>2, MarkerLenIs
  <2>2. QED
    BY <1>2, <2>1 DEF CrLfAt, IsLineStart
<1>3. QED
  BY <1>1, <1>2, MarkerLenIs

-----------------------------------------------------------------------------
(* Joining and splitting.                                                  *)

\* A window of a text, octet by octet.
LEMMA WindowIs ==
    ASSUME NEW S, NEW t \in Seq(S), NEW w \in Seq(S), NEW i \in Nat \ {0},
           i + Len(w) - 1 <= Len(t)
    PROVE  SubSeq(t, i, i + Len(w) - 1) = w <=> \A k \in 1..Len(w) : t[i + k - 1] = w[k]
<1>1. Len(t) \in Nat /\ Len(w) \in Nat /\ \A k \in 1..Len(t) : t[k] \in S
  OBVIOUS
<1>2. \A k \in i..(i + Len(w) - 1) : t[k] \in S
  BY <1>1
<1>3. /\ SubSeq(t, i, i + Len(w) - 1) \in Seq(S)
      /\ Len(SubSeq(t, i, i + Len(w) - 1)) = Len(w)
      /\ \A k \in 1..Len(w) : SubSeq(t, i, i + Len(w) - 1)[k] = t[i + k - 1]
  <2>1. i \in Int /\ i + Len(w) - 1 \in Int /\ (i + Len(w) - 1) - i + 1 = Len(w)
    BY <1>1
  <2>2. QED
    BY <1>1, <1>2, <2>1, SubSeqProperties
<1>4. QED
  BY <1>3, SeqEqual

\* The two sides of the lemma under names, for the instances below.
WindowAt(t, i, w) == SubSeq(t, i, i + Len(w) - 1) = w
MatchesAt(t, i, w) == \A k \in 1..Len(w) : t[i + k - 1] = w[k]
WithinText(t, i, w) == i + Len(w) - 1 <= Len(t)

\* A window holds a text exactly when its octets match (has_window).
LEMMA WindowMatches ==
    ASSUME NEW S, NEW t \in Seq(S), NEW w \in Seq(S), NEW i \in Nat \ {0}, WithinText(t, i, w)
    PROVE  WindowAt(t, i, w) <=> MatchesAt(t, i, w)
<1>1. i + Len(w) - 1 <= Len(t)
  BY Zenon DEF WithinText
<1>2. SubSeq(t, i, i + Len(w) - 1) = w <=> \A k \in 1..Len(w) : t[i + k - 1] = w[k]
  BY <1>1, WindowIs
<1> QED
  BY <1>2, Zenon DEF WindowAt, MatchesAt

\* The marks of a text's tail are the marks of the text there, if the tail
\* begins a line.
LEMMA MarksOfTail ==
    ASSUME NEW S, MarkerAlphabet(S), NEW t \in Seq(S), NEW c \in Seq(S),
           NEW k \in Nat, Len(t) = k + Len(c), \A j \in 1..Len(c) : t[k + j] = c[j],
           k = 0 \/ t[k] = "lf"
    PROVE  \A j \in Nat \ {0} : j \in Marks(c) <=> k + j \in Marks(t)
<1>0. SUFFICES ASSUME NEW j \in Nat \ {0} PROVE j \in Marks(c) <=> k + j \in Marks(t)
  OBVIOUS
<1>1. Len(c) \in Nat /\ Len(t) \in Nat /\ k + j \in Nat \ {0}
  OBVIOUS
<1>2. LfAt(c, j) <=> LfAt(t, k + j)
  <2>1. ASSUME j + 3 <= Len(c)
        PROVE  t[k + j] = c[j] /\ t[k + j + 1] = c[j + 1] /\ t[k + j + 2] = c[j + 2] /\ t[k + j + 3] = c[j + 3]
    <3>1. \A d \in 0..3 : j + d \in 1..Len(c)
      BY <1>1, <2>1
    <3>2. \A d \in 0..3 : t[k + (j + d)] = c[j + d]
      BY <3>1
    <3>3. \A d \in 0..3 : k + (j + d) = k + j + d
      BY <1>1
    <3>4. \A d \in 0..3 : t[k + j + d] = c[j + d]
      BY <3>2, <3>3
    <3>5. /\ t[k + j + 0] = c[j + 0] /\ t[k + j + 1] = c[j + 1] /\ t[k + j + 2] = c[j + 2]
            /\ t[k + j + 3] = c[j + 3]
      BY <3>4
    <3>6. k + j + 0 = k + j /\ j + 0 = j
      BY <1>1
    <3>7. QED
      BY <3>5, <3>6
  <2>2. QED
    BY <1>1, <2>1 DEF LfAt
<1>3. CrLfAt(c, j) <=> CrLfAt(t, k + j)
  <2>1. ASSUME j + 4 <= Len(c)
        PROVE  /\ t[k + j] = c[j] /\ t[k + j + 1] = c[j + 1] /\ t[k + j + 2] = c[j + 2]
               /\ t[k + j + 3] = c[j + 3] /\ t[k + j + 4] = c[j + 4]
    <3>1. \A d \in 0..4 : j + d \in 1..Len(c)
      BY <1>1, <2>1
    <3>2. \A d \in 0..4 : t[k + (j + d)] = c[j + d]
      BY <3>1
    <3>3. \A d \in 0..4 : k + (j + d) = k + j + d
      BY <1>1
    <3>4. \A d \in 0..4 : t[k + j + d] = c[j + d]
      BY <3>2, <3>3
    <3>5. /\ t[k + j + 0] = c[j + 0] /\ t[k + j + 1] = c[j + 1] /\ t[k + j + 2] = c[j + 2]
            /\ t[k + j + 3] = c[j + 3] /\ t[k + j + 4] = c[j + 4]
      BY <3>4
    <3>6. k + j + 0 = k + j /\ j + 0 = j
      BY <1>1
    <3>7. QED
      BY <3>5, <3>6
  <2>2. QED
    BY <1>1, <2>1, SMTT(40) DEF CrLfAt
<1>4. ASSUME j <= Len(c) PROVE IsLineStart(c, j) <=> IsLineStart(t, k + j)
  <2>1. CASE j = 1
    BY <2>1 DEF IsLineStart
  <2>2. CASE j # 1
    <3>1. c[j - 1] = t[k + (j - 1)]
      BY <1>1, <1>4, <2>2
    <3>2. QED
      BY <1>1, <2>2, <3>1 DEF IsLineStart
  <2>3. QED
    BY <2>1, <2>2
<1>5. LfAt(c, j) \/ CrLfAt(c, j) => j <= Len(c)
  BY <1>1 DEF LfAt, CrLfAt
<1>6. j \in Marks(c) <=> IsLineStart(c, j) /\ (LfAt(c, j) \/ CrLfAt(c, j))
  BY MarksAre
<1>7. k + j \in Marks(t) <=> IsLineStart(t, k + j) /\ (LfAt(t, k + j) \/ CrLfAt(t, k + j))
  BY <1>1, MarksAre
<1>8. QED
  BY <1>2, <1>3, <1>4, <1>5, <1>6, <1>7

\* The text consists of the octets of payload, marker and carrier.
Joins(t, p, m, c) ==
    /\ Len(t) = Len(p) + Len(m) + Len(c)
    /\ \A i \in 1..Len(p) : t[i] = p[i]
    /\ \A i \in 1..Len(m) : t[Len(p) + i] = m[i]
    /\ \A i \in 1..Len(c) : t[Len(p) + Len(m) + i] = c[i]

LEMMA JoinedOctets ==
    ASSUME NEW S, NEW p \in Seq(S), NEW m \in Seq(S), NEW c \in Seq(S)
    PROVE  p \o m \o c \in Seq(S) /\ Joins(p \o m \o c, p, m, c)
<1>1. p \o m \in Seq(S) /\ Len(p) \in Nat /\ Len(m) \in Nat /\ Len(c) \in Nat
  BY ConcatProperties
<1>2. /\ Len(p \o m) = Len(p) + Len(m)
      /\ \A i \in 1..(Len(p) + Len(m)) : (p \o m)[i] = IF i <= Len(p) THEN p[i] ELSE m[i - Len(p)]
  BY ConcatProperties
<1>3. /\ p \o m \o c \in Seq(S)
      /\ Len(p \o m \o c) = Len(p) + Len(m) + Len(c)
      /\ \A i \in 1..(Len(p) + Len(m) + Len(c)) :
            (p \o m \o c)[i] = IF i <= Len(p) + Len(m) THEN (p \o m)[i] ELSE c[i - (Len(p) + Len(m))]
  BY <1>1, <1>2, ConcatProperties
<1>4. QED
  BY <1>1, <1>2, <1>3 DEF Joins

\* Texts joined from the same parts are the same.
LEMMA SameJoin ==
    ASSUME NEW S, NEW t \in Seq(S), NEW u \in Seq(S),
           NEW p \in Seq(S), NEW m \in Seq(S), NEW c \in Seq(S), Joins(t, p, m, c), Joins(u, p, m, c)
    PROVE  t = u
<1>1. Len(p) \in Nat /\ Len(m) \in Nat /\ Len(c) \in Nat
  OBVIOUS
<1>2. Len(t) = Len(u) /\ Len(t) = Len(p) + Len(m) + Len(c)
  BY DEF Joins
<1>3. ASSUME NEW i \in 1..Len(t) PROVE t[i] = u[i]
  <2>1. CASE i <= Len(p)
    BY <1>1, <2>1 DEF Joins
  <2>2. CASE i > Len(p) /\ i <= Len(p) + Len(m)
    <3>1. i - Len(p) \in 1..Len(m) /\ Len(p) + (i - Len(p)) = i
      BY <1>1, <2>2
    <3>2. t[Len(p) + (i - Len(p))] = m[i - Len(p)] /\ u[Len(p) + (i - Len(p))] = m[i - Len(p)]
      BY <3>1 DEF Joins
    <3>3. QED
      BY <3>1, <3>2
  <2>3. CASE i > Len(p) + Len(m)
    <3>1. i - (Len(p) + Len(m)) \in 1..Len(c) /\ Len(p) + Len(m) + (i - (Len(p) + Len(m))) = i
      BY <1>1, <1>2, <2>3
    <3>2. /\ t[Len(p) + Len(m) + (i - (Len(p) + Len(m)))] = c[i - (Len(p) + Len(m))]
          /\ u[Len(p) + Len(m) + (i - (Len(p) + Len(m)))] = c[i - (Len(p) + Len(m))]
      BY <3>1 DEF Joins
    <3>3. QED
      BY <3>1, <3>2
  <2>4. QED
    BY <1>1, <2>1, <2>2, <2>3
<1>4. QED
  BY <1>2, <1>3, SeqEqual

\* Where a marker was joined in, the text has a marker of that length, and
\* behind it those of the carrier.
LEMMA MarksOfJoined ==
    ASSUME NEW S, MarkerAlphabet(S), NEW p \in Seq(S), NEW c \in Seq(S),
           NEW m \in MarkerTexts, LineEnds(p), NEW t \in Seq(S), Joins(t, p, m, c)
    PROVE  /\ Len(m) \in {4, 5}
           /\ Len(p) + 1 \in Marks(t) /\ MarkerLen(t, Len(p) + 1) = Len(m)
           /\ \A j \in Nat \ {0} : j \in Marks(c) <=> Len(p) + Len(m) + j \in Marks(t)
<1>1. /\ m \in Seq(S) /\ Len(m) \in {4, 5} /\ Len(p) \in Nat /\ Len(c) \in Nat
      /\ m[1] = "-" /\ m[2] = "-" /\ m[3] = "-" /\ m[Len(m)] = "lf"
      /\ \/ Len(m) = 4 /\ m[4] = "lf"
         \/ Len(m) = 5 /\ m[4] = "cr" /\ m[5] = "lf"
  <2>1. Len(p) \in Nat /\ Len(c) \in Nat
    OBVIOUS
  <2>2. m = LfMarker \/ m = CrLfMarker
    BY DEF MarkerTexts
  <2>3. CASE m = LfMarker
    BY <2>1, <2>3, MarkerLiterals
  <2>4. CASE m = CrLfMarker
    BY <2>1, <2>4, MarkerLiterals
  <2>5. QED
    BY <2>2, <2>3, <2>4
<1>2. /\ t \in Seq(S) /\ Len(t) = Len(p) + Len(m) + Len(c)
      /\ \A i \in 1..Len(p) : t[i] = p[i]
      /\ \A i \in 1..Len(m) : t[Len(p) + i] = m[i]
      /\ \A i \in 1..Len(c) : t[Len(p) + Len(m) + i] = c[i]
  BY DEF Joins
<1>3. IsLineStart(t, Len(p) + 1)
  <2>1. CASE p = <<>>
    BY <2>1, EmptySeq DEF IsLineStart
  <2>2. CASE p # <<>>
    <3>1. Len(p) \in 1..Len(p)
      BY <1>1, <2>2, EmptySeq
    <3>2. t[Len(p)] = "lf"
      BY <1>2, <2>2, <3>1 DEF LineEnds
    <3>3. Len(p) + 1 - 1 = Len(p)
      BY <1>1
    <3>4. QED
      BY <3>2, <3>3 DEF IsLineStart
  <2>3. QED
    BY <2>1, <2>2
<1>4. LfAt(t, Len(p) + 1) <=> Len(m) = 4
  <2>1. t[Len(p) + 1] = m[1] /\ t[Len(p) + 2] = m[2] /\ t[Len(p) + 3] = m[3] /\ t[Len(p) + 4] = m[4]
    <3>1. 1 \in 1..Len(m) /\ 2 \in 1..Len(m) /\ 3 \in 1..Len(m) /\ 4 \in 1..Len(m)
      BY <1>1
    <3>2. QED
      BY <1>2, <3>1
  <2>2. /\ Len(p) + 1 + 1 = Len(p) + 2 /\ Len(p) + 1 + 2 = Len(p) + 3 /\ Len(p) + 1 + 3 = Len(p) + 4
        /\ Len(p) + 4 <= Len(t)
    BY <1>1, <1>2
  <2>3. m[4] = "lf" <=> Len(m) = 4
    BY <1>1
  <2>4. QED
    BY <1>1, <2>1, <2>2, <2>3 DEF LfAt
<1>5. CrLfAt(t, Len(p) + 1) <=> Len(m) = 5
  <2>1. t[Len(p) + 1] = m[1] /\ t[Len(p) + 2] = m[2] /\ t[Len(p) + 3] = m[3] /\ t[Len(p) + 4] = m[4]
    <3>1. 1 \in 1..Len(m) /\ 2 \in 1..Len(m) /\ 3 \in 1..Len(m) /\ 4 \in 1..Len(m)
      BY <1>1
    <3>2. QED
      BY <1>2, <3>1
  <2>2. /\ Len(p) + 1 + 1 = Len(p) + 2 /\ Len(p) + 1 + 2 = Len(p) + 3 /\ Len(p) + 1 + 3 = Len(p) + 4
        /\ Len(p) + 1 + 4 = Len(p) + 5
    BY <1>1
  <2>3. CASE Len(m) = 5
    <3>1. t[Len(p) + 5] = m[5] /\ Len(p) + 5 <= Len(t)
      BY <1>1, <1>2, <2>3
    <3>2. QED
      <4>1. m[1] = "-" /\ m[2] = "-" /\ m[3] = "-" /\ m[4] = "cr" /\ m[5] = "lf"
        BY <1>1, <2>3
      <4>2. CrLfAt(t, Len(p) + 1)
        BY <2>1, <2>2, <3>1, <4>1 DEF CrLfAt
      <4>3. QED
        BY <2>3, <4>2
  <2>4. CASE Len(m) = 4
    <3>1. t[Len(p) + 4] = "lf"
      BY <1>1, <2>1, <2>4
    <3>2. QED
      BY <2>2, <2>4, <3>1 DEF CrLfAt
  <2>5. QED
    BY <1>1, <2>3, <2>4
<1>6. Len(p) + 1 \in Nat \ {0}
  BY <1>1
<1>7. Len(p) + 1 \in Marks(t)
  BY <1>1, <1>2, <1>3, <1>4, <1>5, <1>6, MarksAre
<1>8. MarkerLen(t, Len(p) + 1) = Len(m)
  <2>1. /\ MarkerLen(t, Len(p) + 1) \in {0, 4, 5}
        /\ MarkerLen(t, Len(p) + 1) = 4 <=> IsLineStart(t, Len(p) + 1) /\ LfAt(t, Len(p) + 1)
        /\ MarkerLen(t, Len(p) + 1) = 5 <=> IsLineStart(t, Len(p) + 1) /\ CrLfAt(t, Len(p) + 1)
    BY <1>6, MarkerLenIs
  <2>2. CASE Len(m) = 4
    BY <1>3, <1>4, <2>1, <2>2
  <2>3. CASE Len(m) = 5
    BY <1>3, <1>5, <2>1, <2>3
  <2>4. QED
    BY <1>1, <2>2, <2>3
<1>9. \A j \in Nat \ {0} : j \in Marks(c) <=> Len(p) + Len(m) + j \in Marks(t)
  <2>1. t[Len(p) + Len(m)] = "lf" /\ Len(p) + Len(m) \in Nat
    BY <1>1, <1>2
  <2>2. QED
    BY <1>2, <2>1, MarksOfTail, SMTT(40)
<1>10. QED
  BY <1>1, <1>2, <1>7, <1>8, <1>9

\* The joint is the last marker if the carrier has none.
LEMMA JointIsLast ==
    ASSUME NEW S, MarkerAlphabet(S), NEW p \in Seq(S), NEW c \in Seq(S),
           NEW m \in MarkerTexts, LineEnds(p), NEW t \in Seq(S), Joins(t, p, m, c),
           Marks(c) = {}, NEW i \in Marks(t)
    PROVE  i <= Len(p) + 1
<1>0. Len(p) \in Nat
  OBVIOUS
<1>1. /\ t \in Seq(S) /\ Len(m) \in {4, 5} /\ Len(p) \in Nat
      /\ MarkerLen(t, Len(p) + 1) = Len(m)
      /\ \A j \in Nat \ {0} : j \in Marks(c) <=> Len(p) + Len(m) + j \in Marks(t)
  BY <1>0, MarksOfJoined, ZenonT(60)
<1>2. i \in Nat \ {0}
  BY DEF Marks
<1>3. ASSUME i > Len(p) + 1 PROVE FALSE
  <2>1. CASE i <= Len(p) + Len(m)
    <3>1. i \in (Len(p) + 1 + 1)..(Len(p) + 1 + Len(m) - 1)
      BY <1>1, <1>2, <1>3, <2>1
    <3>2. MarkerLen(t, i) = 0
      <4>1. MarkerLen(t, Len(p) + 1) # 0 /\ Len(p) + 1 \in Nat \ {0}
        BY <1>1
      <4>2. i \in (Len(p) + 1 + 1)..(Len(p) + 1 + MarkerLen(t, Len(p) + 1) - 1)
        BY <1>1, <3>1
      <4>3. QED
        BY <1>1, <4>1, <4>2, NoOverlap
    <3>3. QED
      BY <1>1, <1>2, <3>2, MarksAre
  <2>2. CASE i > Len(p) + Len(m)
    <3>1. i - (Len(p) + Len(m)) \in Nat \ {0} /\ Len(p) + Len(m) + (i - (Len(p) + Len(m))) = i
      BY <1>1, <1>2, <2>2
    <3>2. QED
      BY <1>1, <3>1
  <2>3. QED
    BY <1>1, <1>2, <2>1, <2>2
<1>4. QED
  BY <1>1, <1>2, <1>3

\* A text can be split at a last marker in one way only.
LEMMA OneSplit ==
    ASSUME NEW S, MarkerAlphabet(S), NEW t \in Seq(S),
           NEW p \in Seq(S), NEW m \in MarkerTexts, NEW c \in Seq(S),
           LineEnds(p), Marks(c) = {}, Joins(t, p, m, c),
           NEW q \in Seq(S), NEW n \in MarkerTexts, NEW d \in Seq(S),
           LineEnds(q), Marks(d) = {}, Joins(t, q, n, d)
    PROVE  p = q /\ c = d
<1>1. /\ Len(p) \in Nat /\ Len(q) \in Nat /\ Len(c) \in Nat /\ Len(d) \in Nat
      /\ Len(m) \in {4, 5} /\ Len(n) \in {4, 5}
  BY MarksOfJoined, SMTT(40)
<1>2. Len(p) = Len(q)
  <2>1. Len(p) + 1 \in Marks(t) /\ Len(q) + 1 \in Marks(t)
    BY MarksOfJoined
  <2>2. Len(p) + 1 <= Len(q) + 1
    BY <2>1, JointIsLast
  <2>3. Len(q) + 1 <= Len(p) + 1
    BY <2>1, JointIsLast
  <2>4. QED
    BY <1>1, <2>2, <2>3
<1>3. Len(m) = Len(n)
  <2>1. MarkerLen(t, Len(p) + 1) = Len(m) /\ MarkerLen(t, Len(q) + 1) = Len(n)
    BY MarksOfJoined
  <2>2. QED
    BY <1>2, <2>1
<1>4. Len(c) = Len(d)
  <2>1. Len(t) = Len(p) + Len(m) + Len(c) /\ Len(t) = Len(q) + Len(n) + Len(d)
    BY DEF Joins
  <2>2. QED
    BY <1>1, <1>2, <1>3, <2>1
<1>5. \A i \in 1..Len(p) : p[i] = q[i]
  BY <1>2 DEF Joins
<1>6. \A i \in 1..Len(c) : c[i] = d[i]
  <2>1. \A i \in 1..Len(c) : t[Len(p) + Len(m) + i] = c[i] /\ t[Len(q) + Len(n) + i] = d[i]
    BY <1>4 DEF Joins
  <2>2. QED
    BY <1>2, <1>3, <2>1
<1>7. QED
  BY <1>2, <1>4, <1>5, <1>6, SeqEqual

\* The parts of a text before, at and after a marker of length n.
PartsAt(t, i, n, p, m, c) ==
    /\ n = MarkerLen(t, i)
    /\ p = SubSeq(t, 1, i - 1)
    /\ m = SubSeq(t, i, i + n - 1)
    /\ c = SubSeq(t, i + n, Len(t))

\* Splitting a text at a marker leaves what joins to it again.
LEMMA SplitJoins ==
    ASSUME NEW S, MarkerAlphabet(S), NEW t \in Seq(S), NEW i \in Marks(t),
           NEW n, NEW p, NEW m, NEW c, PartsAt(t, i, n, p, m, c)
    PROVE  /\ p \in Seq(S) /\ c \in Seq(S) /\ m \in MarkerTexts
           /\ Len(p) = i - 1 /\ Len(c) = Len(t) - (i + n) + 1
           /\ LineEnds(p)
           /\ Joins(t, p, m, c)
           /\ t = p \o m \o c
<1>1. i \in Nat \ {0} /\ Len(t) \in Nat /\ i <= Len(t) /\ MarkerLen(t, i) # 0
  <2>1. i \in 1..Len(t) /\ Len(t) \in Nat
    BY DEF Marks
  <2>2. QED
    BY <2>1, MarksAre
<1>2. n \in {4, 5} /\ i + n <= Len(t) + 1 /\ (i = 1 \/ t[i - 1] = "lf")
  BY <1>1, MarkerWithin DEF PartsAt
<1>3. \A k \in 1..Len(t) : t[k] \in S
  OBVIOUS
<1>4. p \in Seq(S) /\ Len(p) = i - 1 /\ \A k \in 1..(i - 1) : p[k] = t[k]
  <2>1. \A k \in 1..(i - 1) : t[k] \in S
    BY <1>1, <1>3
  <2>2. i - 1 \in Int /\ 1 \in Int
    BY <1>1
  <2>3. /\ SubSeq(t, 1, i - 1) \in Seq(S)
        /\ Len(SubSeq(t, 1, i - 1)) = IF 1 <= i - 1 THEN (i - 1) - 1 + 1 ELSE 0
        /\ \A k \in 1..((i - 1) - 1 + 1) : SubSeq(t, 1, i - 1)[k] = t[1 + k - 1]
    BY <2>1, <2>2, SubSeqProperties
  <2>4. QED
    BY <1>1, <2>3 DEF PartsAt
<1>5. c \in Seq(S) /\ Len(c) = Len(t) - (i + n) + 1 /\ \A k \in 1..Len(c) : c[k] = t[i + n + k - 1]
  <2>1. \A k \in (i + n)..Len(t) : t[k] \in S
    BY <1>1, <1>2, <1>3
  <2>2. i + n \in Int /\ Len(t) \in Int
    BY <1>1, <1>2
  <2>3. /\ SubSeq(t, i + n, Len(t)) \in Seq(S)
        /\ Len(SubSeq(t, i + n, Len(t))) = IF i + n <= Len(t) THEN Len(t) - (i + n) + 1 ELSE 0
        /\ \A k \in 1..(Len(t) - (i + n) + 1) : SubSeq(t, i + n, Len(t))[k] = t[i + n + k - 1]
    BY <2>1, <2>2, SubSeqProperties
  <2>4. QED
    <3>1. c = SubSeq(t, i + n, Len(t))
      BY DEF PartsAt
    <3>2. Len(c) = Len(t) - (i + n) + 1
      BY <1>1, <1>2, <2>3, <3>1
    <3>3. QED
      BY <2>3, <3>1, <3>2
<1>6. m \in MarkerTexts
  <2>1. CASE n = 4
    <3>1. LfAt(t, i)
      BY <1>1, <2>1, MarkerLenIs DEF PartsAt
    <3>2. SubSeq(t, i, i + 3) = LfMarker /\ i + n - 1 = i + 3
      BY <1>1, <2>1, <3>1, Windows
    <3>3. QED
      BY <3>2 DEF MarkerTexts, PartsAt
  <2>2. CASE n = 5
    <3>1. CrLfAt(t, i)
      BY <1>1, <2>2, MarkerLenIs DEF PartsAt
    <3>2. SubSeq(t, i, i + 4) = CrLfMarker /\ i + n - 1 = i + 4
      BY <1>1, <2>2, <3>1, Windows
    <3>3. QED
      BY <3>2 DEF MarkerTexts, PartsAt
  <2>3. QED
    BY <1>2, <2>1, <2>2
<1>7. m \in Seq(S) /\ Len(m) = n /\ \A k \in 1..n : m[k] = t[i + k - 1]
  <2>1. \A k \in i..(i + n - 1) : t[k] \in S
    BY <1>1, <1>2, <1>3
  <2>2. i \in Int /\ i + n - 1 \in Int
    BY <1>1, <1>2
  <2>3. /\ SubSeq(t, i, i + n - 1) \in Seq(S)
        /\ Len(SubSeq(t, i, i + n - 1)) = IF i <= i + n - 1 THEN (i + n - 1) - i + 1 ELSE 0
        /\ \A k \in 1..((i + n - 1) - i + 1) : SubSeq(t, i, i + n - 1)[k] = t[i + k - 1]
    BY <2>1, <2>2, SubSeqProperties
  <2>4. QED
    <3>1. m = SubSeq(t, i, i + n - 1)
      BY DEF PartsAt
    <3>2. (i + n - 1) - i + 1 = n /\ i <= i + n - 1
      BY <1>1, <1>2
    <3>3. QED
      BY <2>3, <3>1, <3>2
<1>8. LineEnds(p)
  <2>1. CASE i = 1
    BY <1>4, <2>1, EmptySeq DEF LineEnds
  <2>2. CASE i # 1
    <3>1. p[i - 1] = t[i - 1] /\ t[i - 1] = "lf"
      BY <1>1, <1>2, <1>4, <2>2
    <3>2. QED
      BY <1>4, <3>1 DEF LineEnds
  <2>3. QED
    BY <2>1, <2>2
<1>9. Joins(t, p, m, c)
  <2>1. Len(t) = Len(p) + Len(m) + Len(c)
    BY <1>1, <1>2, <1>4, <1>5, <1>7
  <2>2. \A k \in 1..Len(m) : t[Len(p) + k] = m[k]
    <3>1. \A k \in 1..Len(m) : Len(p) + k = i + k - 1
      BY <1>1, <1>2, <1>4, <1>7
    <3>2. QED
      BY <1>7, <3>1
  <2>3. \A k \in 1..Len(c) : t[Len(p) + Len(m) + k] = c[k]
    <3>1. \A k \in 1..Len(c) : Len(p) + Len(m) + k = i + n + k - 1
      BY <1>1, <1>2, <1>4, <1>5, <1>7
    <3>2. QED
      BY <1>5, <3>1
  <2>4. QED
    BY <1>4, <2>1, <2>2, <2>3 DEF Joins
<1>10. t = p \o m \o c
  <2>1. p \o m \o c \in Seq(S) /\ Joins(p \o m \o c, p, m, c)
    BY <1>4, <1>5, <1>7, JoinedOctets
  <2>2. QED
    BY <1>4, <1>5, <1>7, <1>9, <2>1, SameJoin
<1>11. QED
  BY <1>4, <1>5, <1>6, <1>8, <1>9, <1>10
-----------------------------------------------------------------------------

\* The windows that compose looks for after a line feed.
LEMMA LaterWindows ==
    ASSUME NEW S, MarkerAlphabet(S), NEW c \in Seq(S)
    PROVE  /\ HasWindow(c, <<"lf">> \o LfMarker)
                <=> \E i \in 1..Len(c) : c[i] = "lf" /\ LfAt(c, i + 1)
           /\ HasWindow(c, <<"lf">> \o CrLfMarker)
                <=> \E i \in 1..Len(c) : c[i] = "lf" /\ CrLfAt(c, i + 1)
<1> DEFINE v == <<"lf">> \o LfMarker
           w == <<"lf">> \o CrLfMarker
<1>1. <<"lf">> \in Seq(S) /\ Len(<<"lf">>) = 1 /\ <<"lf">>[1] = "lf"
  BY DEF MarkerAlphabet
<1>2. /\ v \in Seq(S) /\ Len(v) = 5
      /\ v[1] = "lf" /\ v[2] = "-" /\ v[3] = "-" /\ v[4] = "-" /\ v[5] = "lf"
  <2>1. /\ v \in Seq(S) /\ Len(v) = 1 + 4
        /\ \A k \in 1..(1 + 4) : v[k] = IF k <= 1 THEN <<"lf">>[k] ELSE LfMarker[k - 1]
    <3>1. LfMarker \in Seq(S) /\ Len(LfMarker) = 4
      BY MarkerLiterals
    <3>2. /\ v \in Seq(S) /\ Len(v) = Len(<<"lf">>) + Len(LfMarker)
          /\ \A k \in 1..(Len(<<"lf">>) + Len(LfMarker)) :
                v[k] = IF k <= Len(<<"lf">>) THEN <<"lf">>[k] ELSE LfMarker[k - Len(<<"lf">>)]
      BY <1>1, <3>1, ConcatProperties, Zenon
    <3> QED
      BY <1>1, <3>1, <3>2, Zenon
  <2> HIDE DEF v
  <2> QED
    BY <1>1, <2>1, MarkerLiterals
<1>3. /\ w \in Seq(S) /\ Len(w) = 6
      /\ w[1] = "lf" /\ w[2] = "-" /\ w[3] = "-" /\ w[4] = "-" /\ w[5] = "cr" /\ w[6] = "lf"
  <2>1. /\ w \in Seq(S) /\ Len(w) = 1 + 5
        /\ \A k \in 1..(1 + 5) : w[k] = IF k <= 1 THEN <<"lf">>[k] ELSE CrLfMarker[k - 1]
    <3>1. CrLfMarker \in Seq(S) /\ Len(CrLfMarker) = 5
      BY MarkerLiterals
    <3>2. /\ w \in Seq(S) /\ Len(w) = Len(<<"lf">>) + Len(CrLfMarker)
          /\ \A k \in 1..(Len(<<"lf">>) + Len(CrLfMarker)) :
                w[k] = IF k <= Len(<<"lf">>) THEN <<"lf">>[k] ELSE CrLfMarker[k - Len(<<"lf">>)]
      BY <1>1, <3>1, ConcatProperties, Zenon
    <3> QED
      BY <1>1, <3>1, <3>2, Zenon
  <2> HIDE DEF w
  <2> QED
    BY <1>1, <2>1, MarkerLiterals
<1> HIDE DEF v, w
<1>4. ASSUME NEW i \in 1..Len(c)
      PROVE  i + Len(v) - 1 <= Len(c) /\ SubSeq(c, i, i + Len(v) - 1) = v
               <=> c[i] = "lf" /\ LfAt(c, i + 1)
  <2>1. i \in Nat \ {0} /\ Len(c) \in Nat
    OBVIOUS
  <2>2. ASSUME i + Len(v) - 1 <= Len(c)
        PROVE  SubSeq(c, i, i + Len(v) - 1) = v <=> \A k \in 1..Len(v) : c[i + k - 1] = v[k]
    <3>1. v \in Seq(S)
      BY <1>2, Zenon
    <3>2. WithinText(c, i, v)
      BY <2>2, Zenon DEF WithinText
    <3>3. WindowAt(c, i, v) <=> MatchesAt(c, i, v)
      BY <2>1, <3>1, <3>2, WindowMatches, Zenon
    <3> QED
      BY <3>3, Zenon DEF WindowAt, MatchesAt
  <2>3. (\A k \in 1..Len(v) : c[i + k - 1] = v[k])
          <=> c[i] = "lf" /\ c[i+1] = "-" /\ c[i+2] = "-" /\ c[i+3] = "-" /\ c[i+4] = "lf"
    BY <1>2
  <2>4. /\ i + 1 + 1 = i + 2 /\ i + 1 + 2 = i + 3 /\ i + 1 + 3 = i + 4
        /\ i + Len(v) - 1 = i + 4
    BY <1>2
  <2> QED
    BY <2>2, <2>3, <2>4 DEF LfAt
<1>5. ASSUME NEW i \in 1..Len(c)
      PROVE  i + Len(w) - 1 <= Len(c) /\ SubSeq(c, i, i + Len(w) - 1) = w
               <=> c[i] = "lf" /\ CrLfAt(c, i + 1)
  <2>1. i \in Nat \ {0} /\ Len(c) \in Nat
    OBVIOUS
  <2>2. ASSUME i + Len(w) - 1 <= Len(c)
        PROVE  SubSeq(c, i, i + Len(w) - 1) = w <=> \A k \in 1..Len(w) : c[i + k - 1] = w[k]
    <3>1. w \in Seq(S)
      BY <1>3, Zenon
    <3>2. WithinText(c, i, w)
      BY <2>2, Zenon DEF WithinText
    <3>3. WindowAt(c, i, w) <=> MatchesAt(c, i, w)
      BY <2>1, <3>1, <3>2, WindowMatches, Zenon
    <3> QED
      BY <3>3, Zenon DEF WindowAt, MatchesAt
  <2>3. (\A k \in 1..Len(w) : c[i + k - 1] = w[k])
          <=> /\ c[i] = "lf" /\ c[i+1] = "-" /\ c[i+2] = "-" /\ c[i+3] = "-"
              /\ c[i+4] = "cr" /\ c[i+5] = "lf"
    BY <1>3
  <2>4. /\ i + 1 + 1 = i + 2 /\ i + 1 + 2 = i + 3 /\ i + 1 + 3 = i + 4 /\ i + 1 + 4 = i + 5
        /\ i + Len(w) - 1 = i + 5
    BY <1>3
  <2> QED
    BY <2>2, <2>3, <2>4 DEF CrLfAt
<1>6. /\ HasWindow(c, v) <=> \E i \in 1..Len(c) : c[i] = "lf" /\ LfAt(c, i + 1)
      /\ HasWindow(c, w) <=> \E i \in 1..Len(c) : c[i] = "lf" /\ CrLfAt(c, i + 1)
  BY <1>4, <1>5, Zenon DEF HasWindow
<1> QED
  BY <1>6 DEF v, w

\* The recogniser of compose and the one of decompose agree: what
\* contains_constrained_marker finds is what marker_len would find.
LEMMA Recognisers ==
    ASSUME NEW S, MarkerAlphabet(S), NEW c \in Seq(S)
    PROVE  ContainsConstrainedMarker(c) <=> Marks(c) # {}
<1>1. \A i \in Nat \ {0} : i \in Marks(c) <=> IsLineStart(c, i) /\ (LfAt(c, i) \/ CrLfAt(c, i))
  BY MarksAre
<1>2. /\ StartsWith(c, LfMarker) <=> LfAt(c, 1)
      /\ StartsWith(c, CrLfMarker) <=> CrLfAt(c, 1)
  <2>1. /\ LfAt(c, 1) <=> 1 + 3 <= Len(c) /\ SubSeq(c, 1, 1 + 3) = LfMarker
        /\ CrLfAt(c, 1) <=> 1 + 4 <= Len(c) /\ SubSeq(c, 1, 1 + 4) = CrLfMarker
    BY Windows
  <2>2. 1 + 3 = 4 /\ 1 + 4 = 5 /\ Len(LfMarker) = 4 /\ Len(CrLfMarker) = 5
    BY MarkerLiterals
  <2> QED
    BY <2>1, <2>2, Zenon DEF StartsWith
<1>3. ASSUME NEW i \in Nat \ {0}, LfAt(c, i) \/ CrLfAt(c, i)
      PROVE  i \in 1..Len(c)
  BY <1>3 DEF LfAt, CrLfAt
<1>4. ContainsConstrainedMarker(c) <=>
        \/ LfAt(c, 1) \/ CrLfAt(c, 1)
        \/ \E i \in 1..Len(c) : c[i] = "lf" /\ (LfAt(c, i + 1) \/ CrLfAt(c, i + 1))
  BY <1>2, LaterWindows, Zenon DEF ContainsConstrainedMarker
<1>5. ASSUME ContainsConstrainedMarker(c)
      PROVE  Marks(c) # {}
  <2>1. CASE LfAt(c, 1) \/ CrLfAt(c, 1)
    BY <2>1, <1>1 DEF IsLineStart
  <2>2. CASE \E i \in 1..Len(c) : c[i] = "lf" /\ (LfAt(c, i + 1) \/ CrLfAt(c, i + 1))
    <3>1. PICK i \in 1..Len(c) : c[i] = "lf" /\ (LfAt(c, i + 1) \/ CrLfAt(c, i + 1))
      BY <2>2
    <3>2. i + 1 \in Nat \ {0} /\ i + 1 - 1 = i
      OBVIOUS
    <3>3. IsLineStart(c, i + 1)
      BY <3>1, <3>2 DEF IsLineStart
    <3> QED
      BY <1>1, <3>1, <3>2, <3>3, Zenon
  <2> QED
    BY <1>4, <1>5, <2>1, <2>2, Zenon
<1>6. ASSUME Marks(c) # {}
      PROVE  ContainsConstrainedMarker(c)
  <2>1. PICK i \in Marks(c) : TRUE
    BY <1>6
  <2>2. i \in Nat \ {0}
    BY DEF Marks
  <2>3. IsLineStart(c, i) /\ (LfAt(c, i) \/ CrLfAt(c, i))
    BY <1>1, <2>1, <2>2, Zenon
  <2>4. CASE i = 1
    BY <1>4, <2>3, <2>4, Zenon
  <2>5. CASE i # 1
    <3>1. c[i - 1] = "lf" /\ i - 1 \in 1..Len(c) /\ (i - 1) + 1 = i
      BY <1>3, <2>2, <2>3, <2>5 DEF IsLineStart
    <3> QED
      BY <1>4, <2>3, <3>1
  <2> QED
    BY <2>4, <2>5
<1> QED
  BY <1>5, <1>6

-----------------------------------------------------------------------------
(* Least and largest elements: the CHOOSE of LastMark and LastValue finds   *)
(* one, and recursions are followed to their least counterexample.         *)

LEMMA LeastElement ==
    ASSUME NEW T \in SUBSET Nat, T # {}
    PROVE  \E n \in T : \A m \in T : n <= m
<1>1. PICK n \in T : \A m \in T : ~(<<m, n>> \in OpToRel(<, Nat))
  BY NatLessThanWellFounded, WFMin
<1>2. \A m \in T : ~(m < n)
  BY <1>1 DEF OpToRel
<1> QED
  BY <1>2

LEMMA LargestElement ==
    ASSUME NEW n \in Nat, NEW T \in SUBSET (1..n), T # {}
    PROVE  \E i \in T : \A j \in T : j <= i
<1> DEFINE D == { n - i : i \in T }
<1>1. D \subseteq Nat /\ D # {}
  <2>1. \A i \in T : i \in 1..n /\ n - i \in Nat
    OBVIOUS
  <2>2. PICK i \in T : TRUE
    OBVIOUS
  <2>3. n - i \in D
    BY <2>2
  <2> QED
    BY <2>1, <2>3, Zenon
<1>2. PICK d \in D : \A e \in D : ~(<<e, d>> \in OpToRel(<, Nat))
  BY <1>1, NatLessThanWellFounded, WFMin
<1>3. \A e \in D : ~(e < d)
  BY <1>1, <1>2 DEF OpToRel
<1>4. PICK i \in T : d = n - i
  BY <1>2
<1>5. ASSUME NEW j \in T
      PROVE  j <= i
  <2>1. n - j \in D
    OBVIOUS
  <2>2. ~(n - j < n - i)
    BY <1>3, <1>4, <2>1
  <2> QED
    BY <2>2
<1> QED
  BY <1>5

-----------------------------------------------------------------------------
(* Types.                                                                  *)

Octet == Seq(Characters)
Artifacts == {Yaml(t) : t \in Octet} \cup {Proto(w) : w \in Seq(WireFields)}
Seen == [payload : Octet, carrier : Octet, payloads : Nat, carriers : {0, 1}]

\* What a call can return.
ResultOK(r) ==
    \/ r.kind = "refused"
    \/ r \in {Unsigned, Malformed, Done}
    \/ \E p \in Octet, c \in Octet : r = SplitInto(p, c)

CallOK ==
    /\ call.op \in {"none", "compose", "decompose", "transcode"}
    /\ call.mode \in Modes
    /\ call.policy \in Policies \cup {NoPolicy}

Extent(h) == IF h.form = "yaml" THEN Len(h.text) ELSE Len(h.wire)

\* The loop stays inside the artifact.
LoopOK ==
    /\ at \in Nat \ {0} /\ last \in Nat
    /\ running => /\ held \in Artifacts
                  /\ call.op \in {"decompose", "transcode"}
                  /\ at <= Extent(held) + 1
                  /\ last < at

\* A caller without an artifact has made no call yet.
OriginOK ==
    /\ origin.how \in {"none", "received", "composed", "refused"}
    /\ origin.how = "none" => origin = NoOrigin
    /\ origin = NoOrigin => held = Nothing /\ call = NoCall /\ ~running

Shape ==
    /\ held \in Artifacts \cup {Nothing}
    /\ CallOK
    /\ running \in BOOLEAN
    /\ LoopOK
    /\ seen \in Seen
    /\ ResultOK(result)
    /\ OriginOK

\* The constants of the assumption, in the form the lemmas on texts need.
LEMMA Alphabet == MarkerAlphabet(Characters)
  BY EnvelopeAssumption DEF MarkerAlphabet

LEMMA ArtifactsAre ==
    ASSUME NEW h \in Artifacts
    PROVE  /\ h # Nothing
           /\ h.text \in Octet /\ h.wire \in Seq(WireFields)
           /\ \/ h.form = "yaml" /\ h = Yaml(h.text)
              \/ h.form = "protobuf" /\ h = Proto(h.wire)
<1>1. <<>> \in Octet /\ <<>> \in Seq(WireFields)
  BY DEF Octet
<1>2. CASE \E t \in Octet : h = Yaml(t)
  BY <1>1, <1>2 DEF Yaml, Nothing
<1>3. CASE \E w \in Seq(WireFields) : h = Proto(w)
  BY <1>1, <1>3 DEF Proto, Nothing
<1> QED
  BY <1>2, <1>3 DEF Artifacts

LEMMA ExtentIsNat ==
    ASSUME NEW h \in Artifacts
    PROVE  Extent(h) \in Nat
<1>1. Len(h.text) \in Nat /\ Len(h.wire) \in Nat
  BY ArtifactsAre, LenProperties DEF Octet
<1> QED
  BY <1>1 DEF Extent

LEMMA ShapeGivesType == Shape => TypeOK
<1> SUFFICES ASSUME Shape
             PROVE  TypeOK
  OBVIOUS
<1>1. held.form \in Forms \cup {"none"}
  BY ArtifactsAre DEF Shape, Forms, Nothing
<1>2. running \in BOOLEAN /\ seen.payloads \in Nat /\ seen.carriers \in 0..1
  BY DEF Shape, LoopOK, Seen
<1>3. result.kind \in Results
  BY DEF Shape, ResultOK, Results, Unsigned, Malformed, Done, SplitInto
<1>4. ASSUME running
      PROVE  /\ held.form \in Forms /\ call.op \in {"decompose", "transcode"}
             /\ at \in 1..(Extent(held) + 1)
             /\ last < at
  <2>1. /\ held \in Artifacts /\ call.op \in {"decompose", "transcode"}
        /\ at <= Extent(held) + 1 /\ last < at /\ at \in Nat \ {0}
    BY <1>4 DEF Shape, LoopOK
  <2>2. held.form \in Forms /\ Extent(held) \in Nat
    BY <2>1, ArtifactsAre, ExtentIsNat DEF Forms
  <2> QED
    BY <2>1, <2>2
<1>5. CallOK /\ origin.how \in {"none", "received", "composed", "refused"}
  BY DEF Shape, OriginOK
<1> QED
  BY <1>1, <1>2, <1>3, <1>4, <1>5, Zenon DEF TypeOK, CallOK, Extent

LEMMA ComposedDocs ==
    ASSUME NEW form \in Forms, NEW p \in Octet, NEW c \in Octet
    PROVE  /\ Composed(form, p, c) \in Artifacts
           /\ form = "yaml" => Composed(form, p, c) = Yaml(ComposeText(p, c))
           /\ form = "protobuf" => Composed(form, p, c) = Proto(ComposeOuter(p, c))
           /\ ComposeText(p, c) \in Octet
           /\ ComposeOuter(p, c) \in Seq(WireFields)
<1>1. ComposeText(p, c) \in Octet
  <2>1. LfMarker \in Octet
    BY Alphabet, MarkerLiterals DEF Octet
  <2> QED
    BY <2>1 DEF ComposeText, Octet
<1>2. ComposeOuter(p, c) \in Seq(WireFields)
  <2>1. Field("payload", p) \in WireFields /\ Field("signature", c) \in WireFields
    BY DEF Field, WireFields, Octet, Tags
  <2> QED
    BY <2>1 DEF ComposeOuter
<1> QED
  BY <1>1, <1>2 DEF Composed, Forms, Artifacts

-----------------------------------------------------------------------------
(* Type correctness.                                                       *)

LEMMA NothingSeenIsSeen == NothingSeen \in Seen
<1>1. <<>> \in Octet
  BY DEF Octet
<1> QED
  BY <1>1 DEF NothingSeen, Seen

LEMMA InitShape == Init => Shape
<1> SUFFICES ASSUME Init
             PROVE  Shape
  OBVIOUS
<1>1. CallOK /\ call = NoCall
  BY DEF Init, CallOK, NoCall, Modes
<1>2. LoopOK /\ running \in BOOLEAN
  <2>1. ~running /\ running \in BOOLEAN
    BY Zenon DEF Init
  <2> QED
    BY <2>1 DEF Init, LoopOK
<1>3. seen \in Seen
  BY NothingSeenIsSeen DEF Init
<1>4. ResultOK(result)
  BY DEF Init, ResultOK
<1>5. OriginOK
  BY <1>1 DEF Init, OriginOK, NoOrigin
<1> QED
  BY <1>1, <1>2, <1>3, <1>4, <1>5 DEF Init, Shape

\* Transcoding a split artifact leaves an artifact of the other form.
LEMMA TranscodedDocs ==
    ASSUME NEW form \in Forms, NEW split, NEW policy, ResultOK(split),
           TranscodeReply(form, split, policy) = Done
    PROVE  Transcoded(form, split) \in Artifacts
<1>1. split.kind = "split"
  BY DEF TranscodeReply, Done, Refused
<1>2. PICK p \in Octet, c \in Octet : split = SplitInto(p, c)
  BY <1>1 DEF ResultOK, Unsigned, Malformed, Done
<1>3. split.payload = p /\ split.carrier = c
  BY <1>2 DEF SplitInto
<1>4. CASE form = "yaml"
  <2>1. ToProtoReply(p, c, policy) = Done
    BY <1>1, <1>3, <1>4 DEF TranscodeReply
  <2>2. ReadDocument(c) \in Signatures
    BY <2>1 DEF ToProtoReply, Done, Refused
  <2>3. CanonicalCarrier[ReadDocument(c)] \in Octet
    BY <2>2, EnvelopeAssumption DEF Signatures, Octet
  <2>4. ComposeOuter(p, CanonicalCarrier[ReadDocument(c)]) \in Seq(WireFields)
    BY <2>3, ComposedDocs DEF Forms
  <2> QED
    BY <1>3, <1>4, <2>4 DEF Transcoded, Artifacts
<1>5. CASE form = "protobuf"
  <2>1. ToYamlReply(p, c, policy) = Done
    BY <1>1, <1>3, <1>5 DEF TranscodeReply
  <2>2. ReadCarrier(c) \in Signatures
    BY <2>1 DEF ToYamlReply, Done, Refused
  <2>3. CanonicalDocument[ReadCarrier(c)] \in Octet
    BY <2>2, EnvelopeAssumption DEF Signatures, Octet
  <2>4. ComposeText(p, CanonicalDocument[ReadCarrier(c)]) \in Octet
    BY <2>3, ComposedDocs DEF Forms
  <2> QED
    BY <1>3, <1>5, <2>4 DEF Transcoded, Artifacts
<1> QED
  BY <1>4, <1>5 DEF Forms

\* The replies of the operations, by their kind.
LEMMA Replies ==
    /\ \A why : Refused(why).kind = "refused"
    /\ \A form, p, c, policy :
          \/ ComposeReply(form, p, c, policy) = Done
          \/ ComposeReply(form, p, c, policy).kind = "refused"
    /\ \A form, split, policy :
          \/ TranscodeReply(form, split, policy) = Done
          \/ TranscodeReply(form, split, policy).kind = "refused"
<1>1. \A why : Refused(why).kind = "refused"
  BY DEF Refused
<1>3. \A form, p, c, policy :
          \/ ComposeReply(form, p, c, policy) = Done
          \/ ComposeReply(form, p, c, policy).kind = "refused"
  BY <1>1, Zenon DEF ComposeReply
<1>4. \A p, c, policy :
         /\ ToProtoReply(p, c, policy) = Done \/ ToProtoReply(p, c, policy).kind = "refused"
         /\ ToYamlReply(p, c, policy) = Done \/ ToYamlReply(p, c, policy).kind = "refused"
  BY <1>1 DEF ToProtoReply, ToYamlReply
<1>5. \A form, split, policy :
          \/ TranscodeReply(form, split, policy) = Done
          \/ TranscodeReply(form, split, policy).kind = "refused"
  BY <1>1, <1>4, Zenon DEF TranscodeReply
<1> QED
  BY <1>1, <1>3, <1>5

\* Conclude keeps the shape whatever split it is given.
LEMMA ConcludeShape ==
    ASSUME Shape, running, NEW split, ResultOK(split), Conclude(split)
    PROVE  Shape'
<1>1. /\ held \in Artifacts /\ held.form \in Forms
      /\ call.op \in {"decompose", "transcode"}
  BY ArtifactsAre DEF Shape, LoopOK, Forms
<1>2. origin # NoOrigin /\ origin' = origin /\ call' = call /\ running' = FALSE
  BY DEF Shape, OriginOK, Conclude
<1>3. at' = 1 /\ last' = 0 /\ seen' \in Seen
  BY NothingSeenIsSeen DEF Conclude
<1>4. held' \in Artifacts /\ ResultOK(result')
  <2>1. CASE call.op = "decompose"
    BY <1>1, <2>1 DEF Conclude
  <2>2. CASE call.op = "transcode"
    <3>1. /\ result' = TranscodeReply(held.form, split, call.policy)
          /\ held' = IF result' = Done THEN Transcoded(held.form, split) ELSE held
      BY <2>2 DEF Conclude
    <3>2. ResultOK(result')
      BY <3>1, Replies DEF ResultOK
    <3>3. result' = Done => held' \in Artifacts
      BY <1>1, <3>1, TranscodedDocs
    <3> QED
      BY <1>1, <3>1, <3>2, <3>3
  <2> QED
    BY <1>1, <2>1, <2>2
<1>5. CallOK'
  BY <1>2 DEF Shape, CallOK
<1>6. LoopOK' /\ running' \in BOOLEAN
  <2>1. ~running' /\ running' \in BOOLEAN
    BY <1>2, Zenon
  <2> QED
    BY <1>3, <2>1 DEF LoopOK
<1>7. OriginOK'
  BY <1>2 DEF Shape, OriginOK
<1> QED
  BY <1>3, <1>4, <1>5, <1>6, <1>7 DEF Shape

\* A marker found at i lies inside the text, so the search moves on and stays
\* inside (find_last_constrained_marker).
LEMMA SearchMovesOn ==
    ASSUME NEW t \in Octet, NEW i \in Nat \ {0}, i <= Len(t)
    PROVE  /\ MarkerLen(t, i) \in {0, 4, 5}
           /\ PastMarker(t, i) \in Nat \ {0}
           /\ i < PastMarker(t, i) /\ PastMarker(t, i) <= Len(t) + 1
           /\ IF MarkerLen(t, i) = 0 THEN PastMarker(t, i) = i + 1
              ELSE PastMarker(t, i) = i + MarkerLen(t, i)
<1>1. MarkerLen(t, i) \in {0, 4, 5}
  BY MarkerLenIs DEF Octet
<1>2. MarkerLen(t, i) # 0 => i + MarkerLen(t, i) <= Len(t) + 1
  BY MarkerWithin DEF Octet
<1>3. Len(t) \in Nat
  BY LenProperties DEF Octet
<1>4. CASE MarkerLen(t, i) = 0
  BY <1>3, <1>4 DEF PastMarker
<1>5. CASE MarkerLen(t, i) \in {4, 5}
  <2>1. PastMarker(t, i) = i + MarkerLen(t, i)
    BY <1>5 DEF PastMarker
  <2> QED
    BY <1>2, <1>3, <1>5, <2>1
<1> QED
  BY <1>1, <1>4, <1>5

LEMMA CollectedIsSeen ==
    ASSUME seen \in Seen, NEW f \in WireFields, ~FieldRefused(f)
    PROVE  Collect(f) \in Seen
<1>1. f.value \in Octet
  BY DEF WireFields, Octet
<1>2. seen.carriers \in {0, 1} /\ seen.payloads \in Nat
  BY DEF Seen
<1>3. f.type = "len" /\ f.tag = "signature" => seen.carriers = 0
  <2>1. f.type = "len" /\ f.tag = "signature" => ~(seen.carriers > 0)
    BY Zenon DEF FieldRefused
  <2> QED
    BY <1>2, <2>1
<1>4. CASE Collect(f) = seen
  BY <1>4
<1>5. CASE f.tag = "payload" /\ Collect(f) = [seen EXCEPT !.payload = f.value, !.payloads = @ + 1]
  <2> DEFINE s == [seen EXCEPT !.payload = f.value]
  <2>1. s \in Seen /\ s.payloads = seen.payloads
    BY <1>1 DEF Seen
  <2>2. Collect(f) = [s EXCEPT !.payloads = s.payloads + 1]
    BY <1>5, <2>1, Zenon
  <2> HIDE DEF s
  <2> QED
    BY <1>2, <2>1, <2>2 DEF Seen
<1>6. CASE /\ f.type = "len" /\ f.tag = "signature"
           /\ Collect(f) = [seen EXCEPT !.carrier = f.value, !.carriers = @ + 1]
  <2> DEFINE s == [seen EXCEPT !.carrier = f.value]
  <2>1. s \in Seen /\ s.carriers = seen.carriers
    BY <1>1 DEF Seen
  <2>2. Collect(f) = [s EXCEPT !.carriers = s.carriers + 1]
    BY <1>6, <2>1, Zenon
  <2> HIDE DEF s
  <2> QED
    BY <1>3, <1>6, <2>1, <2>2 DEF Seen
<1> QED
  BY <1>4, <1>5, <1>6, Zenon DEF Collect

\* What EndScan and EndFields hand over is a result.
LEMMA SplitsAreResults ==
    ASSUME Shape, running
    PROVE  /\ held.form = "yaml" => ResultOK(SplitAtLast)
           /\ ResultOK(Malformed)
           /\ ResultOK(IF seen.carriers = 0 THEN Malformed ELSE SplitInto(seen.payload, seen.carrier))
<1>1. held \in Artifacts /\ held.text \in Octet /\ last \in Nat
  BY ArtifactsAre DEF Shape, LoopOK
<1>2. ASSUME held.form = "yaml", last # 0
      PROVE  /\ SubSeq(held.text, 1, last - 1) \in Octet
             /\ SubSeq(held.text, last + MarkerLen(held.text, last), Len(held.text)) \in Octet
  <2> DEFINE t == held.text
             end == last + MarkerLen(t, last)
  <2>1. last < at /\ at \in Nat /\ at <= Len(t) + 1 /\ Len(t) \in Nat
    BY <1>1, <1>2, LenProperties DEF Shape, LoopOK, Extent, Octet
  <2>2. last \in 1..Len(t) /\ MarkerLen(t, last) \in {0, 4, 5}
    <3>1. last \in 1..Len(t)
      BY <1>1, <1>2, <2>1
    <3> QED
      BY <1>1, <3>1, MarkerLenIs DEF Octet
  <2>3. end \in Int /\ end >= 1 /\ last - 1 \in Int /\ last - 1 <= Len(t)
    BY <2>1, <2>2
  <2>4. \A k \in 1..Len(t) : t[k] \in Characters
    BY <1>1 DEF Octet
  <2> HIDE DEF t, end
  <2>5. \A k \in 1..(last - 1) : t[k] \in Characters
    BY <2>1, <2>3, <2>4
  <2>6. \A k \in end..Len(t) : t[k] \in Characters
    BY <2>1, <2>3, <2>4
  <2>7. SubSeq(t, 1, last - 1) \in Octet
    <3>1. t \in Seq(Characters)
      BY <1>1 DEF t, Octet
    <3> QED
      BY <2>3, <2>5, <3>1, SubSeqProperties DEF Octet
  <2>8. SubSeq(t, end, Len(t)) \in Octet
    <3>1. t \in Seq(Characters)
      BY <1>1 DEF t, Octet
    <3> QED
      BY <2>1, <2>3, <2>6, <3>1, SubSeqProperties DEF Octet
  <2> QED
    BY <2>7, <2>8 DEF t, end
<1>3. held.form = "yaml" => ResultOK(SplitAtLast)
  BY <1>2, Zenon DEF ResultOK, SplitAtLast
<1>4. seen.payload \in Octet /\ seen.carrier \in Octet
  BY DEF Shape, Seen
<1> QED
  BY <1>3, <1>4, Zenon DEF ResultOK

\* Every step keeps the shape of the state.
LEMMA NextShape == Shape /\ [Next]_vars => Shape'
<1> SUFFICES ASSUME Shape, [Next]_vars
             PROVE  Shape'
  OBVIOUS
<1>1. ASSUME NEW doc \in Artifacts, Receive(doc)
      PROVE  Shape'
  <2>1. held' = doc /\ origin'.how = "received" /\ origin' # NoOrigin
    BY <1>1 DEF Receive, NoOrigin
  <2>2. ~running /\ running' = running
    BY <1>1 DEF Receive, Shape, OriginOK
  <2>3. CallOK' /\ seen' \in Seen /\ ResultOK(result')
    BY <1>1 DEF Receive, Shape, CallOK
  <2>4. LoopOK' /\ running' \in BOOLEAN
    BY <1>1, <2>2 DEF Receive, Shape, LoopOK
  <2> QED
    BY <2>1, <2>3, <2>4 DEF Shape, OriginOK
<1>2. ASSUME NEW form \in Forms, NEW parts \in Components, NEW policy \in Policies,
             Compose(form, parts[1], parts[2], policy)
      PROVE  Shape'
  <2> DEFINE p == parts[1]
             c == parts[2]
  <2>1. p \in Octet /\ c \in Octet
    BY EnvelopeAssumption DEF Octet
  <2> HIDE DEF p, c
  <2>2. Compose(form, p, c, policy)
    BY <1>2 DEF p, c
  <2>3. ~running /\ running' = running
    BY <2>2 DEF Compose, Shape, OriginOK
  <2>4. held' \in Artifacts \cup {Nothing}
    BY <2>1, <2>2, ComposedDocs DEF Compose
  <2>5. ResultOK(result')
    BY <2>2, Replies DEF Compose, ResultOK
  <2>6. CallOK'
    BY <2>2 DEF Compose, CallOK, Modes
  <2>7. LoopOK' /\ running' \in BOOLEAN /\ seen' \in Seen
    BY <2>2, <2>3 DEF Compose, Shape, LoopOK
  <2>8. OriginOK'
    <3>1. origin'.how \in {"composed", "refused"}
      BY <2>2 DEF Compose
    <3> QED
      BY <3>1 DEF OriginOK, NoOrigin
  <2> QED
    BY <2>4, <2>5, <2>6, <2>7, <2>8 DEF Shape
<1>3. ASSUME NEW op \in {"decompose", "transcode"}, NEW mode \in Modes, NEW policy \in Policies,
             Ask(op, mode, policy)
      PROVE  Shape'
  <2>1. held \in Artifacts /\ held' = held /\ origin' = origin /\ origin # NoOrigin
    BY <1>3 DEF Ask, Shape, OriginOK
  <2>2. at' = 1 /\ last' = 0 /\ seen' \in Seen
    BY <1>3, NothingSeenIsSeen DEF Ask
  <2>3. CallOK' /\ call'.op = op
    BY <1>3 DEF Ask, CallOK
  <2>4. ResultOK(result') /\ running' \in BOOLEAN
    <3>1. \/ result' \in {Malformed, Unsigned, Done}
          \/ \E why : result' = Refused(why)
      BY <1>3, Zenon DEF Ask
    <3>2. running' = TRUE \/ running' = FALSE
      BY <1>3, Zenon DEF Ask
    <3> QED
      BY <3>1, <3>2, Replies DEF ResultOK
  <2>5. LoopOK'
    BY <2>1, <2>2, <2>3, ExtentIsNat DEF LoopOK
  <2>6. OriginOK'
    BY <2>1 DEF Shape, OriginOK
  <2> QED
    BY <2>1, <2>2, <2>3, <2>4, <2>5, <2>6 DEF Shape
<1>4. CASE Scan
  <2>1. held \in Artifacts /\ held.text \in Octet /\ running /\ held.form = "yaml"
    BY <1>4, ArtifactsAre DEF Scan, Shape, LoopOK
  <2>2. at \in Nat \ {0} /\ at <= Len(held.text) /\ last \in Nat /\ last < at
    BY <1>4 DEF Scan, Shape, LoopOK
  <2>3. at' \in Nat \ {0} /\ at < at' /\ at' <= Len(held.text) + 1
    BY <1>4, <2>1, <2>2, SearchMovesOn DEF Scan
  <2>4. last' \in Nat /\ last' < at'
    BY <1>4, <2>2, <2>3 DEF Scan
  <2>5. UNCHANGED <<held, call, running, seen, result, origin>>
    BY <1>4 DEF Scan
  <2>6. LoopOK'
    BY <2>1, <2>3, <2>4, <2>5 DEF Shape, LoopOK, Extent
  <2> QED
    BY <2>5, <2>6 DEF Shape, CallOK, OriginOK
<1>5. CASE EndScan
  <2>1. running /\ held.form = "yaml" /\ Conclude(SplitAtLast)
    BY <1>5 DEF EndScan
  <2> QED
    BY <2>1, SplitsAreResults, ConcludeShape
<1>6. CASE ReadField
  <2>1. held \in Artifacts /\ held.wire \in Seq(WireFields) /\ running /\ held.form = "protobuf"
    BY <1>6, ArtifactsAre DEF ReadField, Shape, LoopOK
  <2>2. at \in Nat \ {0} /\ at <= Len(held.wire) /\ last \in Nat /\ last < at
    BY <1>6 DEF ReadField, Shape, LoopOK
  <2>3. held.wire[at] \in WireFields
    BY <2>1, <2>2
  <2>4. seen' \in Seen /\ at' = at + 1
    BY <1>6, <2>3, CollectedIsSeen DEF ReadField, Shape
  <2>5. UNCHANGED <<held, call, running, last, result, origin>>
    BY <1>6 DEF ReadField
  <2>6. LoopOK'
    BY <2>1, <2>2, <2>4, <2>5 DEF Shape, LoopOK, Extent
  <2> QED
    BY <2>4, <2>5, <2>6 DEF Shape, CallOK, OriginOK
<1>7. CASE RefuseField
  <2>1. running /\ Conclude(Malformed)
    BY <1>7 DEF RefuseField
  <2> QED
    BY <2>1, SplitsAreResults, ConcludeShape
<1>8. CASE EndFields
  <2>1. running /\ Conclude(IF seen.carriers = 0 THEN Malformed
                            ELSE SplitInto(seen.payload, seen.carrier))
    BY <1>8 DEF EndFields
  <2> QED
    BY <2>1, SplitsAreResults, ConcludeShape
<1>9. CASE UNCHANGED vars
  BY <1>9 DEF vars, Shape, CallOK, LoopOK, OriginOK
<1>10. \A t \in Texts : Yaml(t) \in Artifacts
  BY EnvelopeAssumption DEF Artifacts, Octet
<1>11. \A w \in Wires : Proto(w) \in Artifacts
  BY EnvelopeAssumption DEF Artifacts
<1> QED
  BY <1>1, <1>2, <1>3, <1>4, <1>5, <1>6, <1>7, <1>8, <1>9, <1>10, <1>11, Zenon DEF Next

\* Every variable keeps its type, and the loops stay inside the artifact that
\* is held, for all texts, messages, policies and characters (all of Envelope).
THEOREM TypeCorrect == Spec => []TypeOK
<1>1. Spec => []Shape
  BY InitShape, NextShape, PTL DEF Spec
<1> QED
  BY <1>1, ShapeGivesType, PTL

-----------------------------------------------------------------------------
(* The search for the last marker.                                         *)

\* Before position k, the last marker of t is at l, or there is none.
Searched(t, l, k) ==
    /\ l = 0 => \A i \in 1..(k - 1) : MarkerLen(t, i) = 0
    /\ l # 0 => /\ MarkerLen(t, l) # 0
                /\ l + MarkerLen(t, l) <= k
                /\ \A i \in (l + 1)..(k - 1) : MarkerLen(t, i) = 0

ScanInv == running /\ held.form = "yaml" => IsText(held.text) /\ Searched(held.text, last, at)

\* Skipping the octets of a marker skips no other marker.
LEMMA SearchedFurther ==
    ASSUME NEW t \in Octet, NEW k \in Nat \ {0}, k <= Len(t), NEW l \in Nat, l < k, Searched(t, l, k)
    PROVE  Searched(t, IF MarkerLen(t, k) > 0 THEN k ELSE l, PastMarker(t, k))
<1>1. MarkerLen(t, k) \in {0, 4, 5}
  BY SearchMovesOn
<1>2. CASE MarkerLen(t, k) = 0
  <2>1. PastMarker(t, k) = k + 1 /\ ~(MarkerLen(t, k) > 0)
    BY <1>2 DEF PastMarker
  <2>2. (k + 1) - 1 = k
    OBVIOUS
  <2>3. l = 0 => \A i \in 1..k : MarkerLen(t, i) = 0
    BY <1>2 DEF Searched
  <2>4. l # 0 => /\ MarkerLen(t, l) # 0
                 /\ l + MarkerLen(t, l) <= k + 1
                 /\ \A i \in (l + 1)..k : MarkerLen(t, i) = 0
    <3>1. l # 0 => MarkerLen(t, l) \in {0, 4, 5}
      BY SearchMovesOn, LenProperties DEF Octet
    <3> QED
      BY <1>2, <3>1 DEF Searched
  <2> QED
    BY <2>1, <2>2, <2>3, <2>4 DEF Searched
<1>3. CASE MarkerLen(t, k) # 0
  <2>1. PastMarker(t, k) = k + MarkerLen(t, k) /\ MarkerLen(t, k) > 0
    BY <1>1, <1>3 DEF PastMarker
  <2>2. \A i \in (k + 1)..(k + MarkerLen(t, k) - 1) : MarkerLen(t, i) = 0
    BY <1>3, NoOverlap DEF Octet
  <2>3. k # 0 /\ k + MarkerLen(t, k) <= k + MarkerLen(t, k)
    BY <1>1
  <2> QED
    <3>1. Searched(t, k, k + MarkerLen(t, k))
      <4>1. ~(k = 0)
        BY <2>3
      <4>2. \A i \in (k + 1)..((k + MarkerLen(t, k)) - 1) : MarkerLen(t, i) = 0
        <5>1. (k + MarkerLen(t, k)) - 1 = k + (MarkerLen(t, k) - 1)
          BY <1>1
        <5> QED
          BY <2>2, <5>1, Zenon
      <4>3. MarkerLen(t, k) # 0 /\ k + MarkerLen(t, k) <= k + MarkerLen(t, k)
        BY <1>3, <2>3
      <4> QED
        BY <4>1, <4>2, <4>3, Zenon DEF Searched
    <3>2. (IF MarkerLen(t, k) > 0 THEN k ELSE l) = k
      BY <2>1
    <3> QED
      BY <2>1, <3>1, <3>2, Zenon
<1> QED
  BY <1>2, <1>3

\* At the end of the text the search has found the last marker, and what is
\* split there is what TextSplitsInto asks for.
LEMMA SearchedAll ==
    ASSUME NEW t \in Octet, IsText(t), last \in Nat, last <= Len(t),
           held = Yaml(t), Searched(t, last, Len(t) + 1)
    PROVE  TextReadRightly(t, SplitAtLast)
<1>1. t \in Seq(Characters) /\ Len(t) \in Nat /\ held.text = t
  BY LenProperties DEF Octet, Yaml
<1>2. CASE last = 0
  <2>1. SplitAtLast = Unsigned
    BY <1>2 DEF SplitAtLast
  <2>2. \A i \in 1..Len(t) : MarkerLen(t, i) = 0
    BY <1>1, <1>2 DEF Searched
  <2>3. Marks(t) = {}
    <3>1. ASSUME NEW i \in Marks(t)
          PROVE  FALSE
      <4>1. i \in Nat \ {0}
        BY DEF Marks
      <4>2. i <= Len(t) /\ MarkerLen(t, i) # 0
        BY <1>1, <3>1, <4>1, Alphabet, MarksAre, Zenon
      <4> QED
        BY <1>1, <2>2, <4>1, <4>2
    <3> QED
      BY <3>1
  <2> QED
    BY <2>1, <2>3 DEF TextReadRightly, Unsigned
<1>3. CASE last # 0
  <2>1. /\ last \in Nat \ {0} /\ MarkerLen(t, last) # 0
        /\ \A i \in (last + 1)..Len(t) : MarkerLen(t, i) = 0
    BY <1>1, <1>3 DEF Searched
  <2>2. last \in Marks(t)
    BY <1>1, <2>1, Alphabet, MarksAre
  <2> DEFINE n == MarkerLen(t, last)
             p == SubSeq(t, 1, last - 1)
             m == SubSeq(t, last, last + n - 1)
             c == SubSeq(t, last + n, Len(t))
  <2>3. PartsAt(t, last, n, p, m, c)
    BY DEF PartsAt
  <2>4. n \in {4, 5} /\ last + n <= Len(t) + 1 /\ t[last + n - 1] = "lf"
    BY <1>1, <2>1, MarkerWithin
  <2>5. SplitAtLast = IF last + n = Len(t) + 1 THEN Malformed ELSE SplitInto(p, c)
    BY <1>1, <1>3, Zenon DEF SplitAtLast
  <2> HIDE DEF n, p, m, c
  <2>6. /\ p \in Seq(Characters) /\ c \in Seq(Characters) /\ m \in MarkerTexts
        /\ Len(c) = Len(t) - (last + n) + 1
        /\ LineEnds(p)
        /\ Joins(t, p, m, c)
        /\ t = p \o m \o c
        /\ Len(p) = last - 1
    BY <1>1, <2>2, <2>3, Alphabet, SplitJoins
  <2>7. CASE last + n = Len(t) + 1
    <3>1. SplitAtLast = Malformed
      BY <2>5, <2>7
    <3>2. m = SubSeq(t, last, Len(t))
      <4>1. last + n - 1 = Len(t)
        BY <1>1, <2>1, <2>4, <2>7
      <4> QED
        BY <4>1 DEF m
    <3> QED
      BY <2>2, <2>6, <3>1, <3>2 DEF TextReadRightly, Malformed
  <2>8. CASE last + n # Len(t) + 1
    <3>1. SplitAtLast = SplitInto(p, c)
      BY <2>5, <2>8
    <3>2. c # <<>>
      <4>1. Len(c) # 0
        BY <1>1, <2>1, <2>4, <2>6, <2>8
      <4> QED
        BY <4>1, EmptySeq
    <3>3. Marks(c) = {}
      <4> DEFINE k == last + n - 1
      <4>1. k \in Nat /\ Len(t) = k + Len(c) /\ t[k] = "lf"
        <5>1. Len(c) = Len(t) - (last + n) + 1
          BY <2>6
        <5> QED
          BY <1>1, <2>1, <2>4, <5>1
      <4>2. \A j \in 1..Len(c) : t[k + j] = c[j]
        <5>1. Len(p) + Len(m) = k
          <6>1. Len(t) = Len(p) + Len(m) + Len(c) /\ Len(p) \in Nat /\ Len(m) \in Nat /\ Len(c) \in Nat
            <7>1. m \in Seq(Characters)
              BY <2>6, Alphabet, MarkerLiterals DEF MarkerTexts
            <7> QED
              BY <2>6, <7>1, LenProperties DEF Joins
          <6> QED
            BY <4>1, <6>1
        <5> QED
          BY <2>6, <5>1 DEF Joins
      <4> HIDE DEF k
      <4>3. \A j \in Nat \ {0} : j \in Marks(c) <=> k + j \in Marks(t)
        <5>1. c \in Seq(Characters)
          BY <2>6
        <5> QED
          BY <1>1, <4>1, <4>2, <5>1, Alphabet, MarksOfTail
      <4>4. ASSUME NEW j \in Marks(c)
            PROVE  FALSE
        <5>1. j \in Nat \ {0} /\ k + j \in Nat \ {0} /\ k + j > last
          BY <2>1, <2>4, <4>1 DEF Marks, k
        <5>2. k + j \in Marks(t)
          BY <4>3, <5>1
        <5>3. k + j <= Len(t) /\ MarkerLen(t, k + j) # 0
          BY <1>1, <5>1, <5>2, Alphabet, MarksAre, Zenon
        <5>4. k + j \in (last + 1)..Len(t)
          BY <1>1, <2>1, <5>1, <5>3
        <5> QED
          BY <2>1, <5>3, <5>4, Zenon
      <4> QED
        BY <4>4
    <3> QED
      BY <2>6, <3>1, <3>2, <3>3, Zenon DEF TextReadRightly, TextSplitsInto, SplitInto
  <2> QED
    BY <2>7, <2>8
<1> QED
  BY <1>2, <1>3

-----------------------------------------------------------------------------
(* The reading of the outer fields.                                        *)

Before(w, tag, k) == {i \in FieldsOf(w, tag) : i < k}

\* What the loop has collected from the fields before k, none of which it
\* would refuse under the mode.
PayloadsUpTo(w, k, s) ==
    /\ s.payloads = 0 => Before(w, "payload", k) = {} /\ s.payload = <<>>
    /\ s.payloads # 0 => \E i \in Before(w, "payload", k) :
          s.payload = w[i].value /\ \A j \in Before(w, "payload", k) : j <= i

CarriersUpTo(w, k, s) ==
    /\ s.carriers = 0 => Before(w, "signature", k) = {}
    /\ s.carriers # 0 => \E i \in Before(w, "signature", k) :
          s.carrier = w[i].value /\ \A j \in Before(w, "signature", k) : j = i

FieldsFine(w, k, mode) ==
    /\ \A i \in 1..(k - 1) : w[i].type # "cut"
    /\ mode = "strict" => \A i \in 1..(k - 1) : w[i].type = "len" /\ w[i].tag \in {"payload", "signature"}
    /\ mode = "strict" => OnlyOne(Before(w, "payload", k))

FieldInv ==
    running /\ held.form = "protobuf" =>
        /\ PayloadsUpTo(held.wire, at, seen)
        /\ CarriersUpTo(held.wire, at, seen)
        /\ FieldsFine(held.wire, at, call.mode)

LEMMA FieldsBefore ==
    ASSUME NEW w \in Seq(WireFields), NEW k \in 1..Len(w), NEW tag
    PROVE  /\ Before(w, tag, k) \subseteq 1..(k - 1)
           /\ Before(w, tag, 1) = {}
           /\ w[k].type = "len" /\ w[k].tag = tag =>
                 Before(w, tag, k + 1) = Before(w, tag, k) \cup {k}
           /\ ~(w[k].type = "len" /\ w[k].tag = tag) =>
                 Before(w, tag, k + 1) = Before(w, tag, k)
<1>1. Len(w) \in Nat /\ FieldsOf(w, tag) \subseteq 1..Len(w)
  BY LenProperties DEF FieldsOf
<1>2. k \in FieldsOf(w, tag) <=> w[k].type = "len" /\ w[k].tag = tag
  BY DEF FieldsOf
<1> HIDE DEF FieldsOf
<1> QED
  BY <1>1, <1>2 DEF Before

LEMMA NoFieldsYet ==
    ASSUME NEW w \in Seq(WireFields), NEW mode
    PROVE  /\ PayloadsUpTo(w, 1, NothingSeen)
           /\ CarriersUpTo(w, 1, NothingSeen)
           /\ FieldsFine(w, 1, mode)
<1>1. \A tag : Before(w, tag, 1) = {}
  <2>1. \A tag : FieldsOf(w, tag) \subseteq 1..Len(w)
    BY DEF FieldsOf
  <2> QED
    BY <2>1, LenProperties DEF Before
<1>2. OnlyOne({}) /\ 1..(1 - 1) = {}
  BY DEF OnlyOne
<1>3. NothingSeen.payload = <<>> /\ NothingSeen.payloads = 0 /\ NothingSeen.carriers = 0
  BY DEF NothingSeen
<1>4. FieldsFine(w, 1, mode)
  BY <1>1, <1>2, Zenon DEF FieldsFine
<1> QED
  BY <1>1, <1>3, <1>4 DEF PayloadsUpTo, CarriersUpTo

\* Collecting one more field that is not refused.
LEMMA OneMoreField ==
    ASSUME NEW w \in Seq(WireFields), NEW k \in 1..Len(w), seen \in Seen, ~FieldRefused(w[k]),
           PayloadsUpTo(w, k, seen), CarriersUpTo(w, k, seen), FieldsFine(w, k, call.mode)
    PROVE  /\ PayloadsUpTo(w, k + 1, Collect(w[k]))
           /\ CarriersUpTo(w, k + 1, Collect(w[k]))
           /\ FieldsFine(w, k + 1, call.mode)
<1> DEFINE f == w[k]
           s == Collect(f)
<1>1. k \in Nat /\ (k + 1) - 1 = k /\ seen.payloads \in Nat /\ seen.carriers \in {0, 1}
  BY DEF Seen
<1>2. /\ f.type = "len" /\ f.tag = "payload"
           => s.payload = f.value /\ s.payloads = seen.payloads + 1
      /\ ~(f.type = "len" /\ f.tag = "payload")
           => s.payload = seen.payload /\ s.payloads = seen.payloads
      /\ f.type = "len" /\ f.tag = "signature"
           => s.carrier = f.value /\ s.carriers = seen.carriers + 1
      /\ ~(f.type = "len" /\ f.tag = "signature")
           => s.carrier = seen.carrier /\ s.carriers = seen.carriers
  <2>1. CASE f.type # "len"
    BY <2>1 DEF Collect
  <2>2. CASE f.type = "len" /\ f.tag = "payload"
    <3> DEFINE u == [seen EXCEPT !.payload = f.value]
    <3>1. /\ u \in [payload : {f.value}, carrier : Octet, payloads : Nat, carriers : {0, 1}]
          /\ u.carrier = seen.carrier /\ u.payloads = seen.payloads /\ u.carriers = seen.carriers
      BY DEF Seen
    <3>2. s = [u EXCEPT !.payloads = u.payloads + 1]
      BY <2>2, <3>1, Zenon DEF Collect
    <3> HIDE DEF u, s, f
    <3> QED
      BY <2>2, <3>1, <3>2
  <2>3. CASE f.type = "len" /\ f.tag = "signature"
    <3> DEFINE u == [seen EXCEPT !.carrier = f.value]
    <3>1. /\ u \in [payload : Octet, carrier : {f.value}, payloads : Nat, carriers : {0, 1}]
          /\ u.payload = seen.payload /\ u.payloads = seen.payloads /\ u.carriers = seen.carriers
      BY DEF Seen
    <3>2. s = [u EXCEPT !.carriers = u.carriers + 1]
      BY <2>3, <3>1, Zenon DEF Collect
    <3> HIDE DEF u, s, f
    <3> QED
      BY <2>3, <3>1, <3>2
  <2>4. CASE f.type = "len" /\ f.tag \notin {"payload", "signature"}
    BY <2>4 DEF Collect
  <2> QED
    BY <2>1, <2>2, <2>3, <2>4, Zenon
<1> HIDE DEF s
<1>3. PayloadsUpTo(w, k + 1, s)
  <2>1. CASE f.type = "len" /\ f.tag = "payload"
    <3>1. s.payloads # 0 /\ s.payload = f.value
      BY <1>1, <1>2, <2>1
    <3>2. Before(w, "payload", k + 1) = Before(w, "payload", k) \cup {k}
      BY <2>1, FieldsBefore
    <3>3. \A j \in Before(w, "payload", k) : j <= k
      BY FieldsBefore, <1>1
    <3> QED
      BY <1>1, <3>1, <3>2, <3>3 DEF PayloadsUpTo
  <2>2. CASE ~(f.type = "len" /\ f.tag = "payload")
    <3>1. Before(w, "payload", k + 1) = Before(w, "payload", k)
      BY <2>2, FieldsBefore
    <3> QED
      BY <1>2, <2>2, <3>1, Zenon DEF PayloadsUpTo
  <2> QED
    BY <2>1, <2>2
<1>4. CarriersUpTo(w, k + 1, s)
  <2>1. CASE f.type = "len" /\ f.tag = "signature"
    <3>1. seen.carriers = 0
      <4>1. ~(seen.carriers > 0)
        BY <2>1, Zenon DEF FieldRefused
      <4> QED
        BY <1>1, <4>1
    <3>2. s.carriers # 0 /\ s.carrier = f.value
      BY <1>2, <2>1, <3>1
    <3>3. Before(w, "signature", k + 1) = {k}
      <4>1. Before(w, "signature", k + 1) = Before(w, "signature", k) \cup {k}
        BY <2>1, FieldsBefore
      <4>2. Before(w, "signature", k) = {}
        BY <3>1, Zenon DEF CarriersUpTo
      <4> QED
        BY <4>1, <4>2
    <3> QED
      BY <3>2, <3>3 DEF CarriersUpTo
  <2>2. CASE ~(f.type = "len" /\ f.tag = "signature")
    <3>1. Before(w, "signature", k + 1) = Before(w, "signature", k)
      BY <2>2, FieldsBefore
    <3> QED
      BY <1>2, <2>2, <3>1, Zenon DEF CarriersUpTo
  <2> QED
    BY <2>1, <2>2
<1>5. FieldsFine(w, k + 1, call.mode)
  <2>1. f.type # "cut" /\ f \in WireFields
    BY DEF FieldRefused
  <2>2. \A i \in 1..k : i = k \/ i \in 1..(k - 1)
    OBVIOUS
  <2>3. \A i \in 1..k : w[i].type # "cut"
    BY <2>1, <2>2 DEF FieldsFine
  <2>4. ASSUME call.mode = "strict"
        PROVE  \A i \in 1..k : w[i].type = "len" /\ w[i].tag \in {"payload", "signature"}
    <3>1. f.type = "len" /\ f.tag # "unknown"
      BY <2>4, Zenon DEF FieldRefused
    <3>2. f.tag \in {"payload", "signature"}
      BY <2>1, <3>1 DEF WireFields, Tags
    <3> QED
      BY <2>2, <2>4, <3>1, <3>2 DEF FieldsFine
  <2>5. ASSUME call.mode = "strict"
        PROVE  OnlyOne(Before(w, "payload", k + 1))
    <3>1. CASE f.type = "len" /\ f.tag = "payload"
      <4>1. ~(seen.payloads > 0)
        BY <2>5, <3>1, Zenon DEF FieldRefused
      <4>2. Before(w, "payload", k) = {}
        BY <1>1, <4>1 DEF PayloadsUpTo
      <4>3. Before(w, "payload", k + 1) = {k}
        <5>1. Before(w, "payload", k + 1) = Before(w, "payload", k) \cup {k}
          BY <3>1, FieldsBefore
        <5> QED
          BY <4>2, <5>1
      <4> QED
        BY <4>3 DEF OnlyOne
    <3>2. CASE ~(f.type = "len" /\ f.tag = "payload")
      BY <2>5, <3>2, FieldsBefore DEF FieldsFine
    <3> QED
      BY <3>1, <3>2
  <2> QED
    BY <1>1, <2>3, <2>4, <2>5, Zenon DEF FieldsFine
<1> QED
  BY <1>3, <1>4, <1>5 DEF s

\* A field that is refused makes the whole message unacceptable.
LEMMA RefusedFieldSpoils ==
    ASSUME NEW w \in Seq(WireFields), NEW k \in 1..Len(w), seen \in Seen, FieldRefused(w[k]),
           PayloadsUpTo(w, k, seen), CarriersUpTo(w, k, seen)
    PROVE  ~WireAccepted(w, call.mode)
<1> DEFINE f == w[k]
<1>1. /\ k \in 1..Len(w) /\ seen.payloads \in Nat /\ seen.carriers \in {0, 1}
      /\ \A tag : f.type = "len" /\ f.tag = tag => k \in FieldsOf(w, tag)
      /\ \A tag : \A i \in Before(w, tag, k) : i \in FieldsOf(w, tag) /\ i # k
  BY DEF Seen, FieldsOf, Before
<1>2. CASE f.type = "cut"
  BY <1>2 DEF WireAccepted
<1>3. CASE call.mode = "strict" /\ (f.type # "len" \/ f.tag = "unknown")
  BY <1>3 DEF WireAccepted
<1>4. CASE call.mode = "strict" /\ f.tag = "payload" /\ seen.payloads > 0 /\ f.type = "len"
  <2>1. PICK i \in Before(w, "payload", k) : TRUE
    BY <1>1, <1>4 DEF PayloadsUpTo
  <2>2. ~OnlyOne(FieldsOf(w, "payload"))
    BY <1>1, <1>4, <2>1, Zenon DEF OnlyOne
  <2> QED
    BY <1>4, <2>2 DEF WireAccepted
<1>5. CASE f.type = "len" /\ f.tag = "signature" /\ seen.carriers > 0
  <2>1. PICK i \in Before(w, "signature", k) : TRUE
    BY <1>1, <1>5 DEF CarriersUpTo
  <2>2. ~OnlyOne(FieldsOf(w, "signature"))
    BY <1>1, <1>5, <2>1, Zenon DEF OnlyOne
  <2> QED
    BY <2>2 DEF WireAccepted
<1> QED
  BY <1>2, <1>3, <1>4, <1>5, Zenon DEF FieldRefused

\* At the end of the message the loop holds its last payload and its only
\* signature, or there is none.
LEMMA AllFieldsRead ==
    ASSUME NEW w \in Seq(WireFields), seen \in Seen,
           PayloadsUpTo(w, Len(w) + 1, seen), CarriersUpTo(w, Len(w) + 1, seen),
           FieldsFine(w, Len(w) + 1, call.mode)
    PROVE  WireReadRightly(w, call.mode,
              IF seen.carriers = 0 THEN Malformed ELSE SplitInto(seen.payload, seen.carrier))
<1>1. Len(w) \in Nat /\ (Len(w) + 1) - 1 = Len(w)
  BY LenProperties
<1>2. \A tag : FieldsOf(w, tag) \subseteq 1..Len(w)
  BY DEF FieldsOf
<1>3. \A tag : Before(w, tag, Len(w) + 1) = FieldsOf(w, tag)
  BY <1>1, <1>2 DEF Before
<1>4. CASE seen.carriers = 0
  <2>1. FieldsOf(w, "signature") = {}
    BY <1>3, <1>4, Zenon DEF CarriersUpTo
  <2> QED
    BY <1>4, <2>1 DEF WireReadRightly, WireAccepted
<1>5. CASE seen.carriers # 0
  <2>1. PICK i \in FieldsOf(w, "signature") :
           seen.carrier = w[i].value /\ \A j \in FieldsOf(w, "signature") : j = i
    <3>1. \E i \in Before(w, "signature", Len(w) + 1) :
             seen.carrier = w[i].value /\ \A j \in Before(w, "signature", Len(w) + 1) : j = i
      BY <1>5, Zenon DEF CarriersUpTo
    <3> QED
      BY <1>3, <3>1
  <2>2. WireAccepted(w, call.mode)
    <3>1. FieldsOf(w, "signature") # {} /\ OnlyOne(FieldsOf(w, "signature"))
      BY <2>1, Zenon DEF OnlyOne
    <3>2. /\ \A j \in 1..Len(w) : w[j].type # "cut"
          /\ call.mode = "strict" =>
               \A j \in 1..Len(w) : w[j].type = "len" /\ w[j].tag \in {"payload", "signature"}
          /\ call.mode = "strict" => OnlyOne(FieldsOf(w, "payload"))
      BY <1>1, <1>3, Zenon DEF FieldsFine
    <3> QED
      BY <3>1, <3>2, Zenon DEF WireAccepted
  <2>3. LastValue(w, "signature") = seen.carrier
    <3>1. i \in Nat
      BY <1>1, <1>2, <2>1
    <3>2. (CHOOSE k \in FieldsOf(w, "signature") : \A j \in FieldsOf(w, "signature") : j <= k) = i
      <4>1. i <= i
        BY <3>1
      <4> QED
        BY <2>1, <4>1, Zenon
    <3> QED
      BY <2>1, <3>2 DEF LastValue
  <2>4. LastValue(w, "payload") = seen.payload
    <3>1. CASE seen.payloads = 0
      BY <1>3, <3>1, Zenon DEF PayloadsUpTo, LastValue
    <3>2. CASE seen.payloads # 0
      <4>1. PICK k \in FieldsOf(w, "payload") :
               seen.payload = w[k].value /\ \A j \in FieldsOf(w, "payload") : j <= k
        <5>1. \E k \in Before(w, "payload", Len(w) + 1) :
                 /\ seen.payload = w[k].value
                 /\ \A j \in Before(w, "payload", Len(w) + 1) : j <= k
          BY <3>2, Zenon DEF PayloadsUpTo
        <5> QED
          BY <1>3, <5>1
      <4>2. \A j, l \in FieldsOf(w, "payload") : j <= l /\ l <= j => j = l
        BY <1>1, <1>2
      <4>3. (CHOOSE l \in FieldsOf(w, "payload") : \A j \in FieldsOf(w, "payload") : j <= l) = k
        BY <4>1, <4>2, Zenon
      <4> QED
        BY <4>1, <4>3 DEF LastValue
    <3> QED
      BY <3>1, <3>2
  <2> QED
    BY <1>5, <2>2, <2>3, <2>4, Zenon DEF WireReadRightly
<1> QED
  BY <1>4, <1>5

-----------------------------------------------------------------------------
(* What a decomposition returns.                                           *)

ReadInv == Shape /\ ScanInv /\ FieldInv /\ DecomposedRightly

\* Concluding with a right answer keeps the invariant.
LEMMA ConcludeReads ==
    ASSUME Shape, running, NEW split, Conclude(split),
           held.form = "yaml" => TextReadRightly(held.text, split),
           held.form # "yaml" => WireReadRightly(held.wire, call.mode, split)
    PROVE  ScanInv' /\ FieldInv' /\ DecomposedRightly'
<1>1. running' = FALSE /\ call' = call
  BY DEF Conclude
<1>2. ScanInv' /\ FieldInv'
  BY <1>1, Zenon DEF ScanInv, FieldInv
<1>3. ASSUME call.op = "decompose"
      PROVE  result' = split /\ held' = held
  BY <1>3, Zenon DEF Conclude
<1> QED
  BY <1>1, <1>2, <1>3, Zenon DEF DecomposedRightly

LEMMA EmptyTextRead ==
    /\ Utf8Ok(<<>>) /\ ~BomAtZero(<<>>) => TextReadRightly(<<>>, Unsigned)
    /\ \A t : ~IsText(t) => TextReadRightly(t, Malformed)
<1>1. Marks(<<>>) = {}
  BY DEF Marks
<1>2. Unsigned.kind = "unsigned" /\ Malformed.kind = "malformed"
  BY DEF Unsigned, Malformed
<1> QED
  BY <1>1, <1>2, Zenon DEF TextReadRightly, IsText

\* Wherever a loop ends, it hands over what the artifact says.
Concluded(split) ==
    /\ Conclude(split)
    /\ running /\ held \in Artifacts
    /\ ResultOK(split) /\ split.kind # "refused"
    /\ held.form = "yaml" => TextReadRightly(held.text, split)
    /\ held.form # "yaml" => WireReadRightly(held.wire, call.mode, split)

LEMMA EndsRightly ==
    ASSUME Shape, ScanInv, FieldInv, EndScan \/ RefuseField \/ EndFields
    PROVE  \E split : Concluded(split)
<1>1. CASE EndScan
  <2>1. /\ held \in Artifacts /\ held.text \in Octet /\ running /\ held.form = "yaml"
        /\ held = Yaml(held.text) /\ Len(held.text) \in Nat
        /\ at \in Nat \ {0} /\ at > Len(held.text) /\ at <= Len(held.text) + 1
        /\ last \in Nat /\ last < at
    BY <1>1, ArtifactsAre, LenProperties DEF EndScan, Shape, LoopOK, Extent, Octet
  <2>2. at = Len(held.text) + 1 /\ last <= Len(held.text)
    BY <2>1
  <2>3. IsText(held.text) /\ Searched(held.text, last, Len(held.text) + 1)
    BY <2>1, <2>2, Zenon DEF ScanInv
  <2>4. TextReadRightly(held.text, SplitAtLast)
    BY <2>1, <2>2, <2>3, SearchedAll, Zenon
  <2>5. Conclude(SplitAtLast) /\ ResultOK(SplitAtLast)
    BY <1>1, <2>1, SplitsAreResults DEF EndScan
  <2>6. SplitAtLast.kind # "refused"
    BY <2>4 DEF TextReadRightly
  <2> QED
    BY <2>1, <2>4, <2>5, <2>6, Zenon DEF Concluded
<1>2. ASSUME RefuseField \/ EndFields
      PROVE  /\ held \in Artifacts /\ held.wire \in Seq(WireFields) /\ running /\ held.form = "protobuf"
             /\ held.form # "yaml" /\ seen \in Seen /\ Len(held.wire) \in Nat
             /\ at \in Nat \ {0} /\ at <= Len(held.wire) + 1
             /\ PayloadsUpTo(held.wire, at, seen) /\ CarriersUpTo(held.wire, at, seen)
             /\ FieldsFine(held.wire, at, call.mode)
  <2>1. /\ held \in Artifacts /\ held.wire \in Seq(WireFields) /\ running /\ held.form = "protobuf"
        /\ held.form # "yaml" /\ seen \in Seen /\ Len(held.wire) \in Nat
        /\ at \in Nat \ {0} /\ at <= Len(held.wire) + 1
    BY <1>2, ArtifactsAre, LenProperties DEF RefuseField, EndFields, Shape, LoopOK, Extent
  <2> QED
    BY <2>1, Zenon DEF FieldInv
<1>3. CASE RefuseField
  <2>1. at \in 1..Len(held.wire) /\ FieldRefused(held.wire[at]) /\ Conclude(Malformed)
    BY <1>2, <1>3 DEF RefuseField
  <2>2. ~WireAccepted(held.wire, call.mode)
    BY <1>2, <1>3, <2>1, RefusedFieldSpoils, Zenon
  <2>3. WireReadRightly(held.wire, call.mode, Malformed)
    BY <2>2 DEF WireReadRightly
  <2>4. ResultOK(Malformed) /\ Malformed.kind # "refused"
    BY DEF ResultOK, Malformed
  <2> QED
    BY <1>2, <1>3, <2>1, <2>3, <2>4, Zenon DEF Concluded
<1>4. CASE EndFields
  <2>1. at > Len(held.wire)
    BY <1>4 DEF EndFields
  <2>2. at = Len(held.wire) + 1
    BY <1>2, <1>4, <2>1
  <2> DEFINE split == IF seen.carriers = 0 THEN Malformed ELSE SplitInto(seen.payload, seen.carrier)
  <2>3. Conclude(split) /\ ResultOK(split)
    <3>1. running
      BY <1>2, <1>4
    <3> QED
      BY <1>4, <3>1, SplitsAreResults DEF EndFields
  <2>4. split.kind # "refused"
    BY DEF Malformed, SplitInto
  <2>5. WireReadRightly(held.wire, call.mode, split)
    BY <1>2, <1>4, <2>2, AllFieldsRead, Zenon
  <2> HIDE DEF split
  <2> QED
    BY <1>2, <1>4, <2>3, <2>4, <2>5, Zenon DEF Concluded
<1> QED
  BY <1>1, <1>3, <1>4

LEMMA NextReads == ReadInv /\ [Next]_vars => ReadInv'
<1> SUFFICES ASSUME ReadInv, [Next]_vars
             PROVE  ReadInv'
  OBVIOUS
<1>0. Shape /\ ScanInv /\ FieldInv /\ DecomposedRightly /\ Shape'
  BY NextShape DEF ReadInv
<1> SUFFICES ScanInv' /\ FieldInv' /\ DecomposedRightly'
  BY <1>0 DEF ReadInv
<1>1. ASSUME NEW doc, Receive(doc)
      PROVE  ScanInv' /\ FieldInv' /\ DecomposedRightly'
  <2>1. ~running' /\ call'.op = "none"
    BY <1>0, <1>1 DEF Receive, Shape, OriginOK, NoCall
  <2> QED
    BY <2>1 DEF ScanInv, FieldInv, DecomposedRightly
<1>2. ASSUME NEW form, NEW p, NEW c, NEW policy, Compose(form, p, c, policy)
      PROVE  ScanInv' /\ FieldInv' /\ DecomposedRightly'
  <2>1. ~running' /\ call'.op = "compose"
    BY <1>0, <1>2 DEF Compose, Shape, OriginOK
  <2> QED
    BY <2>1 DEF ScanInv, FieldInv, DecomposedRightly
<1>3. ASSUME NEW op \in {"decompose", "transcode"}, NEW mode \in Modes, NEW policy \in Policies,
             Ask(op, mode, policy)
      PROVE  ScanInv' /\ FieldInv' /\ DecomposedRightly'
  <2>1. /\ held \in Artifacts /\ held' = held /\ held.text \in Octet /\ held.wire \in Seq(WireFields)
        /\ held.form = "yaml" => held = Yaml(held.text)
        /\ at' = 1 /\ last' = 0 /\ seen' = NothingSeen
    BY <1>0, <1>3, ArtifactsAre DEF Ask, Shape
  <2>2. running' => ~(held.form = "yaml" /\ (~Utf8Ok(held.text) \/ BomAtZero(held.text)))
    BY <1>3, Zenon DEF Ask
  <2>3. ScanInv'
    <3>1. Searched(held.text, 0, 1)
      BY DEF Searched
    <3> QED
      BY <2>1, <2>2, <3>1, Zenon DEF ScanInv, IsText
  <2>4. FieldInv'
    BY <2>1, NoFieldsYet, Zenon DEF FieldInv
  <2>5. \/ running' = TRUE
        \/ result'.kind = "refused"
        \/ held.form = "yaml" /\ (~Utf8Ok(held.text) \/ BomAtZero(held.text)) /\ result' = Malformed
        \/ op = "transcode"
        \/ /\ ~(held.form = "yaml" /\ (~Utf8Ok(held.text) \/ BomAtZero(held.text)))
           /\ held = Yaml(<<>>) /\ result' = Unsigned
    BY <1>3, Replies, Zenon DEF Ask
  <2>6. call'.op = op
    BY <1>3 DEF Ask
  <2>7. held = Yaml(<<>>) => held.form = "yaml" /\ held.text = <<>>
    BY DEF Yaml
  <2>8. DecomposedRightly'
    <3>1. CASE held.form = "yaml" /\ (~Utf8Ok(held.text) \/ BomAtZero(held.text)) /\ result' = Malformed
      BY <2>1, <3>1, EmptyTextRead, Zenon DEF DecomposedRightly, IsText
    <3>2. CASE /\ ~(held.form = "yaml" /\ (~Utf8Ok(held.text) \/ BomAtZero(held.text)))
               /\ held = Yaml(<<>>) /\ result' = Unsigned
      <4>1. held'.form = "yaml" /\ held'.text = <<>> /\ Utf8Ok(<<>>) /\ ~BomAtZero(<<>>)
        BY <2>1, <2>7, <3>2, Zenon
      <4>2. TextReadRightly(held'.text, result')
        BY <3>2, <4>1, EmptyTextRead, Zenon
      <4> QED
        BY <4>1, <4>2, Zenon DEF DecomposedRightly
    <3>3. CASE op = "transcode"
      BY <2>6, <3>3 DEF DecomposedRightly
    <3>4. CASE running' = TRUE \/ result'.kind = "refused"
      BY <3>4, Zenon DEF DecomposedRightly
    <3> QED
      BY <2>5, <3>1, <3>2, <3>3, <3>4, Zenon
  <2> QED
    BY <2>3, <2>4, <2>8
<1>4. CASE Scan
  <2>1. /\ held \in Artifacts /\ held.text \in Octet /\ running /\ held.form = "yaml"
        /\ at \in Nat \ {0} /\ at <= Len(held.text) /\ last \in Nat /\ last < at
    BY <1>0, <1>4, ArtifactsAre DEF Scan, Shape, LoopOK
  <2>2. UNCHANGED <<held, call, running, seen, result, origin>>
    BY <1>4 DEF Scan
  <2>3. IsText(held.text) /\ Searched(held.text, last, at)
    BY <1>0, <2>1, Zenon DEF ScanInv
  <2>4. Searched(held.text, last', at')
    BY <1>4, <2>1, <2>3, SearchedFurther, Zenon DEF Scan
  <2>5. ScanInv'
    BY <2>2, <2>3, <2>4, Zenon DEF ScanInv
  <2>6. held'.form = "yaml" /\ running'
    BY <2>1, <2>2, Zenon
  <2> QED
    BY <2>5, <2>6 DEF FieldInv, DecomposedRightly
<1>5. CASE EndScan \/ RefuseField \/ EndFields
  <2>1. PICK split : Concluded(split)
    BY <1>0, <1>5, EndsRightly
  <2> QED
    BY <1>0, <2>1, ConcludeReads, Zenon DEF Concluded
<1>6. CASE ReadField
  <2>1. /\ held \in Artifacts /\ held.wire \in Seq(WireFields) /\ running /\ held.form = "protobuf"
        /\ at \in Nat \ {0} /\ at <= Len(held.wire) /\ seen \in Seen /\ Len(held.wire) \in Nat
    BY <1>0, <1>6, ArtifactsAre, LenProperties DEF ReadField, Shape, LoopOK
  <2>2. UNCHANGED <<held, call, running, last, result, origin>>
    BY <1>6 DEF ReadField
  <2>3. at \in 1..Len(held.wire)
    BY <2>1
  <2>4. /\ ~FieldRefused(held.wire[at]) /\ seen' = Collect(held.wire[at]) /\ at' = at + 1
    BY <1>6 DEF ReadField
  <2>5. /\ PayloadsUpTo(held.wire, at, seen) /\ CarriersUpTo(held.wire, at, seen)
        /\ FieldsFine(held.wire, at, call.mode)
    BY <1>0, <2>1, Zenon DEF FieldInv
  <2>6. /\ PayloadsUpTo(held.wire, at', seen') /\ CarriersUpTo(held.wire, at', seen')
        /\ FieldsFine(held.wire, at', call.mode)
    BY <2>1, <2>3, <2>4, <2>5, OneMoreField, Zenon
  <2>7. FieldInv'
    BY <2>2, <2>6, Zenon DEF FieldInv
  <2>8. held'.form = "protobuf" /\ running'
    BY <2>1, <2>2, Zenon
  <2> QED
    BY <2>7, <2>8 DEF ScanInv, DecomposedRightly
<1>7. CASE UNCHANGED vars
  BY <1>0, <1>7, Zenon DEF vars, ScanInv, FieldInv, DecomposedRightly
<1> QED
  BY <1>1, <1>2, <1>3, <1>4, <1>5, <1>6, <1>7, Zenon DEF Next

LEMMA InitReads == Init => ReadInv
<1>1. Init => ~running /\ call.op = "none"
  BY DEF Init, NoCall
<1> QED
  BY <1>1, InitShape DEF ReadInv, ScanInv, FieldInv, DecomposedRightly

LEMMA AlwaysReads == Spec => []ReadInv
  BY InitReads, NextReads, PTL DEF Spec

\* Every decomposition of every text and every message returns what the
\* artifact says: payload before the last marker, carrier without a marker;
\* last payload, only signature (decompose_artifact, decompose_raw_outer).
THEOREM DecomposesRightly == Spec => []DecomposedRightly
<1>1. ReadInv => DecomposedRightly
  BY DEF ReadInv
<1> QED
  BY <1>1, AlwaysReads, PTL

-----------------------------------------------------------------------------
(* Compose and decompose.                                                  *)

LEMMA LastMarkIs ==
    ASSUME NEW t \in Octet, Marks(t) # {}
    PROVE  LastMark(t) \in Marks(t) /\ \A j \in Marks(t) : j <= LastMark(t)
<1>1. Len(t) \in Nat /\ Marks(t) \in SUBSET (1..Len(t))
  BY LenProperties DEF Octet, Marks
<1>2. \E i \in Marks(t) : \A j \in Marks(t) : j <= i
  BY <1>1, LargestElement
<1> QED
  BY <1>2, Zenon DEF LastMark

\* Two texts joined by a marker are UTF-8 if each of them is.
LEMMA JoinedUtf8 ==
    ASSUME NEW p \in Octet, NEW c \in Octet, NEW t \in Octet, Joins(t, p, LfMarker, c),
           Utf8Ok(p), Utf8Ok(c)
    PROVE  Utf8Ok(t)
<1>1. /\ Len(LfMarker) = 4 /\ Len(p) \in Nat /\ Len(c) \in Nat /\ Len(t) = Len(p) + 4 + Len(c)
      /\ \A i \in 1..4 : LfMarker[i] \in {"-", "lf"}
  <2>1. /\ LfMarker \in Seq(Characters) /\ Len(LfMarker) = 4
        /\ LfMarker[1] = "-" /\ LfMarker[2] = "-" /\ LfMarker[3] = "-" /\ LfMarker[4] = "lf"
    BY Alphabet, MarkerLiterals
  <2> QED
    BY <2>1, LenProperties DEF Octet, Joins
<1>2. /\ \A i \in 1..Len(p) : t[i] = p[i]
      /\ \A i \in 1..4 : t[Len(p) + i] = LfMarker[i]
      /\ \A i \in 1..Len(c) : t[Len(p) + 4 + i] = c[i]
  BY <1>1 DEF Joins
<1> SUFFICES ASSUME NEW i \in 1..Len(t)
             PROVE  /\ t[i] = "lead" => i < Len(t) /\ t[i+1] = "cont"
                    /\ t[i] = "cont" => i > 1 /\ t[i-1] = "lead"
  BY Zenon DEF Utf8Ok
<1>3. CASE i \in 1..Len(p)
  <2>1. t[i] = p[i]
    BY <1>2, <1>3
  <2>2. p[i] = "lead" => i < Len(p) /\ p[i+1] = "cont"
    BY <1>3 DEF Utf8Ok
  <2>3. p[i] = "cont" => i > 1 /\ p[i-1] = "lead"
    BY <1>3 DEF Utf8Ok
  <2>4. i < Len(p) => t[i+1] = p[i+1]
    BY <1>1, <1>2, <1>3
  <2>5. i > 1 => t[i-1] = p[i-1]
    BY <1>1, <1>2, <1>3
  <2> QED
    BY <1>1, <1>3, <2>1, <2>2, <2>3, <2>4, <2>5
<1>4. CASE i \in (Len(p) + 1)..(Len(p) + 4)
  <2>1. PICK k \in 1..4 : i = Len(p) + k
    <3>1. i - Len(p) \in 1..4 /\ i = Len(p) + (i - Len(p))
      BY <1>1, <1>4
    <3> QED
      BY <3>1
  <2> QED
    BY <1>1, <1>2, <2>1
<1>5. CASE i \in (Len(p) + 5)..Len(t)
  <2>1. PICK k \in 1..Len(c) : i = Len(p) + 4 + k
    <3>1. i - (Len(p) + 4) \in 1..Len(c) /\ i = Len(p) + 4 + (i - (Len(p) + 4))
      BY <1>1, <1>5
    <3> QED
      BY <3>1
  <2>2. t[i] = c[k]
    BY <1>2, <2>1
  <2>3. c[k] = "lead" => k < Len(c) /\ c[k+1] = "cont"
    BY DEF Utf8Ok
  <2>4. c[k] = "cont" => k > 1 /\ c[k-1] = "lead"
    BY DEF Utf8Ok
  <2>5. k < Len(c) => t[i+1] = c[k+1]
    <3>1. i + 1 = Len(p) + 4 + (k + 1)
      BY <1>1, <2>1
    <3> QED
      BY <1>1, <1>2, <3>1, SMTT(40)
  <2>6. k > 1 => t[i-1] = c[k-1]
    <3>1. i - 1 = Len(p) + 4 + (k - 1)
      BY <1>1, <2>1
    <3> QED
      BY <1>1, <1>2, <3>1, SMTT(40)
  <2> QED
    BY <1>1, <2>1, <2>2, <2>3, <2>4, <2>5, <2>6
<1> QED
  BY <1>1, <1>3, <1>4, <1>5

\* A text whose last mark begins at position i, with n octets, ends with that
\* marker if the octets from i on are one.
LEMMA MarkerAtEnd ==
    ASSUME NEW t \in Octet, NEW i \in Marks(t), SubSeq(t, i, Len(t)) \in MarkerTexts
    PROVE  i + MarkerLen(t, i) = Len(t) + 1
<1>1. t \in Seq(Characters) /\ Len(t) \in Nat /\ i \in 1..Len(t) /\ i \in Nat \ {0}
  BY LenProperties DEF Octet, Marks
<1>2. IsLineStart(t, i)
  BY <1>1, Alphabet, MarksAre
<1>3. /\ LfAt(t, i) <=> i + 3 <= Len(t) /\ SubSeq(t, i, i + 3) = LfMarker
      /\ CrLfAt(t, i) <=> i + 4 <= Len(t) /\ SubSeq(t, i, i + 4) = CrLfMarker
  BY <1>1, Alphabet, Windows
<1>4. Len(SubSeq(t, i, Len(t))) = Len(t) - i + 1
  BY <1>1
<1>5. CASE SubSeq(t, i, Len(t)) = LfMarker
  <2>1. Len(t) - i + 1 = 4
    BY <1>4, <1>5, Alphabet, MarkerLiterals
  <2>2. i + 3 = Len(t)
    BY <1>1, <2>1
  <2>3. LfAt(t, i)
    BY <1>3, <1>5, <2>2
  <2>4. MarkerLen(t, i) = 4
    BY <1>1, <1>2, <2>3, MarkerLenIs
  <2> QED
    BY <1>1, <2>2, <2>4
<1>6. CASE SubSeq(t, i, Len(t)) = CrLfMarker
  <2>1. Len(t) - i + 1 = 5
    BY <1>4, <1>6, Alphabet, MarkerLiterals
  <2>2. i + 4 = Len(t)
    BY <1>1, <2>1
  <2>3. CrLfAt(t, i)
    BY <1>3, <1>6, <2>2
  <2>4. MarkerLen(t, i) = 5
    BY <1>1, <1>2, <2>3, MarkerLenIs
  <2> QED
    BY <1>1, <2>2, <2>4
<1> QED
  BY <1>5, <1>6 DEF MarkerTexts

\* A YAML artifact that compose let pass splits back into its parts; if it is
\* malformed, its carrier is empty or no text.
LEMMA TextSplitsBack ==
    ASSUME NEW p \in Octet, NEW c \in Octet, PayloadValid(p), ~ContainsConstrainedMarker(c),
           NEW r, ResultOK(r), TextReadRightly(ComposeText(p, c), r)
    PROVE  r = SplitInto(p, c) \/ ((c = <<>> \/ ~Utf8Ok(c)) /\ r = Malformed)
<1> DEFINE t == ComposeText(p, c)
<1>1. /\ t \in Octet /\ t \in Seq(Characters) /\ Joins(t, p, LfMarker, c)
      /\ LfMarker \in MarkerTexts /\ LfMarker \in Seq(Characters) /\ Len(LfMarker) = 4
  <2>1. LfMarker \in Seq(Characters) /\ Len(LfMarker) = 4
    BY Alphabet, MarkerLiterals
  <2> QED
    BY <2>1, JoinedOctets DEF ComposeText, Octet, MarkerTexts
<1>2. LineEnds(p) /\ Utf8Ok(p) /\ ~BomAtZero(p)
  BY DEF PayloadValid
<1>3. Marks(c) = {}
  BY Alphabet, Recognisers DEF Octet
<1> HIDE DEF t
<1>4. Len(p) + 1 \in Marks(t) /\ MarkerLen(t, Len(p) + 1) = 4
  <2>1. p \in Seq(Characters) /\ c \in Seq(Characters)
    BY DEF Octet
  <2>2. ASSUME NEW m \in MarkerTexts, Joins(t, p, m, c)
        PROVE  Len(p) + 1 \in Marks(t) /\ MarkerLen(t, Len(p) + 1) = Len(m)
    <3>1. t \in Seq(Characters) /\ LineEnds(p) /\ MarkerAlphabet(Characters)
      BY <1>1, <1>2, Alphabet
    <3> QED
      BY <2>1, <2>2, <3>1, MarksOfJoined
  <2> QED
    BY <1>1, <2>2
<1>5. CASE r.kind = "split"
  <2>1. TextSplitsInto(t, r.payload, r.carrier)
    BY <1>5 DEF TextReadRightly, t
  <2>2. PICK q \in Octet, d \in Octet : r = SplitInto(q, d)
    BY <1>5 DEF ResultOK, Unsigned, Malformed, Done
  <2>3. r.payload = q /\ r.carrier = d
    BY <2>2 DEF SplitInto
  <2>4. PICK m \in MarkerTexts : t = q \o m \o d
    BY <2>1, <2>3 DEF TextSplitsInto
  <2>5. Joins(t, q, m, d)
    <3>1. m \in Seq(Characters)
      BY Alphabet, MarkerLiterals DEF MarkerTexts
    <3> QED
      BY <2>4, <3>1, JoinedOctets DEF Octet
  <2>6. LineEnds(q) /\ Marks(d) = {}
    BY <2>1, <2>3 DEF TextSplitsInto
  <2>7. p = q /\ c = d
    BY <1>1, <1>2, <1>3, <2>5, <2>6, Alphabet, OneSplit DEF Octet
  <2> QED
    BY <2>2, <2>7
<1>6. CASE r.kind = "unsigned"
  BY <1>4, <1>6 DEF TextReadRightly, t
<1>7. CASE r.kind = "malformed"
  <2>1. r = Malformed
    BY <1>7 DEF ResultOK, Unsigned, Malformed, Done, SplitInto
  <2>2. ASSUME Utf8Ok(c), c # <<>>
        PROVE  FALSE
    <3>1. Utf8Ok(t)
      BY <1>1, <1>2, <2>2, JoinedUtf8
    <3>2. ~BomAtZero(t)
      <4>1. CASE Len(p) = 0
        BY <1>1, <4>1, Alphabet, MarkerLiterals DEF Joins, BomAtZero
      <4>2. CASE Len(p) # 0
        BY <1>1, <1>2, <4>2, SMTT(40) DEF Joins, BomAtZero, Octet
      <4> QED
        BY <4>1, <4>2
    <3>3. PICK i \in Marks(t) : SubSeq(t, i, Len(t)) \in MarkerTexts
      BY <1>7, <3>1, <3>2 DEF TextReadRightly, IsText, t
    <3>4. i \in Nat \ {0} /\ i <= Len(p) + 1 /\ i <= Len(t)
      <4>1. p \in Seq(Characters) /\ c \in Seq(Characters)
        BY DEF Octet
      <4>2. i <= Len(p) + 1
        BY <1>1, <1>2, <1>3, <4>1, Alphabet, JointIsLast, Zenon
      <4> QED
        BY <4>2 DEF Marks
    <3>5. Len(t) = Len(p) + 4 + Len(c) /\ Len(p) \in Nat /\ Len(c) \in Nat \ {0}
      BY <1>1, <2>2, LenProperties, EmptySeq DEF Joins, Octet
    <3>6. MarkerLen(t, i) # 0 /\ i + MarkerLen(t, i) = Len(t) + 1
      <4>1. MarkerLen(t, i) # 0
        BY <1>1, <3>4, Alphabet, MarksAre
      <4> QED
        BY <1>1, <3>3, <4>1, MarkerAtEnd
    <3>7. CASE i = Len(p) + 1
      BY <1>4, <3>5, <3>6, <3>7
    <3>8. CASE i # Len(p) + 1
      <4>1. Len(p) + 1 \in (i + 1)..(i + MarkerLen(t, i) - 1)
        <5>1. i + (MarkerLen(t, i) - 1) = Len(t)
          <6>1. MarkerLen(t, i) \in {4, 5}
            BY <1>1, <3>4, <3>6, MarkerWithin
          <6> QED
            BY <3>4, <3>5, <3>6, <6>1
        <5> QED
          BY <3>4, <3>5, <3>8, <5>1
      <4>2. MarkerLen(t, Len(p) + 1) = 0
        BY <1>1, <3>4, <3>6, <4>1, NoOverlap
      <4> QED
        BY <1>4, <4>2
    <3> QED
      BY <3>7, <3>8
  <2> QED
    BY <2>1, <2>2
<1> QED
  BY <1>5, <1>6, <1>7 DEF TextReadRightly, t

\* What origin remembers of a composition, and that a refused one leaves the
\* caller with nothing.
ComposedInv ==
    origin.how = "composed" =>
        /\ origin.payload \in Octet /\ origin.carrier \in Octet
        /\ \/ /\ origin.doc = Yaml(ComposeText(origin.payload, origin.carrier))
              /\ PayloadValid(origin.payload) /\ ~ContainsConstrainedMarker(origin.carrier)
           \/ origin.doc = Proto(ComposeOuter(origin.payload, origin.carrier))

RefusedInv ==
    origin.how = "refused" =>
        /\ held = Nothing /\ ~running
        /\ origin.payload \in Octet /\ origin.carrier \in Octet
        /\ result.why = "carrier" =>
             /\ origin.doc = Yaml(ComposeText(origin.payload, origin.carrier))
             /\ PayloadValid(origin.payload) /\ ContainsConstrainedMarker(origin.carrier)

JoinInv == Shape /\ ComposedInv /\ RefusedInv

LEMMA NextJoins == JoinInv /\ [Next]_vars => JoinInv'
<1> SUFFICES ASSUME JoinInv, [Next]_vars
             PROVE  JoinInv'
  OBVIOUS
<1>0. Shape /\ ComposedInv /\ RefusedInv /\ Shape'
  BY NextShape DEF JoinInv
<1> SUFFICES ComposedInv' /\ RefusedInv'
  BY <1>0 DEF JoinInv
<1>1. ASSUME NEW doc, Receive(doc)
      PROVE  ComposedInv' /\ RefusedInv'
  <2>1. origin'.how = "received"
    BY <1>1 DEF Receive, NoOrigin
  <2> QED
    BY <2>1 DEF ComposedInv, RefusedInv
<1>2. ASSUME NEW form \in Forms, NEW parts \in Components, NEW policy \in Policies,
             Compose(form, parts[1], parts[2], policy)
      PROVE  ComposedInv' /\ RefusedInv'
  <2> DEFINE p == parts[1]
             c == parts[2]
  <2>1. p \in Octet /\ c \in Octet
    BY EnvelopeAssumption DEF Octet
  <2> HIDE DEF p, c
  <2>2. Compose(form, p, c, policy)
    BY <1>2 DEF p, c
  <2>3. /\ ~running /\ running' = running
        /\ result' = ComposeReply(form, p, c, policy)
        /\ held' = IF result' = Done THEN Composed(form, p, c) ELSE Nothing
        /\ origin'.how = (IF result' = Done THEN "composed" ELSE "refused")
        /\ origin'.doc = Composed(form, p, c) /\ origin'.payload = p /\ origin'.carrier = c
    BY <1>0, <2>2 DEF Compose, Shape, OriginOK
  <2>4. /\ form = "yaml" => Composed(form, p, c) = Yaml(ComposeText(p, c))
        /\ form = "protobuf" => Composed(form, p, c) = Proto(ComposeOuter(p, c))
    BY <2>1, ComposedDocs
  <2>5. result' = Done /\ form = "yaml" => PayloadValid(p) /\ ~ContainsConstrainedMarker(c)
    BY <2>3 DEF ComposeReply, Refused, Done
  <2>6. result'.why = "carrier" => form = "yaml" /\ PayloadValid(p) /\ ContainsConstrainedMarker(c)
    BY <2>3 DEF ComposeReply, Refused, Done
  <2>7. ComposedInv'
    BY <2>1, <2>3, <2>4, <2>5, Zenon DEF ComposedInv, Forms
  <2>8. RefusedInv'
    BY <2>1, <2>3, <2>4, <2>6, Zenon DEF RefusedInv
  <2> QED
    BY <2>7, <2>8
<1>3. ASSUME NEW op, NEW mode, NEW policy, Ask(op, mode, policy)
      PROVE  ComposedInv' /\ RefusedInv'
  <2>1. held # Nothing /\ origin' = origin
    BY <1>3 DEF Ask
  <2> QED
    BY <1>0, <2>1, Zenon DEF ComposedInv, RefusedInv
<1>4. ASSUME running, NEW split, Conclude(split)
      PROVE  ComposedInv' /\ RefusedInv'
  <2>1. origin' = origin
    BY <1>4 DEF Conclude
  <2> QED
    BY <1>0, <1>4, <2>1, Zenon DEF ComposedInv, RefusedInv
<1>5. ASSUME running, UNCHANGED origin
      PROVE  ComposedInv' /\ RefusedInv'
  BY <1>0, <1>5, Zenon DEF ComposedInv, RefusedInv
<1>6. CASE Scan \/ ReadField
  BY <1>5, <1>6 DEF Scan, ReadField
<1>7. CASE EndScan \/ RefuseField \/ EndFields
  BY <1>4, <1>7 DEF EndScan, RefuseField, EndFields
<1>8. CASE UNCHANGED vars
  BY <1>0, <1>8, Zenon DEF vars, ComposedInv, RefusedInv
<1> QED
  BY <1>1, <1>2, <1>3, <1>6, <1>7, <1>8, Zenon DEF Next

LEMMA AlwaysJoins == Spec => []JoinInv
<1>1. Init => JoinInv
  BY InitShape DEF Init, JoinInv, ComposedInv, RefusedInv, NoOrigin
<1> QED
  BY <1>1, NextJoins, PTL DEF Spec

\* The two fields of a composed message read back under every mode.
LEMMA WireSplitsBack ==
    ASSUME NEW p, NEW c, NEW mode, NEW r, WireReadRightly(ComposeOuter(p, c), mode, r)
    PROVE  r = SplitInto(p, c)
<1> DEFINE w == ComposeOuter(p, c)
<1>1. /\ Len(w) = 2 /\ w[1] = Field("payload", p) /\ w[2] = Field("signature", c)
  BY DEF ComposeOuter
<1> HIDE DEF w
<1>2. /\ w[1].tag = "payload" /\ w[1].type = "len" /\ w[1].value = p
      /\ w[2].tag = "signature" /\ w[2].type = "len" /\ w[2].value = c
  BY <1>1 DEF Field
<1>3. 1..Len(w) = {1, 2}
  BY <1>1
<1>4. FieldsOf(w, "payload") = {1} /\ FieldsOf(w, "signature") = {2}
  BY <1>2, <1>3 DEF FieldsOf
<1>5. WireAccepted(w, mode)
  BY <1>2, <1>3, <1>4 DEF WireAccepted, OnlyOne
<1>6. LastValue(w, "payload") = p /\ LastValue(w, "signature") = c
  BY <1>2, <1>4 DEF LastValue
<1> QED
  BY <1>5, <1>6 DEF WireReadRightly, w

\* What compose joined, decompose takes apart again in every mode, for all
\* payloads and carriers (compose, decompose).
THEOREM ComposedSplits == Spec => []ComposedSplitsBack
<1>1. ReadInv /\ JoinInv => ComposedSplitsBack
  <2> SUFFICES ASSUME ReadInv, JoinInv, ~running, call.op = "decompose", result.kind # "refused",
                      origin.how = "composed", held = origin.doc
               PROVE  \/ result = SplitInto(origin.payload, origin.carrier)
                      \/ /\ held.form = "yaml" /\ (origin.carrier = <<>> \/ ~Utf8Ok(origin.carrier))
                         /\ result = Malformed
    BY Zenon DEF ComposedSplitsBack
  <2> DEFINE p == origin.payload
             c == origin.carrier
  <2>1. p \in Octet /\ c \in Octet /\ ResultOK(result)
    BY DEF JoinInv, ComposedInv, Shape
  <2>2. CASE /\ held = Yaml(ComposeText(p, c))
             /\ PayloadValid(p) /\ ~ContainsConstrainedMarker(c)
    <3>1. held.form = "yaml" /\ held.text = ComposeText(p, c)
      BY <2>2 DEF Yaml
    <3>2. TextReadRightly(ComposeText(p, c), result)
      BY <3>1, Zenon DEF ReadInv, DecomposedRightly
    <3> QED
      BY <2>1, <2>2, <3>1, <3>2, TextSplitsBack, Zenon
  <2>3. CASE held = Proto(ComposeOuter(p, c))
    <3>1. held.form # "yaml" /\ held.wire = ComposeOuter(p, c)
      BY <2>3 DEF Proto
    <3>2. WireReadRightly(ComposeOuter(p, c), call.mode, result)
      BY <3>1, Zenon DEF ReadInv, DecomposedRightly
    <3> QED
      BY <3>2, WireSplitsBack, Zenon
  <2> QED
    BY <2>2, <2>3, Zenon DEF JoinInv, ComposedInv
<1> QED
  BY <1>1, AlwaysReads, AlwaysJoins, PTL

\* compose refuses a carrier only if joining it would move the last marker, so
\* its recogniser is no stricter than that of decompose (ambiguous carrier).
THEOREM RefusalIsNeeded == Spec => []RefusedJoinIsAmbiguous
<1>1. JoinInv => RefusedJoinIsAmbiguous
  <2> SUFFICES ASSUME JoinInv, origin.how = "refused", result.why = "carrier"
               PROVE  LastMark(origin.doc.text) # Len(origin.payload) + 1
    BY Zenon DEF RefusedJoinIsAmbiguous
  <2> DEFINE p == origin.payload
             c == origin.carrier
             t == ComposeText(p, c)
  <2>1. /\ p \in Octet /\ c \in Octet /\ origin.doc.text = t
        /\ PayloadValid(p) /\ ContainsConstrainedMarker(c)
    BY DEF JoinInv, RefusedInv, Yaml
  <2> HIDE DEF p, c
  <2>2. LfMarker \in MarkerTexts /\ LfMarker \in Seq(Characters)
    BY Alphabet, MarkerLiterals DEF MarkerTexts
  <2>3. t \in Octet /\ Joins(t, p, LfMarker, c)
    BY <2>1, <2>2, JoinedOctets DEF ComposeText, Octet
  <2> HIDE DEF t
  <2>4. PICK j \in Marks(c) : TRUE
    BY <2>1, Alphabet, Recognisers DEF Octet
  <2>5. ASSUME NEW m \in MarkerTexts, Joins(t, p, m, c)
        PROVE  Len(m) \in {4, 5} /\ Len(p) + Len(m) + j \in Marks(t)
    <3>1. /\ t \in Seq(Characters) /\ p \in Seq(Characters) /\ c \in Seq(Characters)
          /\ LineEnds(p) /\ MarkerAlphabet(Characters) /\ j \in Nat \ {0} /\ j \in Marks(c)
      BY <2>1, <2>3, <2>4, Alphabet DEF Octet, PayloadValid, Marks
    <3>2. \A k \in Nat \ {0} : k \in Marks(c) <=> Len(p) + Len(m) + k \in Marks(t)
      BY <2>5, <3>1, MarksOfJoined
    <3>3. Len(m) \in {4, 5}
      BY <2>5, <3>1, MarksOfJoined
    <3> QED
      BY <3>1, <3>2, <3>3
  <2>6. Len(LfMarker) \in {4, 5} /\ Len(p) + Len(LfMarker) + j \in Marks(t)
    BY <2>2, <2>3, <2>5
  <2>7. Len(p) + Len(LfMarker) + j <= LastMark(t)
    BY <2>3, <2>6, LastMarkIs
  <2>8. Len(p) \in Nat /\ j \in Nat
    BY <2>1, <2>4, LenProperties DEF Octet, Marks
  <2>9. LastMark(t) \in Nat
    <3>1. LastMark(t) \in Marks(t) /\ Marks(t) \subseteq Nat
      <4>1. Marks(t) \subseteq Nat
        BY DEF Marks
      <4> QED
        BY <2>3, <2>6, <4>1, LastMarkIs
    <3> QED
      BY <3>1
  <2>10. LastMark(t) # Len(p) + 1
    <3> DEFINE n == Len(LfMarker)
    <3>1. n \in {4, 5} /\ Len(p) + n + j <= LastMark(t)
      BY <2>6, <2>7, Zenon
    <3> HIDE DEF n
    <3>2. n \in Nat /\ n >= 4
      BY <3>1
    <3> QED
      BY <2>8, <2>9, <3>1, <3>2
  <2> QED
    BY <2>1, <2>10 DEF p
<1> QED
  BY <1>1, AlwaysJoins, PTL

\* Whatever compose joins comes apart where it was joined, and what it refuses
\* would not, for all payloads and carriers.
THEOREM JoinsExactly == Spec => []JoinExact
<1>1. ComposedSplitsBack /\ RefusedJoinIsAmbiguous <=> JoinExact
  BY DEF JoinExact
<1> QED
  BY <1>1, ComposedSplits, RefusalIsNeeded, PTL

-----------------------------------------------------------------------------
(* Sums.  The octets of a text and of a message are counted by a function  *)
(* of recursion on its length; that it exists, and what it returns, is     *)
(* shown by least counterexamples.                                         *)

\* f adds up the first elements of w.
IsSum(f, w, n) ==
    /\ f \in [0..n -> Nat]
    /\ f[0] = 0
    /\ \A i \in 1..n : f[i] = f[i - 1] + w[i]

LEMMA SumExists ==
    ASSUME NEW n \in Nat, NEW w \in [1..n -> Nat]
    PROVE  \E f : IsSum(f, w, n)
<1> DEFINE T == {k \in Nat : k <= n /\ ~\E f : IsSum(f, w, k)}
<1>1. SUFFICES ASSUME T # {} PROVE FALSE
  <2>1. n \in Nat /\ n <= n
    OBVIOUS
  <2>2. n \notin T => \E f : IsSum(f, w, n)
    BY <2>1, Zenon
  <2> QED
    BY <2>2
<1>2. PICK k \in T : \A m \in T : k <= m
  BY <1>1, LeastElement
<1>3. CASE k = 0
  <2>1. IsSum([i \in 0..0 |-> 0], w, 0)
    BY DEF IsSum
  <2> QED
    BY <1>2, <1>3, <2>1
<1>4. CASE k # 0
  <2>1. k - 1 \in Nat /\ k - 1 <= n /\ k - 1 \notin T /\ k \in 1..n
    BY <1>2, <1>4
  <2>2. PICK f : IsSum(f, w, k - 1)
    BY <2>1
  <2> DEFINE g == [i \in 0..k |-> IF i = k THEN f[k - 1] + w[k] ELSE f[i]]
  <2>3. w[k] \in Nat /\ \A i \in 0..(k - 1) : f[i] \in Nat
    BY <2>1, <2>2 DEF IsSum
  <2>4. g \in [0..k -> Nat]
    BY <2>1, <2>3
  <2>5. g[0] = 0
    BY <2>1, <2>2 DEF IsSum
  <2>6. ASSUME NEW i \in 1..k PROVE g[i] = g[i - 1] + w[i]
    <3>1. CASE i = k
      BY <2>1, <3>1
    <3>2. CASE i # k
      BY <2>1, <2>2, <3>2 DEF IsSum
    <3> QED
      BY <3>1, <3>2
  <2>7. IsSum(g, w, k)
    BY <2>4, <2>5, <2>6 DEF IsSum
  <2> QED
    BY <1>2, <2>7
<1> QED
  BY <1>3, <1>4

\* From k on, w continues with v.
Continues(w, k, v, m) == \A i \in 1..m : w[k + i] = v[i]

\* A sum over w whose elements from k on are those of v is that over v, on top
\* of the sum of the first k.
LEMMA SumsAgree ==
    ASSUME NEW n \in Nat, NEW k \in Nat, NEW m \in Nat, k + m <= n,
           NEW w, NEW f, IsSum(f, w, n), NEW v \in [1..m -> Nat], NEW g, IsSum(g, v, m),
           Continues(w, k, v, m)
    PROVE  f[k + m] = f[k] + g[m]
<1> DEFINE T == {i \in Nat : i <= m /\ f[k + i] # f[k] + g[i]}
<1>1. SUFFICES ASSUME T # {} PROVE FALSE
  OBVIOUS
<1>2. PICK i \in T : \A j \in T : i <= j
  BY <1>1, LeastElement
<1>3. f[k] \in Nat /\ g[0] = 0
  BY DEF IsSum
<1>4. CASE i = 0
  BY <1>2, <1>3, <1>4
<1>5. CASE i # 0
  <2>1. i \in 1..m /\ k + i \in 1..n /\ i - 1 \in 0..m /\ (k + i) - 1 = k + (i - 1)
    BY <1>2, <1>5
  <2>2. f[k + (i - 1)] = f[k] + g[i - 1]
    BY <1>2, <2>1
  <2>3. f[k + i] = f[(k + i) - 1] + w[k + i]
    BY <2>1 DEF IsSum
  <2>4. g[i] = g[i - 1] + v[i] /\ g[i] \in Nat /\ g[i - 1] \in Nat
    BY <2>1 DEF IsSum
  <2>5. w[k + i] = v[i]
    BY <2>1 DEF Continues
  <2>6. f[k + i] = f[k] + g[i - 1] + v[i]
    BY <2>1, <2>2, <2>3, <2>5
  <2>7. v[i] \in Int
    BY <2>1
  <2> QED
    BY <1>2, <1>3, <2>4, <2>6, <2>7
<1> QED
  BY <1>4, <1>5

\* What satisfies the recursion is the sum.
LEMMA OneSum ==
    ASSUME NEW n \in Nat, NEW w \in [1..n -> Nat],
           NEW h, h = [i \in 0..n |-> IF i = 0 THEN 0 ELSE h[i - 1] + w[i]]
    PROVE  IsSum(h, w, n)
<1>1. h = [i \in 0..n |-> h[i]] /\ h[0] = 0 /\ \A i \in 1..n : h[i] = h[i - 1] + w[i]
  OBVIOUS
<1>2. ASSUME NEW i \in 0..n, h[i] \notin Nat PROVE FALSE
  <2> DEFINE T == {j \in Nat : j <= n /\ h[j] \notin Nat}
  <2>1. T # {} /\ T \subseteq Nat
    <3>1. i \in Nat /\ i <= n
      OBVIOUS
    <3> QED
      BY <1>2, <3>1, Zenon
  <2>2. PICK j \in T : \A m \in T : j <= m
    BY <2>1, LeastElement
  <2>3. j = 0 \/ (j \in 1..n /\ h[j - 1] \in Nat)
    BY <2>2
  <2>4. h[j] \in Nat
    BY <1>1, <2>3
  <2> QED
    BY <2>2, <2>4
<1> QED
  BY <1>1, <1>2 DEF IsSum

\* A sum satisfies the recursion, so that the function it names does.
LEMMA SumIsNamed ==
    ASSUME NEW n \in Nat, NEW w \in [1..n -> Nat],
           NEW h, h = CHOOSE f : f = [i \in 0..n |-> IF i = 0 THEN 0 ELSE f[i - 1] + w[i]]
    PROVE  IsSum(h, w, n)
<1> DEFINE R(f) == f = [i \in 0..n |-> IF i = 0 THEN 0 ELSE f[i - 1] + w[i]]
<1>1. PICK f : IsSum(f, w, n)
  BY SumExists
<1>2. R(f)
  <2> DEFINE g == [i \in 0..n |-> IF i = 0 THEN 0 ELSE f[i - 1] + w[i]]
  <2>1. f \in [0..n -> Nat] /\ f[0] = 0 /\ \A i \in 1..n : f[i] = f[i - 1] + w[i]
    BY <1>1 DEF IsSum
  <2>2. \A i \in 0..n : f[i] = g[i]
    BY <2>1
  <2> QED
    BY <2>1, <2>2
<1>3. R(h)
  BY <1>2, Zenon
<1> QED
  BY <1>3, OneSum

\* The octets of a text are the sum of the weights of its characters, those of
\* a message the sum of those of its fields.
CharacterOctets(t) == [i \in 1..Len(t) |-> Weight[t[i]]]
EachFieldOctets(w) == [i \in 1..Len(w) |-> FieldOctets(w[i])]

LEMMA OctetsSum ==
    ASSUME NEW t \in Octet
    PROVE  \E f : IsSum(f, CharacterOctets(t), Len(t)) /\ Octets(t) = f[Len(t)]
<1> DEFINE n == Len(t)
           w == CharacterOctets(t)
           h == CHOOSE f : f = [i \in 0..n |-> IF i = 0 THEN 0 ELSE f[i - 1] + w[i]]
<1>1. n \in Nat /\ w \in [1..n -> Nat]
  BY EnvelopeAssumption, LenProperties, ElementOfSeq DEF Octet, CharacterOctets
<1>2. Octets(t) = h[n]
  <2>1. ASSUME NEW f
        PROVE  [i \in 0..n |-> IF i = 0 THEN 0 ELSE f[i - 1] + Weight[t[i]]]
                 = [i \in 0..n |-> IF i = 0 THEN 0 ELSE f[i - 1] + w[i]]
    BY <1>1 DEF CharacterOctets
  <2> QED
    BY <2>1, Zenon DEF Octets
<1>3. IsSum(h, w, n)
  BY <1>1, SumIsNamed
<1> QED
  BY <1>2, <1>3

LEMMA OctetsAreNat ==
    ASSUME NEW t \in Octet
    PROVE  Octets(t) \in Nat
<1>1. Len(t) \in Nat
  BY LenProperties DEF Octet
<1> QED
  BY <1>1, OctetsSum DEF IsSum

\* Summing up a text, the part from k on adds its own octets.
LEMMA OctetsOfPart ==
    ASSUME NEW t \in Octet, NEW u \in Octet, NEW k \in Nat, k + Len(u) <= Len(t),
           Continues(t, k, u, Len(u)), NEW f, IsSum(f, CharacterOctets(t), Len(t))
    PROVE  f[k + Len(u)] = f[k] + Octets(u)
<1> DEFINE w == CharacterOctets(t)
           v == CharacterOctets(u)
           n == Len(t)
           m == Len(u)
<1>1. PICK g : IsSum(g, v, m) /\ Octets(u) = g[m]
  BY OctetsSum
<1>2. n \in Nat /\ m \in Nat
  BY LenProperties DEF Octet
<1>3. v \in [1..m -> Nat]
  BY EnvelopeAssumption, ElementOfSeq DEF Octet, CharacterOctets
<1>4. Continues(w, k, v, m)
  BY <1>2 DEF CharacterOctets, Continues
<1>5. k + m <= n /\ IsSum(f, w, n)
  OBVIOUS
<1> HIDE DEF w, v, n, m
<1>6. f[k + m] = f[k] + g[m]
  <2>1. IsSum(f, w, n) /\ IsSum(g, v, m) /\ k + m <= n
    BY <1>1, <1>5
  <2> QED
    BY <1>2, <1>3, <1>4, <2>1, SumsAgree, SMTT(30)
<1> QED
  BY <1>1, <1>6 DEF m

LEMMA MarkerOctets == LfMarker \in Octet /\ Len(LfMarker) = 4 /\ Octets(LfMarker) = 4
<1>1. /\ LfMarker \in Octet /\ Len(LfMarker) = 4
      /\ \A i \in 1..4 : LfMarker[i] \in {"-", "lf"}
  <2>1. /\ LfMarker \in Octet /\ Len(LfMarker) = 4
        /\ LfMarker[1] = "-" /\ LfMarker[2] = "-" /\ LfMarker[3] = "-" /\ LfMarker[4] = "lf"
    BY Alphabet, MarkerLiterals DEF Octet
  <2> QED
    BY <2>1
<1>2. PICK f : IsSum(f, CharacterOctets(LfMarker), 4) /\ Octets(LfMarker) = f[4]
  BY <1>1, OctetsSum
<1>3. \A i \in 1..4 : CharacterOctets(LfMarker)[i] = 1
  BY <1>1, EnvelopeAssumption DEF CharacterOctets
<1>4. f[0] = 0 /\ f[1] = f[0] + 1 /\ f[2] = f[1] + 1 /\ f[3] = f[2] + 1 /\ f[4] = f[3] + 1
  BY <1>2, <1>3 DEF IsSum
<1> QED
  BY <1>1, <1>2, <1>4

\* A joined text has the octets of its parts and the four of the marker.
LEMMA OctetsJoined ==
    ASSUME NEW p \in Octet, NEW c \in Octet
    PROVE  Octets(ComposeText(p, c)) = Octets(p) + 4 + Octets(c)
<1> DEFINE t == ComposeText(p, c)
<1>1. t \in Octet /\ Joins(t, p, LfMarker, c)
  BY MarkerOctets, JoinedOctets DEF ComposeText, Octet
<1> HIDE DEF t
<1>2. /\ Len(p) \in Nat /\ Len(c) \in Nat /\ Len(t) = Len(p) + 4 + Len(c)
      /\ \A i \in 1..Len(p) : t[i] = p[i]
      /\ \A i \in 1..4 : t[Len(p) + i] = LfMarker[i]
      /\ \A i \in 1..Len(c) : t[Len(p) + 4 + i] = c[i]
  BY <1>1, MarkerOctets, LenProperties DEF Joins, Octet
<1>3. PICK f : IsSum(f, CharacterOctets(t), Len(t)) /\ Octets(t) = f[Len(t)]
  BY <1>1, OctetsSum
<1>4. f[0] = 0 /\ 0 \in Nat /\ Len(p) + 4 \in Nat
  BY <1>2, <1>3 DEF IsSum
<1>5. f[0 + Len(p)] = f[0] + Octets(p)
  <2>1. Continues(t, 0, p, Len(p)) /\ 0 + Len(p) <= Len(t)
    BY <1>2 DEF Continues
  <2> QED
    BY <1>1, <1>3, <1>4, <2>1, OctetsOfPart, Zenon
<1>6. f[Len(p) + Len(LfMarker)] = f[Len(p)] + Octets(LfMarker)
  <2>1. Continues(t, Len(p), LfMarker, Len(LfMarker)) /\ Len(p) + Len(LfMarker) <= Len(t)
    BY <1>2, MarkerOctets DEF Continues
  <2>2. LfMarker \in Octet
    BY MarkerOctets
  <2> QED
    BY <1>1, <1>2, <1>3, <2>1, <2>2, OctetsOfPart, Zenon
<1>7. f[(Len(p) + 4) + Len(c)] = f[Len(p) + 4] + Octets(c)
  <2>1. Continues(t, Len(p) + 4, c, Len(c)) /\ (Len(p) + 4) + Len(c) <= Len(t)
    BY <1>2 DEF Continues
  <2> QED
    BY <1>1, <1>3, <1>4, <2>1, OctetsOfPart, Zenon
<1>8. Octets(p) \in Nat /\ Octets(c) \in Nat
  BY OctetsAreNat
<1> QED
  BY <1>2, <1>3, <1>4, <1>5, <1>6, <1>7, <1>8, MarkerOctets DEF t

-----------------------------------------------------------------------------
(* Varints.  The projection and the emission count them by functions of    *)
(* the same recursion; that there is a function with this recursion is     *)
(* shown by least counterexamples.                                         *)

Groups(f, n) == IF n >= 128 THEN 1 + f[n \div 128] ELSE 1

\* The recursion up to n.
GroupsUpTo(n) == {f \in [0..n -> Nat] : \A v \in 0..n : f[v] = Groups(f, v)}

\* One octet less per step.
LEMMA Shorter == \A n \in Nat : n >= 128 => n \div 128 \in 0..(n - 1)
  OBVIOUS

\* Two functions of the recursion agree where both are defined.
LEMMA GroupsAgree ==
    ASSUME NEW n \in Nat, NEW k \in Nat, NEW f \in GroupsUpTo(n), NEW g \in GroupsUpTo(k),
           NEW v \in Nat, v <= n, v <= k
    PROVE  f[v] = g[v]
<1> DEFINE S == {w \in Nat : w <= n /\ w <= k /\ f[w] # g[w]}
<1>1. SUFFICES ASSUME S # {} PROVE FALSE
  OBVIOUS
<1>2. PICK w \in S : \A m \in S : w <= m
  BY <1>1, LeastElement
<1>3. w >= 128 => f[w \div 128] = g[w \div 128]
  BY <1>2, Shorter
<1>4. f[w] = Groups(f, w) /\ g[w] = Groups(g, w)
  BY DEF GroupsUpTo
<1>5. QED BY <1>2, <1>3, <1>4 DEF Groups

\* There is one for every bound.
LEMMA GroupsExist ==
    ASSUME NEW n \in Nat
    PROVE  GroupsUpTo(n) # {}
<1> DEFINE S == {w \in Nat : GroupsUpTo(w) = {}}
<1>1. SUFFICES ASSUME S # {} PROVE FALSE
  OBVIOUS
<1>2. PICK w \in S : \A m \in S : w <= m
  BY <1>1, LeastElement
<1>3. CASE w = 0
  <2>1. [v \in 0..0 |-> 1] \in GroupsUpTo(0)
    BY DEF GroupsUpTo, Groups
  <2>2. QED BY <1>2, <1>3, <2>1
<1>4. CASE w # 0
  <2>1. PICK f : f \in GroupsUpTo(w - 1)
    BY <1>2, <1>4
  <2> DEFINE g == [v \in 0..w |-> IF v = w THEN Groups(f, w) ELSE f[v]]
  <2>2. g \in [0..w -> Nat]
    BY <1>4, <2>1, Shorter DEF GroupsUpTo, Groups
  <2>3. \A v \in 0..w : g[v] = Groups(g, v)
    BY <1>4, <2>1, Shorter DEF GroupsUpTo, Groups
  <2>4. g \in GroupsUpTo(w)
    BY <2>2, <2>3 DEF GroupsUpTo
  <2>5. QED BY <1>2, <2>4
<1>5. QED BY <1>3, <1>4

\* The function the recursive definition names satisfies its recursion, and
\* every length takes a natural number of octets.
LEMMA Varints ==
    /\ VarintLen = PushVarint
    /\ PushVarint \in [Nat -> Nat]
    /\ \A n \in Nat : PushVarint[n] = Groups(PushVarint, n)
<1> DEFINE F == [n \in Nat |-> (CHOOSE f \in GroupsUpTo(n) : TRUE)[n]]
<1>1. \A n \in Nat : (CHOOSE f \in GroupsUpTo(n) : TRUE) \in GroupsUpTo(n)
  BY GroupsExist
<1>2. ASSUME NEW n \in Nat PROVE F[n] = Groups(F, n)
  <2>1. PICK f \in GroupsUpTo(n) : f = CHOOSE g \in GroupsUpTo(n) : TRUE
    BY <1>1
  <2>2. f[n] = Groups(f, n)
    <3>1. n \in 0..n
      OBVIOUS
    <3>2. QED BY <2>1, <3>1 DEF GroupsUpTo
  <2>3. n >= 128 => f[n \div 128] = F[n \div 128]
    BY <1>1, <2>1, GroupsAgree, Shorter
  <2>4. QED BY <2>1, <2>2, <2>3 DEF Groups
<1>3. F = [n \in Nat |-> Groups(F, n)]
  BY <1>2
<1> HIDE DEF F
<1>4. PushVarint = [n \in Nat |-> Groups(PushVarint, n)]
  <2>1. \E f : f = [n \in Nat |-> Groups(f, n)]
    BY <1>3
  <2>2. QED BY <2>1 DEF PushVarint, Groups
<1>5. \A n \in Nat : PushVarint[n] = Groups(PushVarint, n)
  BY <1>4
<1>6. ASSUME NEW n \in Nat PROVE PushVarint[n] \in Nat
  <2> DEFINE S == {w \in Nat : PushVarint[w] \notin Nat}
  <2>1. SUFFICES ASSUME S # {} PROVE FALSE
    OBVIOUS
  <2>2. PICK w \in S : \A m \in S : w <= m
    BY <2>1, LeastElement
  <2>3. w >= 128 => PushVarint[w \div 128] \in Nat
    BY <2>2, Shorter
  <2>4. QED BY <1>5, <2>2, <2>3 DEF Groups
<1>7. PushVarint \in [Nat -> Nat]
  BY <1>4, <1>6
<1>8. VarintLen = PushVarint
  BY DEF VarintLen, PushVarint
<1>9. QED BY <1>5, <1>7, <1>8

-----------------------------------------------------------------------------
(* Sizes: what is projected is what is emitted.                            *)

LEMMA FieldSizes ==
    ASSUME NEW tag, NEW v \in Octet
    PROVE  /\ FieldOctets(Field(tag, v)) = LenFieldSize(Octets(v))
           /\ LenFieldSize(Octets(v)) \in Nat
<1>1. PushTag(1, 2) = 1
  <2>1. 1 * 8 + 2 = 10 /\ 10 \in Nat /\ ~(10 >= 128)
    OBVIOUS
  <2> QED
    BY <2>1, Varints DEF PushTag, Groups
<1>2. Octets(v) \in Nat
  BY OctetsAreNat
<1>3. VarintLen[Octets(v)] \in Nat /\ PushVarint[Octets(v)] = VarintLen[Octets(v)]
  BY <1>2, Varints
<1>4. FieldOctets(Field(tag, v)) = PushLenField(1, Octets(v))
  BY DEF FieldOctets, Field
<1> QED
  BY <1>1, <1>2, <1>3, <1>4 DEF PushLenField, LenFieldSize

\* The two fields of a composed message.
LEMMA FieldsAreNat ==
    ASSUME NEW f \in WireFields
    PROVE  FieldOctets(f) \in Nat
<1>1. f.value \in Octet
  BY DEF WireFields, Octet
<1>2. CASE f.type = "len"
  <2>1. FieldOctets(f) = FieldOctets(Field("payload", f.value))
    BY <1>2 DEF FieldOctets, Field
  <2> QED
    BY <1>1, <2>1, FieldSizes
<1>3. CASE f.type # "len"
  BY <1>3 DEF FieldOctets
<1> QED
  BY <1>2, <1>3

LEMMA MessageSum ==
    ASSUME NEW m \in Seq(WireFields)
    PROVE  \E f : IsSum(f, EachFieldOctets(m), Len(m)) /\ WireOctets(m) = f[Len(m)]
<1> DEFINE n == Len(m)
           w == EachFieldOctets(m)
           h == CHOOSE f : f = [i \in 0..n |-> IF i = 0 THEN 0 ELSE f[i - 1] + w[i]]
<1>1. n \in Nat /\ w \in [1..n -> Nat]
  BY FieldsAreNat, LenProperties, ElementOfSeq DEF EachFieldOctets
<1>2. WireOctets(m) = h[n]
  <2>1. ASSUME NEW f
        PROVE  [i \in 0..n |-> IF i = 0 THEN 0 ELSE f[i - 1] + FieldOctets(m[i])]
                 = [i \in 0..n |-> IF i = 0 THEN 0 ELSE f[i - 1] + w[i]]
    BY <1>1 DEF EachFieldOctets
  <2> QED
    BY <2>1, Zenon DEF WireOctets
<1>3. IsSum(h, w, n)
  BY <1>1, SumIsNamed
<1> QED
  BY <1>2, <1>3

\* Every artifact has a number of octets.
LEMMA InputOctetsAreNat ==
    ASSUME NEW doc \in Artifacts
    PROVE  InputOctets(doc) \in Nat
<1>1. doc.text \in Octet /\ doc.wire \in Seq(WireFields)
  BY ArtifactsAre
<1>2. WireOctets(doc.wire) \in Nat
  <2>1. Len(doc.wire) \in Nat
    BY <1>1, LenProperties
  <2> QED
    BY <1>1, <2>1, MessageSum DEF IsSum
<1> QED
  BY <1>1, <1>2, OctetsAreNat, Zenon DEF InputOctets

\* The two fields of a composed message.
LEMMA OctetsOfMessage ==
    ASSUME NEW p \in Octet, NEW c \in Octet
    PROVE  WireOctets(ComposeOuter(p, c)) = LenFieldSize(Octets(p)) + LenFieldSize(Octets(c))
<1> DEFINE m == ComposeOuter(p, c)
<1>1. Len(m) = 2 /\ m[1] = Field("payload", p) /\ m[2] = Field("signature", c)
  BY DEF ComposeOuter
<1>2. m \in Seq(WireFields)
  BY ComposedDocs DEF Forms
<1> HIDE DEF m
<1>3. PICK f : IsSum(f, EachFieldOctets(m), 2) /\ WireOctets(m) = f[2]
  BY <1>1, <1>2, MessageSum
<1>4. f[0] = 0 /\ f[1] = f[0] + FieldOctets(m[1]) /\ f[2] = f[1] + FieldOctets(m[2])
  BY <1>1, <1>3 DEF IsSum, EachFieldOctets
<1>5. /\ FieldOctets(m[1]) = LenFieldSize(Octets(p)) /\ LenFieldSize(Octets(p)) \in Nat
      /\ FieldOctets(m[2]) = LenFieldSize(Octets(c)) /\ LenFieldSize(Octets(c)) \in Nat
  BY <1>1, FieldSizes
<1> QED
  BY <1>3, <1>4, <1>5 DEF m

\* The projection of compose_with_resource_limits is the size of what compose
\* emits, in both forms and for all payloads and carriers.
LEMMA ProjectionExact ==
    ASSUME NEW form \in Forms, NEW p \in Octet, NEW c \in Octet
    PROVE  /\ ProjectedOctets(form, p, c) = InputOctets(Composed(form, p, c))
           /\ ProjectedOctets(form, p, c) \in Nat
<1>1. CASE form = "yaml"
  <2>1. Octets(ComposeText(p, c)) = Octets(p) + 4 + Octets(c) /\ Octets(p) \in Nat /\ Octets(c) \in Nat
    BY OctetsJoined, OctetsAreNat
  <2> QED
    BY <1>1, <2>1 DEF ProjectedOctets, InputOctets, Composed, Yaml
<1>2. CASE form = "protobuf"
  <2>1. /\ WireOctets(ComposeOuter(p, c)) = LenFieldSize(Octets(p)) + LenFieldSize(Octets(c))
        /\ LenFieldSize(Octets(p)) \in Nat /\ LenFieldSize(Octets(c)) \in Nat
    BY OctetsOfMessage, FieldSizes
  <2> QED
    BY <1>2, <2>1 DEF ProjectedOctets, InputOctets, Composed, Proto
<1> QED
  BY <1>1, <1>2 DEF Forms

-----------------------------------------------------------------------------
(* What an artifact means: payload and signature as a reader finds them.   *)

\* A text that joins p and c by a marker means p, and the signature of c, if p
\* is terminated and c has no marker.
LEMMA TextMeaning ==
    ASSUME NEW t \in Octet, IsText(t), NEW p \in Octet, NEW c \in Octet, NEW m \in MarkerTexts,
           Joins(t, p, m, c), LineEnds(p), Marks(c) = {}
    PROVE  Meaning(Yaml(t)) = [payload |-> p, signature |-> ReadDocument(c)]
<1> DEFINE i == Len(p) + 1
           n == Len(m)
<1>1. t \in Seq(Characters) /\ p \in Seq(Characters) /\ c \in Seq(Characters) /\ m \in Seq(Characters)
  BY Alphabet, MarkerLiterals DEF Octet, MarkerTexts
<1>2. i \in Marks(t) /\ MarkerLen(t, i) = n /\ n \in {4, 5}
  <2>1. /\ Len(m) \in {4, 5}
        /\ Len(p) + 1 \in Marks(t) /\ MarkerLen(t, Len(p) + 1) = Len(m)
    BY <1>1, Alphabet, MarksOfJoined
  <2> QED
    BY <2>1
<1>3. LastMark(t) = i
  <2>1. \A j \in Marks(t) : j <= i
    BY <1>1, Alphabet, JointIsLast
  <2>2. LastMark(t) \in Marks(t) /\ i <= LastMark(t) /\ LastMark(t) <= i
    BY <1>2, <2>1, LastMarkIs
  <2>3. i \in Int /\ LastMark(t) \in Int
    BY <1>1, <2>2 DEF Marks
  <2> QED
    BY <2>2, <2>3
<1>4. Len(p) \in Nat /\ Len(c) \in Nat /\ Len(t) = Len(p) + n + Len(c)
  BY <1>1, LenProperties DEF Joins
<1>5. (IF t[i + 3] = "lf" THEN 4 ELSE 5) = n
  <2>1. t[i + 3] = m[4]
    <3>1. 4 \in 1..Len(m) /\ Len(p) + 4 = i + 3
      BY <1>2, <1>4
    <3> QED
      BY <3>1 DEF Joins
  <2>2. m = LfMarker \/ m = CrLfMarker
    BY DEF MarkerTexts
  <2>3. CASE m = LfMarker
    BY <2>1, <2>3, Alphabet, MarkerLiterals
  <2>4. CASE m = CrLfMarker
    <3>1. m[4] = "cr" /\ Len(m) = 5
      BY <2>4, Alphabet, MarkerLiterals
    <3> QED
      BY <2>1, <3>1
  <2> QED
    BY <2>2, <2>3, <2>4
<1> HIDE DEF n
<1>6. SubSeq(t, 1, i - 1) = p
  <2>1. \A k \in 1..(i - 1) : t[k] = p[k]
    BY <1>4 DEF Joins
  <2>2. /\ SubSeq(t, 1, i - 1) \in Seq(Characters)
        /\ Len(SubSeq(t, 1, i - 1)) = Len(p)
        /\ \A k \in 1..Len(p) : SubSeq(t, 1, i - 1)[k] = t[k]
    BY <1>1, <1>2, <1>4
  <2>3. \A k \in 1..Len(p) : SubSeq(t, 1, i - 1)[k] = p[k]
    BY <1>4, <2>1, <2>2
  <2> QED
    BY <1>1, <2>2, <2>3, SeqEqual
<1>7. SubSeq(t, i + n, Len(t)) = c
  <2>1. \A k \in 1..Len(c) : t[Len(p) + n + k] = c[k]
    BY DEF Joins, n
  <2>2. /\ SubSeq(t, i + n, Len(t)) \in Seq(Characters)
        /\ Len(SubSeq(t, i + n, Len(t))) = Len(c)
        /\ \A k \in 1..Len(c) : SubSeq(t, i + n, Len(t))[k] = t[i + n + k - 1]
    BY <1>1, <1>2, <1>4
  <2>3. \A k \in 1..Len(c) : i + n + k - 1 = Len(p) + n + k
    BY <1>2, <1>4
  <2>4. \A k \in 1..Len(c) : SubSeq(t, i + n, Len(t))[k] = c[k]
    BY <2>1, <2>2, <2>3
  <2> QED
    BY <1>1, <2>2, <2>4, SeqEqual
<1>8. Yaml(t).form = "yaml" /\ Yaml(t).text = t /\ Marks(t) # {}
  BY <1>2 DEF Yaml
<1> HIDE DEF i
<1>9. Meaning(Yaml(t)) = [payload |-> SubSeq(t, 1, i - 1), signature |-> ReadDocument(SubSeq(t, i + n, Len(t)))]
  BY <1>3, <1>5, <1>8, Zenon DEF Meaning
<1> QED
  BY <1>6, <1>7, <1>9

\* An artifact that is split means its parts, under the mode of a transcoding;
\* one that cannot be split has no signature.
SplitRightly(doc, split) ==
    /\ doc.form = "yaml" => TextReadRightly(doc.text, split)
    /\ doc.form # "yaml" => WireReadRightly(doc.wire, "signature_strict", split)

ReadSignature(form, c) == IF form = "yaml" THEN ReadDocument(c) ELSE ReadCarrier(c)

LEMMA OutsideSignatures ==
    /\ "none" \notin Signatures /\ "too_long" \notin Signatures /\ "unreadable" \notin Signatures
    /\ ReadDocument(<<>>) \notin Signatures
<1>1. "none" \notin Signatures /\ "too_long" \notin Signatures /\ "unreadable" \notin Signatures
  BY EnvelopeAssumption DEF Signatures
<1>2. <<>> \in DOMAIN Documents => Documents[<<>>] \notin Signatures
  BY EnvelopeAssumption DEF Signatures
<1> QED
  BY <1>1, <1>2, Zenon DEF ReadDocument

LEMMA SplitMeaning ==
    ASSUME NEW doc \in Artifacts, NEW split, ResultOK(split), split.kind # "refused", SplitRightly(doc, split)
    PROVE  /\ split.kind = "split" =>
                Meaning(doc) = [payload |-> split.payload, signature |-> ReadSignature(doc.form, split.carrier)]
           /\ split.kind # "split" => Meaning(doc).signature \notin Signatures
<1>1. CASE doc.form = "yaml"
  <2> DEFINE t == doc.text
  <2>1. t \in Octet /\ t \in Seq(Characters) /\ doc = Yaml(t) /\ TextReadRightly(t, split)
    BY <1>1, ArtifactsAre DEF SplitRightly, Octet
  <2> HIDE DEF t
  <2>2. CASE split.kind = "split"
    <3>1. PICK p \in Octet, c \in Octet : split = SplitInto(p, c)
      BY <2>2 DEF ResultOK, Unsigned, Malformed, Done
    <3>2. split.payload = p /\ split.carrier = c
      BY <3>1 DEF SplitInto
    <3>3. IsText(t) /\ TextSplitsInto(t, p, c)
      BY <2>1, <2>2, <3>2 DEF TextReadRightly
    <3>4. PICK m \in MarkerTexts : t = p \o m \o c
      BY <3>3 DEF TextSplitsInto
    <3>5. Joins(t, p, m, c)
      <4>1. m \in Seq(Characters)
        BY Alphabet, MarkerLiterals DEF MarkerTexts
      <4> QED
        BY <3>4, <4>1, JoinedOctets DEF Octet
    <3>6. LineEnds(p) /\ Marks(c) = {}
      BY <3>3 DEF TextSplitsInto
    <3>7. Meaning(doc) = [payload |-> p, signature |-> ReadDocument(c)]
      BY <2>1, <3>3, <3>5, <3>6, TextMeaning
    <3> QED
      BY <1>1, <2>2, <3>2, <3>7, Zenon DEF ReadSignature
  <2>3. ASSUME ~IsText(t) \/ Marks(t) = {}
        PROVE  Meaning(doc).signature \notin Signatures
    <3>1. Yaml(t).form = "yaml" /\ Yaml(t).text = t
      BY DEF Yaml
    <3>2. Meaning(Yaml(t)) = [payload |-> <<>>, signature |-> "none"]
      BY <2>3, <3>1, Zenon DEF Meaning
    <3> QED
      BY <2>1, <3>2, OutsideSignatures
  <2>4. CASE split.kind = "unsigned"
    BY <2>1, <2>3, <2>4 DEF TextReadRightly
  <2>5. CASE split.kind = "malformed" /\ IsText(t)
    <3>1. PICK i \in Marks(t) : SubSeq(t, i, Len(t)) \in MarkerTexts
      BY <2>1, <2>5 DEF TextReadRightly
    <3>2. i + MarkerLen(t, i) = Len(t) + 1
      BY <2>1, <3>1, MarkerAtEnd
    <3> DEFINE n == MarkerLen(t, i)
               p == SubSeq(t, 1, i - 1)
               m == SubSeq(t, i, i + n - 1)
               c == SubSeq(t, i + n, Len(t))
    <3>3. PartsAt(t, i, n, p, m, c)
      BY DEF PartsAt
    <3> HIDE DEF n, p, m, c
    <3>4. p \in Octet /\ c \in Octet /\ m \in MarkerTexts /\ LineEnds(p) /\ Joins(t, p, m, c)
          /\ Len(c) = Len(t) - (i + n) + 1
      BY <2>1, <3>3, Alphabet, SplitJoins DEF Octet
    <3>5. c = <<>>
      <4>1. Len(t) \in Nat
        BY <2>1, LenProperties
      <4>2. Len(c) = 0
        BY <3>2, <3>4, <4>1 DEF n
      <4> QED
        BY <3>4, <4>2, EmptySeq DEF Octet
    <3>6. Marks(c) = {}
      BY <3>5 DEF Marks
    <3>7. Meaning(doc) = [payload |-> p, signature |-> ReadDocument(c)]
      BY <2>1, <2>5, <3>4, <3>6, TextMeaning
    <3> QED
      BY <2>5, <3>5, <3>7, OutsideSignatures
  <2>6. CASE split.kind = "malformed" /\ ~IsText(t)
    BY <2>3, <2>6
  <2> QED
    BY <2>1, <2>2, <2>4, <2>5, <2>6 DEF TextReadRightly
<1>2. CASE doc.form = "protobuf"
  <2> DEFINE w == doc.wire
             M == Meaning(doc)
  <2>1. doc.form # "yaml" /\ WireReadRightly(w, "signature_strict", split)
    BY <1>2 DEF SplitRightly
  <2>2. CASE WireAccepted(w, "signature_strict")
    <3>1. split = SplitInto(LastValue(w, "payload"), LastValue(w, "signature"))
      BY <2>1, <2>2 DEF WireReadRightly
    <3>2. M = [payload |-> LastValue(w, "payload"), signature |-> ReadCarrier(LastValue(w, "signature"))]
      BY <1>2, <2>1, <2>2, Zenon DEF Meaning
    <3>3. split.kind = "split" /\ split.payload = LastValue(w, "payload") /\ split.carrier = LastValue(w, "signature")
      BY <3>1 DEF SplitInto
    <3> QED
      BY <2>1, <3>2, <3>3, Zenon DEF ReadSignature
  <2>3. CASE ~WireAccepted(w, "signature_strict")
    <3>1. split = Malformed
      BY <2>1, <2>3 DEF WireReadRightly
    <3>2. M = [payload |-> <<>>, signature |-> "none"]
      BY <2>1, <2>3, Zenon DEF Meaning
    <3> QED
      BY <3>1, <3>2, OutsideSignatures DEF Malformed
  <2> QED
    BY <2>2, <2>3
<1> QED
  BY <1>1, <1>2, ArtifactsAre

-----------------------------------------------------------------------------
(* Transcoding.                                                            *)

Asked == Policies \cup {NoPolicy}

\* Admission is the absence of an excess.
LEMMA AdmittedIsWithin ==
    ASSUME NEW form, NEW size \in Nat, NEW policy \in Asked
    PROVE  /\ Fits(size, policy) <=> ~Exceeds(size, policy)
           /\ Admitted(form, size, policy) => ~Exceeds(size, policy)
           /\ ~Admitted(form, size, policy) =>
                 Exceeds(size, policy) \/ (form = "protobuf" /\ size > MaxMessageBytes)
<1>1. policy \in Int /\ MaxMessageBytes \in Int /\ NoPolicy = -1
  BY EnvelopeAssumption DEF Asked, NoPolicy
<1>2. Fits(size, policy) <=> ~Exceeds(size, policy)
  BY <1>1 DEF Fits, Exceeds
<1>3. policy = NoPolicy => ~Exceeds(size, policy)
  BY <1>1 DEF Exceeds
<1>4. ~(size <= MaxMessageBytes) => size > MaxMessageBytes
  BY <1>1
<1> QED
  BY <1>2, <1>3, <1>4, Zenon DEF Admitted

\* What a transcoding emits for payload p and signature s.
Emitted(doc, p, s) ==
    /\ PayloadValid(p)
    /\ \/ doc = Proto(ComposeOuter(p, CanonicalCarrier[s]))
       \/ doc = Yaml(ComposeText(p, CanonicalDocument[s]))

LEMMA Canonical ==
    ASSUME NEW s \in Signatures
    PROVE  /\ CanonicalDocument[s] \in Octet /\ CanonicalCarrier[s] \in Octet
           /\ Utf8Ok(CanonicalDocument[s]) /\ ~ContainsConstrainedMarker(CanonicalDocument[s])
           /\ Marks(CanonicalDocument[s]) = {}
           /\ ReadDocument(CanonicalDocument[s]) \in {s, "too_long"}
           /\ ReadCarrier(CanonicalCarrier[s]) = s
<1>1. /\ CanonicalDocument[s] \in Octet /\ CanonicalCarrier[s] \in Octet
      /\ Utf8Ok(CanonicalDocument[s]) /\ ~ContainsConstrainedMarker(CanonicalDocument[s])
      /\ CanonicalDocument[s] \in DOMAIN Documents /\ Documents[CanonicalDocument[s]] = s
      /\ CanonicalCarrier[s] \in DOMAIN Carriers /\ Carriers[CanonicalCarrier[s]] = s
  BY EnvelopeAssumption DEF Signatures, Octet
<1>2. Marks(CanonicalDocument[s]) = {}
  BY <1>1, Alphabet, Recognisers DEF Octet
<1> QED
  BY <1>1, <1>2, Zenon DEF ReadDocument, ReadCarrier

\* Reading an emitted artifact finds what it was emitted for, unless the
\* document has outgrown the parser.
LEMMA EmittedMeaning ==
    ASSUME NEW doc, NEW p \in Octet, NEW s \in Signatures, Emitted(doc, p, s)
    PROVE  Meaning(doc).payload = p /\ Meaning(doc).signature \in {s, "too_long"}
<1>1. CASE doc = Proto(ComposeOuter(p, CanonicalCarrier[s]))
  <2> DEFINE c == CanonicalCarrier[s]
             w == ComposeOuter(p, c)
             r == IF WireAccepted(w, "signature_strict")
                  THEN SplitInto(LastValue(w, "payload"), LastValue(w, "signature")) ELSE Malformed
  <2>1. c \in Octet /\ ReadCarrier(c) = s
    BY Canonical
  <2> HIDE DEF c
  <2>2. WireReadRightly(w, "signature_strict", r)
    BY Zenon DEF WireReadRightly
  <2>3. r = SplitInto(p, c)
    BY <2>2, WireSplitsBack
  <2>4. w \in Seq(WireFields)
    BY <2>1, ComposedDocs DEF Forms
  <2> HIDE DEF w, r
  <2>5. Proto(w) \in Artifacts /\ Proto(w).form = "protobuf" /\ Proto(w).wire = w
    BY <2>4 DEF Artifacts, Proto
  <2>6. SplitRightly(Proto(w), r)
    BY <2>2, <2>5 DEF SplitRightly
  <2>7. ResultOK(r) /\ r.kind = "split" /\ r.payload = p /\ r.carrier = c
    BY <2>1, <2>3 DEF ResultOK, SplitInto
  <2>8. Meaning(Proto(w)) = [payload |-> p, signature |-> ReadSignature("protobuf", c)]
    BY <2>5, <2>6, <2>7, SplitMeaning
  <2> QED
    BY <1>1, <2>1, <2>8 DEF ReadSignature, c, w
<1>2. CASE doc = Yaml(ComposeText(p, CanonicalDocument[s]))
  <2> DEFINE c == CanonicalDocument[s]
             t == ComposeText(p, c)
  <2>1. c \in Octet /\ Utf8Ok(c) /\ Marks(c) = {} /\ ReadDocument(c) \in {s, "too_long"}
    BY Canonical
  <2> HIDE DEF c
  <2>2. t \in Octet /\ Joins(t, p, LfMarker, c) /\ LfMarker \in MarkerTexts
    BY <2>1, MarkerOctets, JoinedOctets DEF ComposeText, Octet, MarkerTexts
  <2> HIDE DEF t
  <2>3. Utf8Ok(p) /\ ~BomAtZero(p) /\ LineEnds(p)
    BY DEF Emitted, PayloadValid
  <2>4. Utf8Ok(t)
    BY <2>1, <2>2, <2>3, JoinedUtf8
  <2>5. ~BomAtZero(t)
    <3>1. CASE Len(p) = 0
      BY <2>2, <3>1, Alphabet, MarkerLiterals DEF Joins, BomAtZero
    <3>2. CASE Len(p) # 0
      BY <2>2, <2>3, <3>2, SMTT(40) DEF Joins, BomAtZero, Octet
    <3> QED
      BY <3>1, <3>2
  <2>6. Meaning(Yaml(t)) = [payload |-> p, signature |-> ReadDocument(c)]
    BY <2>1, <2>2, <2>3, <2>4, <2>5, TextMeaning DEF IsText
  <2> QED
    BY <1>2, <2>1, <2>6 DEF c, t
<1> QED
  BY <1>1, <1>2 DEF Emitted

\* The artifact that a transcoding of doc would emit.
Output(doc) ==
    IF doc.form = "yaml"
    THEN Proto(ComposeOuter(Meaning(doc).payload, CanonicalCarrier[Meaning(doc).signature]))
    ELSE Yaml(ComposeText(Meaning(doc).payload, CanonicalDocument[Meaning(doc).signature]))

\* Why a size may refuse a transcoding.
Oversize(doc, policy) ==
    \/ Exceeds(InputOctets(doc), policy)
    \/ Exceeds(InputOctets(Output(doc)), policy)
    \/ Output(doc).form = "protobuf" /\ InputOctets(Output(doc)) > MaxMessageBytes

\* The reply to a split artifact: done with what the artifact means and within
\* the policy, or refused for a cause.
LEMMA ReplyJustified ==
    ASSUME NEW doc \in Artifacts, NEW split, ResultOK(split), split.kind # "refused",
           SplitRightly(doc, split), NEW policy \in Asked,
           NEW r, r = TranscodeReply(doc.form, split, policy)
    PROVE  /\ r = Done =>
                /\ \E p \in Octet, s \in Signatures :
                      /\ Meaning(doc) = [payload |-> p, signature |-> s]
                      /\ Emitted(Transcoded(doc.form, split), p, s)
                /\ ~Exceeds(InputOctets(Transcoded(doc.form, split)), policy)
           /\ r # Done => IF r.why = "size" THEN Oversize(doc, policy) ELSE ~Meaningful(doc)
<1> DEFINE M == Meaning(doc)
           X == Transcoded(doc.form, split)
<1>1. CASE split.kind # "split"
  <2>1. r = Refused("not_signed")
    BY <1>1 DEF TranscodeReply
  <2>2. ~Meaningful(doc)
    BY <1>1, SplitMeaning DEF Meaningful
  <2>3. r # Done /\ r.why # "size"
    BY <2>1 DEF Refused, Done
  <2> QED
    BY <2>2, <2>3
<1>2. CASE split.kind = "split"
  <2>1. PICK p \in Octet, c \in Octet : split = SplitInto(p, c)
    BY <1>2 DEF ResultOK, Unsigned, Malformed, Done
  <2>2. split.payload = p /\ split.carrier = c
    BY <2>1 DEF SplitInto
  <2>3. PICK s : s = ReadSignature(doc.form, c)
    OBVIOUS
  <2>4. M = [payload |-> p, signature |-> s]
    BY <1>2, <2>2, <2>3, SplitMeaning
  <2>5. M.payload = p /\ M.signature = s
    BY <2>4
  <2>6. ~PayloadValid(p) \/ s \notin Signatures => ~Meaningful(doc)
    BY <2>5 DEF Meaningful
  <2> HIDE DEF M, X
  <2>7. /\ \A why : Refused(why).why = why /\ Refused(why) # Done
        /\ "payload" # "size" /\ "signature" # "size" /\ "not_signed" # "size"
    BY DEF Refused, Done
  <2>8. CASE doc.form = "yaml"
    <3> DEFINE o == ComposeOuter(p, CanonicalCarrier[s])
    <3>1. s = ReadDocument(c) /\ r = ToProtoReply(p, c, policy) /\ X = Proto(o)
      BY <1>2, <2>2, <2>3, <2>8, Zenon DEF TranscodeReply, ReadSignature, Transcoded, X
    <3>2. CASE ~PayloadValid(p) \/ s \notin Signatures
      <4>1. r = Refused("payload") \/ r = Refused("signature")
        BY <3>1, <3>2, Zenon DEF ToProtoReply
      <4> QED
        BY <2>6, <2>7, <3>2, <4>1, Zenon
    <3>3. CASE PayloadValid(p) /\ s \in Signatures
      <4>1. o \in Seq(WireFields)
        BY <3>3, Canonical, ComposedDocs DEF Forms
      <4> HIDE DEF o
      <4>2. Proto(o) \in Artifacts /\ InputOctets(Proto(o)) = WireOctets(o) /\ Proto(o).form = "protobuf"
        BY <4>1 DEF Artifacts, InputOctets, Proto
      <4>3. WireOctets(o) \in Nat
        BY <4>2, InputOctetsAreNat
      <4>4. Output(doc) = Proto(o)
        BY <2>5, <2>8, Zenon DEF Output, M, o
      <4>5. Emitted(X, p, s)
        BY <3>1, <3>3 DEF Emitted, o
      <4>6. r = IF ~Admitted("protobuf", WireOctets(o), policy) THEN Refused("size") ELSE Done
        BY <3>1, <3>3, Zenon DEF ToProtoReply, o
      <4>7. CASE Admitted("protobuf", WireOctets(o), policy)
        <5>1. ~Exceeds(InputOctets(X), policy)
          BY <3>1, <4>2, <4>3, <4>7, AdmittedIsWithin
        <5>2. r = Done
          BY <4>6, <4>7
        <5> QED
          BY <2>4, <3>3, <4>5, <5>1, <5>2, Zenon DEF M, X
      <4>8. CASE ~Admitted("protobuf", WireOctets(o), policy)
        <5>1. Oversize(doc, policy)
          BY <4>2, <4>3, <4>4, <4>8, AdmittedIsWithin, Zenon DEF Oversize
        <5>2. r = Refused("size")
          BY <4>6, <4>8
        <5> QED
          BY <2>7, <5>1, <5>2, Zenon
      <4> QED
        BY <4>7, <4>8
    <3> QED
      BY <3>2, <3>3
  <2>9. CASE doc.form = "protobuf"
    <3> DEFINE d == CanonicalDocument[s]
               o == ComposeText(p, d)
               n == Octets(p) + 4 + Octets(d)
    <3>1. s = ReadCarrier(c) /\ r = ToYamlReply(p, c, policy) /\ X = Yaml(o) /\ doc.form # "yaml"
      <4>1. doc.form # "yaml"
        BY <2>9
      <4> QED
        BY <1>2, <2>2, <2>3, <4>1, Zenon DEF TranscodeReply, ReadSignature, Transcoded, X
    <3>2. CASE ~PayloadValid(p) \/ s \notin Signatures
      <4>1. r = Refused("payload") \/ r = Refused("signature")
        BY <3>1, <3>2, Zenon DEF ToYamlReply
      <4> QED
        BY <2>6, <2>7, <3>2, <4>1, Zenon
    <3>3. CASE PayloadValid(p) /\ s \in Signatures
      <4>1. d \in Octet /\ ~ContainsConstrainedMarker(d)
        BY <3>3, Canonical
      <4>2. r = IF ~Fits(n, policy) THEN Refused("size") ELSE Done
        BY <3>1, <3>3, <4>1, Zenon DEF ToYamlReply
      <4>3. Emitted(X, p, s)
        BY <3>1, <3>3 DEF Emitted
      <4> HIDE DEF d
      <4>4. o \in Octet /\ Octets(o) = n /\ n \in Nat
        BY <4>1, OctetsJoined, OctetsAreNat, ComposedDocs DEF Forms
      <4> HIDE DEF o, n
      <4>5. InputOctets(Yaml(o)) = n
        BY <4>4 DEF InputOctets, Yaml
      <4>6. Output(doc) = Yaml(o)
        BY <2>5, <3>1, Zenon DEF Output, M, o, d
      <4>7. CASE Fits(n, policy)
        <5>1. ~Exceeds(InputOctets(X), policy)
          BY <3>1, <4>4, <4>5, <4>7, AdmittedIsWithin
        <5>2. r = Done
          BY <4>2, <4>7
        <5> QED
          BY <2>4, <3>3, <4>3, <5>1, <5>2, Zenon DEF M, X
      <4>8. CASE ~Fits(n, policy)
        <5>1. Exceeds(n, policy)
          BY <4>4, <4>8, AdmittedIsWithin
        <5>2. Oversize(doc, policy)
          BY <4>5, <4>6, <5>1, Zenon DEF Oversize
        <5>3. r = Refused("size")
          BY <4>2, <4>8
        <5> QED
          BY <2>7, <5>2, <5>3, Zenon
      <4> QED
        BY <4>7, <4>8
    <3> QED
      BY <3>2, <3>3
  <2> QED
    BY <2>8, <2>9, ArtifactsAre
<1> QED
  BY <1>1, <1>2

-----------------------------------------------------------------------------
(* However often an artifact is transcoded.                                *)

\* Only what is held is transcoded, a message in the tolerant mode.
ModeInv ==
    call.op = "transcode" =>
        /\ held # Nothing
        /\ running /\ held.form # "yaml" => call.mode = "signature_strict"

\* What is held is what came, or was emitted for what came.
Traced ==
    held # Nothing /\ held # origin.doc =>
        \E p \in Octet, s \in Signatures :
           /\ Emitted(held, p, s)
           /\ Meaning(origin.doc) = [payload |-> p, signature |-> s]

\* A finished transcoding was refused for a cause, or what it or a composition
\* left is within the policy.
Caused ==
    /\ ~running /\ call.op = "transcode" /\ result.kind = "refused" =>
          IF result.why = "size" THEN Oversize(held, call.policy) ELSE ~Meaningful(held)
    /\ call.op \in {"compose", "transcode"} /\ ~running /\ result = Done =>
          ~Exceeds(InputOctets(held), call.policy)

\* A refused composition would have been too large.
TooLarge ==
    origin.how = "refused" =>
        /\ held = Nothing /\ ~running
        /\ result.why = "size" =>
             \/ Exceeds(InputOctets(origin.doc), call.policy)
             \/ origin.doc.form = "protobuf" /\ InputOctets(origin.doc) > MaxMessageBytes

TransInv == ReadInv /\ ModeInv /\ Traced /\ Caused /\ TooLarge

LEMMA DoneIsNot == Done.kind = "done" /\ (\A why : Refused(why).kind = "refused" /\ Refused(why).why = why)
  BY DEF Done, Refused

LEMMA ComposeCaused ==
    ASSUME Shape, NEW form \in Forms, NEW p \in Octet, NEW c \in Octet, NEW policy \in Asked,
           Compose(form, p, c, policy)
    PROVE  ModeInv' /\ Traced' /\ Caused' /\ TooLarge'
<1> DEFINE n == ProjectedOctets(form, p, c)
           doc == Composed(form, p, c)
<1>1. /\ ~running' /\ call'.op = "compose" /\ call'.policy = policy
      /\ result' = ComposeReply(form, p, c, policy)
      /\ held' = IF result' = Done THEN doc ELSE Nothing
      /\ origin'.doc = doc
      /\ origin'.how = (IF result' = Done THEN "composed" ELSE "refused")
  BY DEF Compose, Shape, OriginOK
<1>2. n \in Nat /\ n = InputOctets(doc)
  BY ProjectionExact
<1>3. doc.form = form
  BY DEF Composed, Forms, Yaml, Proto
<1>4. result' = Done => Admitted(form, n, policy)
  BY <1>1, DoneIsNot, Zenon DEF ComposeReply
<1>5. result'.why = "size" => ~Admitted(form, n, policy)
  <2>1. /\ Done.why # "size" /\ Refused("payload").why # "size" /\ Refused("carrier").why # "size"
    BY DEF Done, Refused
  <2> QED
    BY <1>1, <2>1, Zenon DEF ComposeReply
<1> HIDE DEF n, doc
<1>6. ModeInv'
  BY <1>1 DEF ModeInv
<1>7. Traced'
  BY <1>1, Zenon DEF Traced
<1>8. Caused'
  <2>1. call'.op # "transcode"
    BY <1>1
  <2>2. result' = Done => ~Exceeds(InputOctets(held'), call'.policy)
    BY <1>1, <1>2, <1>4, AdmittedIsWithin, Zenon
  <2> QED
    BY <2>1, <2>2, Zenon DEF Caused
<1>9. TooLarge'
  <2>1. origin'.how = "refused" => held' = Nothing
    BY <1>1
  <2>2. result'.why = "size" => Exceeds(InputOctets(origin'.doc), call'.policy)
           \/ (origin'.doc.form = "protobuf" /\ InputOctets(origin'.doc) > MaxMessageBytes)
    BY <1>1, <1>2, <1>3, <1>5, AdmittedIsWithin, Zenon
  <2> QED
    BY <1>1, <2>1, <2>2, Zenon DEF TooLarge
<1> QED
  BY <1>6, <1>7, <1>8, <1>9

\* A call begins: it is refused for its input, or its loop runs.
LEMMA AskCaused ==
    ASSUME Shape, Traced, Caused, TooLarge, NEW op \in {"decompose", "transcode"}, NEW mode \in Modes, NEW policy \in Policies,
           Ask(op, mode, policy)
    PROVE  ModeInv' /\ Traced' /\ Caused' /\ TooLarge'
<1>1. /\ held \in Artifacts /\ held # Nothing /\ held' = held /\ origin' = origin
      /\ call'.op = op /\ call'.mode = mode /\ call'.policy = policy /\ mode = ModeOf(op, mode)
  BY ArtifactsAre DEF Ask, Shape
<1>2. /\ held.text \in Octet
      /\ \/ held.form = "yaml" /\ held = Yaml(held.text)
         \/ held.form = "protobuf" /\ held = Proto(held.wire)
  BY <1>1, ArtifactsAre
<1>3. policy \in Asked /\ InputOctets(held) \in Nat
  BY <1>1, InputOctetsAreNat DEF Asked
<1>4. Traced' /\ TooLarge'
  BY <1>1, Zenon DEF Traced, TooLarge
<1>5. ModeInv'
  BY <1>1, Zenon DEF ModeInv, ModeOf
<1>6. Caused'
  <2>1. CASE op = "decompose"
    BY <1>1, <2>1 DEF Caused
  <2>2. CASE op = "transcode"
    <3>1. ModeFits(mode)
      BY <1>1, <1>2, <2>2 DEF ModeFits, ModeOf
    <3>2. \/ result' = Refused("size") /\ ~Fits(InputOctets(held), policy)
          \/ result' = Refused("not_signed") /\ held.form = "yaml" /\ ~IsText(held.text)
          \/ result' = Refused("not_signed") /\ held = Yaml(<<>>)
          \/ running' = TRUE /\ result' = Done
      BY <2>2, <3>1, Zenon DEF Ask, IsText
    <3>3. ~Meaningful(held) \/ result' # Refused("not_signed")
      <4>1. ASSUME held.form = "yaml", ~IsText(held.text) \/ Marks(held.text) = {}
            PROVE  ~Meaningful(held)
        <5>1. Meaning(held) = [payload |-> <<>>, signature |-> "none"]
          BY <4>1, Zenon DEF Meaning
        <5> QED
          BY <5>1, OutsideSignatures DEF Meaningful
      <4>2. held = Yaml(<<>>) => held.form = "yaml" /\ Marks(held.text) = {}
        BY DEF Yaml, Marks
      <4>3. Refused("size") # Refused("not_signed") /\ Done # Refused("not_signed")
        BY DEF Refused, Done
      <4> QED
        BY <3>2, <4>1, <4>2, <4>3
    <3>4. result' = Refused("size") => Oversize(held, policy)
      <4>1. Refused("size") # Refused("not_signed") /\ Done # Refused("size")
        BY DEF Refused, Done
      <4>2. ~Fits(InputOctets(held), policy) => Exceeds(InputOctets(held), policy)
        BY <1>3, AdmittedIsWithin
      <4> QED
        BY <3>2, <4>1, <4>2 DEF Oversize
    <3> QED
      <4>1. call'.op = "transcode" /\ call'.policy = policy /\ held' = held
        BY <1>1, <2>2
      <4>2. CASE result' = Refused("size")
        <5>1. Oversize(held, policy) /\ result'.why = "size" /\ result' # Done
          BY <3>4, <4>2, DoneIsNot DEF Refused, Done
        <5> QED
          BY <4>1, <5>1, Zenon DEF Caused
      <4>3. CASE result' = Refused("not_signed")
        <5>1. ~Meaningful(held) /\ result'.why # "size" /\ result' # Done
          BY <3>3, <4>3, DoneIsNot DEF Refused, Done
        <5> QED
          BY <4>1, <5>1, Zenon DEF Caused
      <4>4. CASE running' = TRUE
        BY <4>4, Zenon DEF Caused
      <4> QED
        BY <3>2, <4>2, <4>3, <4>4, Zenon
  <2> QED
    BY <2>1, <2>2
<1> QED
  BY <1>4, <1>5, <1>6

\* A transcoding concludes: what it emits means what it read, and that is what
\* came in the beginning.
LEMMA ConcludeCaused ==
    ASSUME Shape, ModeInv, Traced, TooLarge, NEW split, Concluded(split)
    PROVE  ModeInv' /\ Traced' /\ Caused' /\ TooLarge'
<1>1. /\ running /\ ~running' /\ call' = call /\ origin' = origin /\ held \in Artifacts /\ held # Nothing
      /\ ResultOK(split) /\ split.kind # "refused"
  BY ArtifactsAre DEF Concluded, Conclude
<1>2. TooLarge' /\ (held' # Nothing => ModeInv')
  BY <1>1, Zenon DEF ModeInv, TooLarge
<1>3. CASE call.op = "decompose"
  <2>1. held' = held
    BY <1>3 DEF Concluded, Conclude
  <2>2. Traced'
    BY <1>1, <2>1, Zenon DEF Traced
  <2>3. Caused'
    BY <1>1, <1>3 DEF Caused
  <2> QED
    BY <1>1, <1>2, <2>1, <2>2, <2>3
<1>4. CASE call.op = "transcode"
  <2> DEFINE X == Transcoded(held.form, split)
  <2>1. /\ result' = TranscodeReply(held.form, split, call.policy)
        /\ held' = IF result' = Done THEN X ELSE held
    BY <1>4 DEF Concluded, Conclude
  <2>2. SplitRightly(held, split)
    BY <1>1, <1>4, Zenon DEF Concluded, SplitRightly, ModeInv
  <2>3. call.policy \in Asked
    BY DEF Shape, CallOK, Asked
  <2>4. PICK r : r = TranscodeReply(held.form, split, call.policy)
    OBVIOUS
  <2>5. /\ r = Done =>
             /\ \E p \in Octet, s \in Signatures :
                   Meaning(held) = [payload |-> p, signature |-> s] /\ Emitted(X, p, s)
             /\ ~Exceeds(InputOctets(X), call.policy)
        /\ r # Done => IF r.why = "size" THEN Oversize(held, call.policy) ELSE ~Meaningful(held)
    BY <1>1, <2>2, <2>3, <2>4, ReplyJustified
  <2> HIDE DEF X
  <2>6. CASE r = Done
    <3>1. held' = X /\ result' = Done
      BY <2>1, <2>4, <2>6
    <3>2. PICK p \in Octet, s \in Signatures :
             Meaning(held) = [payload |-> p, signature |-> s] /\ Emitted(X, p, s)
      BY <2>5, <2>6
    <3>3. Meaning(origin.doc) = [payload |-> p, signature |-> s]
      <4>1. CASE held = origin.doc
        BY <3>2, <4>1
      <4>2. CASE held # origin.doc
        <5>1. PICK q \in Octet, z \in Signatures :
                 Emitted(held, q, z) /\ Meaning(origin.doc) = [payload |-> q, signature |-> z]
          BY <1>1, <4>2, Zenon DEF Traced
        <5>2. Meaning(held).payload = q /\ Meaning(held).signature \in {z, "too_long"}
          BY <5>1, EmittedMeaning
        <5>3. Meaning(held).payload = p /\ Meaning(held).signature = s
          BY <3>2
        <5>4. p = q /\ s = z
          BY <5>2, <5>3, OutsideSignatures
        <5> QED
          BY <5>1, <5>4
      <4> QED
        BY <4>1, <4>2
    <3>4. Traced'
      BY <1>1, <3>1, <3>2, <3>3, Zenon DEF Traced
    <3>5. Caused'
      BY <1>1, <2>5, <2>6, <3>1, DoneIsNot, Zenon DEF Caused
    <3>6. X # Nothing
      BY <3>2 DEF Emitted, Proto, Yaml, Nothing
    <3> QED
      BY <1>2, <3>1, <3>4, <3>5, <3>6
  <2>7. CASE r # Done
    <3>1. held' = held /\ result' = r /\ r # Done
      BY <2>1, <2>4, <2>7
    <3>2. Traced'
      BY <1>1, <3>1, Zenon DEF Traced
    <3>3. Caused'
      BY <1>1, <2>5, <3>1, Zenon DEF Caused
    <3> QED
      BY <1>1, <1>2, <3>1, <3>2, <3>3
  <2> QED
    BY <2>6, <2>7
<1> QED
  BY <1>1, <1>3, <1>4 DEF Shape, LoopOK

LEMMA NextTranscodes == TransInv /\ [Next]_vars => TransInv'
<1> SUFFICES ASSUME TransInv, [Next]_vars
             PROVE  TransInv'
  OBVIOUS
<1>0. ReadInv /\ Shape /\ ScanInv /\ FieldInv /\ ModeInv /\ Traced /\ Caused /\ TooLarge /\ ReadInv'
  BY NextReads DEF TransInv, ReadInv
<1> SUFFICES ModeInv' /\ Traced' /\ Caused' /\ TooLarge'
  BY <1>0 DEF TransInv
<1>1. ASSUME NEW doc, Receive(doc)
      PROVE  ModeInv' /\ Traced' /\ Caused' /\ TooLarge'
  <2>1. /\ ~running' /\ held' = doc /\ origin'.doc = doc /\ origin'.how = "received" /\ call'.op = "none"
    BY <1>0, <1>1 DEF Receive, Shape, OriginOK, NoOrigin, NoCall
  <2> QED
    BY <2>1 DEF ModeInv, Traced, Caused, TooLarge
<1>2. ASSUME NEW form \in Forms, NEW parts \in Components, NEW policy \in Policies,
             Compose(form, parts[1], parts[2], policy)
      PROVE  ModeInv' /\ Traced' /\ Caused' /\ TooLarge'
  <2>1. parts[1] \in Octet /\ parts[2] \in Octet /\ policy \in Asked
    BY EnvelopeAssumption DEF Octet, Asked
  <2> QED
    BY <1>0, <1>2, <2>1, ComposeCaused
<1>3. ASSUME NEW op \in {"decompose", "transcode"}, NEW mode \in Modes, NEW policy \in Policies,
             Ask(op, mode, policy)
      PROVE  ModeInv' /\ Traced' /\ Caused' /\ TooLarge'
  BY <1>0, <1>3, AskCaused
<1>4. CASE Scan \/ ReadField
  <2>1. running' /\ held' = held /\ call' = call /\ origin' = origin /\ running
    BY <1>4 DEF Scan, ReadField
  <2> QED
    BY <1>0, <2>1, Zenon DEF ModeInv, Traced, Caused, TooLarge
<1>5. CASE EndScan \/ RefuseField \/ EndFields
  <2>1. PICK split : Concluded(split)
    BY <1>0, <1>5, EndsRightly
  <2> QED
    BY <1>0, <2>1, ConcludeCaused
<1>6. CASE UNCHANGED vars
  BY <1>0, <1>6, Zenon DEF vars, ModeInv, Traced, Caused, TooLarge
<1> QED
  BY <1>1, <1>2, <1>3, <1>4, <1>5, <1>6, Zenon DEF Next

LEMMA AlwaysTranscodes == Spec => []TransInv
<1>1. Init => TransInv
  <2> SUFFICES ASSUME Init
               PROVE  TransInv
    OBVIOUS
  <2>1. /\ ~running /\ held = Nothing /\ call.op = "none" /\ origin.how = "none"
    BY DEF Init, NoCall, NoOrigin
  <2>2. ReadInv
    BY InitReads
  <2> QED
    BY <2>1, <2>2 DEF TransInv, ModeInv, Traced, Caused, TooLarge
<1> QED
  BY <1>1, NextTranscodes, PTL DEF Spec

\* However often an artifact is transcoded, it keeps its payload and its
\* signature, and what was emitted goes back unless a size forbids it or the
\* document has outgrown the parser, for all texts, messages and policies.
THEOREM TranscodingLosesNothing == Spec => []TranscodingKeeps
<1>1. TransInv => TranscodingKeeps
  <2> SUFFICES ASSUME TransInv
               PROVE  TranscodingKeeps
    OBVIOUS
  <2>1. Traced /\ Caused
    BY DEF TransInv
  <2>2. ASSUME held # Nothing, held # origin.doc
        PROVE  /\ Meaning(held).payload = Meaning(origin.doc).payload
               /\ \/ Meaning(held).signature = Meaning(origin.doc).signature
                  \/ Meaning(held).signature = "too_long"
               /\ PayloadValid(Meaning(held).payload)
               /\ Meaning(held).signature \in Signatures \cup {"too_long"}
    <3>1. PICK p \in Octet, s \in Signatures :
             Emitted(held, p, s) /\ Meaning(origin.doc) = [payload |-> p, signature |-> s]
      BY <2>1, <2>2, Zenon DEF Traced
    <3>2. Meaning(held).payload = p /\ Meaning(held).signature \in {s, "too_long"}
      BY <3>1, EmittedMeaning
    <3>3. PayloadValid(p)
      BY <3>1 DEF Emitted
    <3> QED
      BY <3>1, <3>2, <3>3
  <2>3. MeaningKept
    BY <2>2, Zenon DEF MeaningKept
  <2>4. ReturnTrip
    <3> SUFFICES ASSUME ~running, call.op = "transcode", result.kind = "refused", held # origin.doc,
                        result.why # "size"
                 PROVE  Meaning(held).signature = "too_long"
      BY Zenon DEF ReturnTrip
    <3>1. held # Nothing
      BY Zenon DEF TransInv, ModeInv
    <3>2. ~Meaningful(held)
      BY <2>1, Zenon DEF Caused
    <3> QED
      BY <2>2, <3>1, <3>2 DEF Meaningful
  <2> QED
    BY <2>3, <2>4 DEF TranscodingKeeps
<1> QED
  BY <1>1, AlwaysTranscodes, PTL

\* Refusals have their cause and projected sizes are those of what is emitted,
\* for all texts, messages, policies and lengths on either side of every
\* varint boundary.
THEOREM RefusesForCause == Spec => []RefusalsJustified
<1>1. TransInv => RefusalsJustified
  <2> SUFFICES ASSUME TransInv
               PROVE  RefusalsJustified
    OBVIOUS
  <2>1. Caused /\ TooLarge
    BY DEF TransInv
  <2>2. RefusedForCause
    BY <2>1, Zenon DEF RefusedForCause, Caused, Oversize, Output
  <2>3. SizesAgree
    BY <2>1, Zenon DEF SizesAgree, Caused, TooLarge
  <2> QED
    BY <2>2, <2>3 DEF RefusalsJustified
<1> QED
  BY <1>1, AlwaysTranscodes, PTL

-----------------------------------------------------------------------------
(* The message facade.  Recursions over the fields of a message: there is  *)
(* a function with the recursion, and only one.                            *)

StepFunctions(n, S) == [1..n -> [S -> S]]

\* f starts with a and takes the first n steps.
Takes(f, a, step, n, S) ==
    f \in [0..n -> S] /\ f[0] = a /\ \A i \in 1..n : f[i] = step[i][f[i - 1]]

LEMMA StepsExist ==
    ASSUME NEW n \in Nat, NEW S, NEW a \in S, NEW step \in StepFunctions(n, S)
    PROVE  \E f : Takes(f, a, step, n, S)
<1> DEFINE Steps(f, k) == Takes(f, a, step, k, S)
           T == {k \in Nat : k <= n /\ ~\E f : Steps(f, k)}
<1>0. step \in [1..n -> [S -> S]]
  BY DEF StepFunctions
<1>1. SUFFICES ASSUME T # {} PROVE FALSE
  <2>1. n \in Nat /\ n <= n
    OBVIOUS
  <2>2. n \notin T => \E f : Steps(f, n)
    BY <2>1, Zenon
  <2> QED
    BY <2>2
<1>2. PICK k \in T : \A m \in T : k <= m
  BY <1>1, LeastElement
<1>3. CASE k = 0
  <2>1. Steps([i \in 0..0 |-> a], 0)
    BY DEF Takes
  <2> QED
    BY <1>2, <1>3, <2>1
<1>4. CASE k # 0
  <2>1. k - 1 \in Nat /\ k - 1 <= n /\ k - 1 \notin T /\ k \in 1..n
    BY <1>2, <1>4
  <2>2. PICK f : Steps(f, k - 1)
    BY <2>1
  <2> DEFINE g == [i \in 0..k |-> IF i = k THEN step[k][f[k - 1]] ELSE f[i]]
  <2>3. f[k - 1] \in S
    BY <2>1, <2>2 DEF Takes
  <2>4. g \in [0..k -> S]
    BY <1>0, <2>1, <2>2, <2>3 DEF Takes
  <2>5. g[0] = a
    BY <2>1, <2>2 DEF Takes
  <2>6. ASSUME NEW i \in 1..k PROVE g[i] = step[i][g[i - 1]]
    <3>1. CASE i = k
      BY <2>1, <3>1
    <3>2. CASE i # k
      BY <2>1, <2>2, <3>2 DEF Takes
    <3> QED
      BY <3>1, <3>2
  <2>7. Steps(g, k)
    BY <2>4, <2>5, <2>6 DEF Takes
  <2> QED
    BY <1>2, <2>7
<1> QED
  BY <1>3, <1>4

\* What holds at 0 and from each index to the next holds up to n.
LEMMA Climbs ==
    ASSUME NEW n \in Nat, NEW H, 0 \in H, \A i \in 1..n : i - 1 \in H => i \in H
    PROVE  0..n \subseteq H
<1> DEFINE T == (0..n) \ H
<1>1. SUFFICES ASSUME T # {} PROVE FALSE
  OBVIOUS
<1>2. PICK k \in T : \A m \in T : k <= m
  <2>1. T \in SUBSET Nat
    OBVIOUS
  <2> HIDE DEF T
  <2> QED
    BY <1>1, <2>1, LeastElement
<1>3. k # 0 /\ k \in 1..n
  BY <1>2
<1>4. k - 1 \in 0..n /\ k - 1 \notin T
  BY <1>2, <1>3
<1> QED
  BY <1>2, <1>3, <1>4

-----------------------------------------------------------------------------
(* Sizes are natural numbers.                                              *)

LEMMA InnerOctetsAreNat ==
    ASSUME NEW f \in OuterField
    PROVE  InnerOctets(f) \in Nat /\ PushTag(f.num, 2) \in Nat
<1>1. f.num \in Nat /\ f.int \in Int /\ BlobLen[f.blob] \in Nat
  BY FacadeAssumption DEF OuterField, FieldOf
<1>2. PushTag(f.num, 0) \in Nat /\ PushTag(f.num, 2) \in Nat
  BY <1>1, Varints DEF PushTag
<1>3. EnumOctets(f.int) \in Nat
  BY <1>1, Varints DEF EnumOctets
<1>4. PushLenField(f.num, BlobLen[f.blob]) \in Nat
  BY <1>1, <1>2, Varints DEF PushLenField
<1> QED
  BY <1>2, <1>3, <1>4 DEF InnerOctets

LEMMA InnerIsOuter ==
    /\ InnerField \subseteq OuterField
    /\ Seq(InnerField) \subseteq Seq(OuterField)
<1>1. <<>> \in Seq(InnerField)
  OBVIOUS
<1>2. InnerField \subseteq OuterField
  BY <1>1 DEF InnerField, OuterField, FieldOf
<1> QED
  BY <1>2, SeqMonotonic

LEMMA InnerLenIsNat ==
    ASSUME NEW w \in Seq(InnerField)
    PROVE  InnerLen(w) \in Nat
<1> DEFINE n == Len(w)
           v == [i \in 1..n |-> InnerOctets(w[i])]
           h == CHOOSE f : f = [i \in 0..n |-> IF i = 0 THEN 0 ELSE f[i - 1] + v[i]]
<1>1. n \in Nat /\ v \in [1..n -> Nat]
  BY InnerOctetsAreNat, InnerIsOuter, LenProperties, ElementOfSeq
<1>2. InnerLen(w) = h[n]
  <2>1. ASSUME NEW f
        PROVE  [i \in 0..n |-> IF i = 0 THEN 0 ELSE f[i - 1] + InnerOctets(w[i])]
                 = [i \in 0..n |-> IF i = 0 THEN 0 ELSE f[i - 1] + v[i]]
    BY <1>1
  <2> QED
    BY <2>1, Zenon DEF InnerLen
<1>3. IsSum(h, v, n)
  <2> HIDE DEF v, n
  <2> QED
    BY <1>1, SumIsNamed
<1>4. h \in [0..n -> Nat]
  <2> HIDE DEF h, v
  <2> QED
    BY <1>3 DEF IsSum
<1> QED
  <2> HIDE DEF h
  <2> QED
    BY <1>1, <1>2, <1>4

LEMMA OuterOctetsAreNat ==
    ASSUME NEW f \in OuterField
    PROVE  OuterOctets(f) \in Nat
<1>1. f.inner \in Seq(InnerField) /\ f.declared \in Nat
  BY DEF OuterField, FieldOf
<1>2. PushVarint[f.declared] \in Nat /\ InnerLen(f.inner) \in Nat
  BY <1>1, InnerLenIsNat, Varints
<1> QED
  BY <1>2, InnerOctetsAreNat DEF OuterOctets

LEMMA OuterLenIsNat ==
    ASSUME NEW w \in Seq(OuterField)
    PROVE  OuterLen(w) \in Nat
<1> DEFINE n == Len(w)
           v == [i \in 1..n |-> OuterOctets(w[i])]
           h == CHOOSE f : f = [i \in 0..n |-> IF i = 0 THEN 0 ELSE f[i - 1] + v[i]]
<1>1. n \in Nat /\ v \in [1..n -> Nat]
  BY OuterOctetsAreNat, InnerIsOuter, LenProperties, ElementOfSeq
<1>2. OuterLen(w) = h[n]
  <2>1. ASSUME NEW f
        PROVE  [i \in 0..n |-> IF i = 0 THEN 0 ELSE f[i - 1] + OuterOctets(w[i])]
                 = [i \in 0..n |-> IF i = 0 THEN 0 ELSE f[i - 1] + v[i]]
    BY <1>1
  <2> QED
    BY <2>1, Zenon DEF OuterLen
<1>3. IsSum(h, v, n)
  <2> HIDE DEF v, n
  <2> QED
    BY <1>1, SumIsNamed
<1>4. h \in [0..n -> Nat]
  <2> HIDE DEF h, v
  <2> QED
    BY <1>3 DEF IsSum
<1> QED
  <2> HIDE DEF h
  <2> QED
    BY <1>1, <1>2, <1>4

-----------------------------------------------------------------------------
(* What is refused, and what decoding collects.                            *)

LEMMA NothingRefused ==
    ASSUME NEW n \in Nat, NEW r, DOMAIN r = 1..n
    PROVE  FirstRefusal(r) = "none" <=> \A i \in 1..n : r[i] = "none"
<1> DEFINE bad == {i \in DOMAIN r : r[i] # "none"}
<1>1. CASE bad = {}
  BY <1>1 DEF FirstRefusal
<1>2. CASE bad # {}
  <2>1. bad \in SUBSET Nat
    OBVIOUS
  <2>2. \E i \in bad : \A k \in bad : i <= k
    <3> HIDE DEF bad
    <3> QED
      BY <1>2, <2>1, LeastElement
  <2>3. (CHOOSE i \in bad : \A k \in bad : i <= k) \in bad
    <3> HIDE DEF bad
    <3> QED
      BY <2>2
  <2>4. FirstRefusal(r) = r[CHOOSE i \in bad : \A k \in bad : i <= k]
    BY <1>2 DEF FirstRefusal
  <2> QED
    BY <1>2, <2>3, <2>4
<1> QED
  BY <1>1, <1>2

LEMMA ReadableCarrier ==
    ASSUME NEW w \in Seq(InnerField)
    PROVE  CarrierRefusal(w) = "none" <=> \A i \in 1..Len(w) : InnerRefusal(w[i]) = "none"
<1> DEFINE r == [i \in DOMAIN w |-> InnerRefusal(w[i])]
<1>1. Len(w) \in Nat /\ DOMAIN w = 1..Len(w)
  BY LenProperties
<1>2. DOMAIN r = 1..Len(w) /\ \A i \in 1..Len(w) : r[i] = InnerRefusal(w[i])
  BY <1>1
<1>3. CarrierRefusal(w) = FirstRefusal(r)
  BY DEF CarrierRefusal
<1> HIDE DEF r
<1> QED
  BY <1>1, <1>2, <1>3, NothingRefused

LEMMA ReadableArtifact ==
    ASSUME NEW w \in Seq(OuterField)
    PROVE  ArtifactRefusal(w) = "none" <=> \A i \in 1..Len(w) : OuterRefusal(w[i]) = "none"
<1> DEFINE r == [i \in DOMAIN w |-> OuterRefusal(w[i])]
<1>1. Len(w) \in Nat /\ DOMAIN w = 1..Len(w)
  BY LenProperties
<1>2. DOMAIN r = 1..Len(w) /\ \A i \in 1..Len(w) : r[i] = OuterRefusal(w[i])
  BY <1>1
<1>3. ArtifactRefusal(w) = FirstRefusal(r)
  BY DEF ArtifactRefusal
<1> HIDE DEF r
<1> QED
  BY <1>1, <1>2, <1>3, NothingRefused

\* The fields a message keeps although the schema does not know them.
KeptInner == {f \in InnerField : f.num \notin {1, 2, 3} /\ f.type # "cut"}
KeptOuter == {f \in OuterField : f.num \notin {1, 2} /\ f.type # "cut"}

PresentSignature ==
    [present : {TRUE}, alg : Int, keyid : Strings \cup {"absent"}, octets : Blobs, unknown : Seq(KeptInner)]
FacadeSignature == PresentSignature \cup {NoSignature}
FacadeMessage == [payload : Blobs, signature : FacadeSignature, unknown : Seq(KeptOuter)]

LEMMA MergesInner ==
    ASSUME NEW s \in PresentSignature, NEW f \in InnerField, InnerRefusal(f) = "none"
    PROVE  MergeInner(s, f) \in PresentSignature
<1>1. f.int \in Int /\ f.blob \in Blobs /\ f.type # "cut" /\ (f.num = 2 => f.blob \in Strings)
  BY DEF InnerField, FieldOf, InnerRefusal, Strings
<1>2. CASE f.num = 1
  BY <1>1, <1>2 DEF MergeInner, PresentSignature
<1>3. CASE f.num = 2
  BY <1>1, <1>3 DEF MergeInner, PresentSignature
<1>4. CASE f.num = 3
  BY <1>1, <1>4 DEF MergeInner, PresentSignature
<1>5. CASE f.num \notin {1, 2, 3}
  <2>1. Append(s.unknown, f) \in Seq(KeptInner)
    BY <1>1, <1>5, AppendProperties DEF KeptInner, PresentSignature
  <2>2. MergeInner(s, f) = [s EXCEPT !.unknown = Append(@, f)]
    BY <1>5 DEF MergeInner
  <2> QED
    BY <2>1, <2>2 DEF PresentSignature
<1> QED
  BY <1>2, <1>3, <1>4, <1>5

LEMMA NoSignatureTyped ==
    /\ DefaultSignature \in PresentSignature /\ NoSignature \notin PresentSignature
    /\ DefaultSignature.alg = 0 /\ DefaultSignature.keyid = "absent"
    /\ DefaultSignature.octets = "empty" /\ DefaultSignature.unknown = <<>>
    /\ EmptyMessage \in FacadeMessage
<1> DEFINE Absent == [present : {FALSE}, alg : Int, keyid : Strings \cup {"absent"},
                      octets : Blobs, unknown : Seq(KeptInner)]
<1>1. NoSignature \in Absent
  BY FacadeAssumption DEF NoSignature
<1>2. DefaultSignature \in PresentSignature /\ NoSignature \notin PresentSignature
  BY <1>1 DEF DefaultSignature, PresentSignature
<1>3. /\ DefaultSignature.alg = NoSignature.alg /\ DefaultSignature.keyid = NoSignature.keyid
      /\ DefaultSignature.octets = NoSignature.octets
      /\ DefaultSignature.unknown = NoSignature.unknown
  BY <1>1 DEF DefaultSignature
<1>4. EmptyMessage \in FacadeMessage
  BY FacadeAssumption DEF EmptyMessage, FacadeMessage, FacadeSignature
<1> QED
  BY <1>2, <1>3, <1>4 DEF NoSignature

\* A function collects the fields of a signature.
CollectsInner(h, a, w) ==
    /\ h \in [0..Len(w) -> PresentSignature] /\ h[0] = a
    /\ \A i \in 1..Len(w) : h[i] = MergeInner(h[i - 1], w[i])

LEMMA SignatureCollected ==
    ASSUME NEW s \in FacadeSignature, NEW w \in Seq(InnerField), CarrierRefusal(w) = "none"
    PROVE  \E h : CollectsInner(h, [s EXCEPT !.present = TRUE], w) /\ SignatureOf(s, w) = h[Len(w)]
<1> DEFINE n == Len(w)
           a == [s EXCEPT !.present = TRUE]
           step == [i \in 1..n |-> [x \in PresentSignature |-> MergeInner(x, w[i])]]
           R(f) == f = [i \in 0..n |-> IF i = 0 THEN a ELSE MergeInner(f[i - 1], w[i])]
           h == CHOOSE f : R(f)
<1>1. n \in Nat /\ \A i \in 1..n : w[i] \in InnerField /\ InnerRefusal(w[i]) = "none"
  BY LenProperties, ElementOfSeq, ReadableCarrier
<1>2. a \in PresentSignature
  <2>1. CASE s \in PresentSignature
    BY <2>1 DEF PresentSignature
  <2>2. CASE s = NoSignature
    BY <2>2, NoSignatureTyped DEF DefaultSignature
  <2> QED
    BY <2>1, <2>2 DEF FacadeSignature
<1>3. \A i \in 1..n, x \in PresentSignature : MergeInner(x, w[i]) \in PresentSignature
  BY <1>1, MergesInner
<1>4. step \in StepFunctions(n, PresentSignature)
  BY <1>3 DEF StepFunctions
<1>5. PICK f : Takes(f, a, step, n, PresentSignature)
  <2>1. n \in Nat
    BY <1>1
  <2> HIDE DEF a, n, step
  <2> QED
    BY <1>2, <1>4, <2>1, StepsExist, Zenon
<1>6. \A i \in 1..n : f[i] = MergeInner(f[i - 1], w[i])
  <2> SUFFICES ASSUME NEW i \in 1..n PROVE f[i] = MergeInner(f[i - 1], w[i])
    OBVIOUS
  <2>1. f[i - 1] \in PresentSignature
    BY <1>1, <1>5 DEF Takes
  <2> QED
    BY <1>5, <2>1 DEF Takes
<1>a. f \in [0..n -> PresentSignature] /\ f[0] = a
  BY <1>5, Zenon DEF Takes
<1>7. R(f)
  <2> DEFINE g == [i \in 0..n |-> IF i = 0 THEN a ELSE MergeInner(f[i - 1], w[i])]
  <2>1. \A i \in 0..n : f[i] = g[i]
    <3> HIDE DEF a
    <3> QED
      BY <1>1, <1>a, <1>6
  <2> QED
    BY <1>a, <2>1
<1>8. R(h)
  BY <1>7, Zenon
<1>9. SignatureOf(s, w) = h[n]
  BY Zenon DEF SignatureOf
<1>10. PICK H : R(H) /\ SignatureOf(s, w) = H[n]
  BY <1>8, <1>9, Zenon
<1>11. H[0] = a /\ \A i \in 1..n : H[i] = MergeInner(H[i - 1], w[i])
  <2>1. H = [i \in 0..n |-> IF i = 0 THEN a ELSE MergeInner(H[i - 1], w[i])] /\ n \in Nat
    BY <1>1, <1>10
  <2> HIDE DEF a, n
  <2>2. \A i \in 0..n : H[i] = IF i = 0 THEN a ELSE MergeInner(H[i - 1], w[i])
    BY <2>1, Zenon
  <2> QED
    BY <2>1, <2>2
<1>12. H = f
  <2>1. 0..n \subseteq {i \in 0..n : H[i] = f[i]}
    <3> DEFINE E == {i \in 0..n : H[i] = f[i]}
    <3>1. 0 \in E
      <4>1. 0 \in 0..n
        BY <1>1
      <4>2. H[0] = f[0]
        BY <1>a, <1>11, Zenon
      <4> QED
        BY <4>1, <4>2, Zenon
    <3>2. ASSUME NEW i \in 1..n, i - 1 \in E PROVE i \in E
      BY <1>1, <1>6, <1>11, <3>2
    <3> HIDE DEF E
    <3>3. 0..n \subseteq E
      BY <1>1, <3>1, <3>2, Climbs
    <3> QED
      BY <3>3 DEF E
  <2> QED
    BY <1>a, <1>10, <2>1
<1>13. CollectsInner(f, a, w)
  <2> HIDE DEF a
  <2> QED
    BY <1>a, <1>6 DEF CollectsInner
<1> QED
  BY <1>10, <1>12, <1>13

LEMMA MergesOuter ==
    ASSUME NEW m \in FacadeMessage, NEW f \in OuterField, OuterRefusal(f) = "none"
    PROVE  MergeOuter(m, f) \in FacadeMessage
<1>1. /\ f.blob \in Blobs /\ f.inner \in Seq(InnerField) /\ f.type # "cut"
      /\ f.num = 2 => CarrierRefusal(f.inner) = "none"
  BY DEF OuterField, FieldOf, OuterRefusal
<1>2. CASE f.num = 1
  BY <1>1, <1>2 DEF MergeOuter, FacadeMessage
<1>3. CASE f.num = 2
  <2>1. m.signature \in FacadeSignature
    BY DEF FacadeMessage
  <2>2. PICK h : /\ CollectsInner(h, [m.signature EXCEPT !.present = TRUE], f.inner)
                 /\ SignatureOf(m.signature, f.inner) = h[Len(f.inner)]
    BY <1>1, <1>3, <2>1, SignatureCollected
  <2>3. Len(f.inner) \in Nat
    BY <1>1, LenProperties
  <2>4. SignatureOf(m.signature, f.inner) \in FacadeSignature
    BY <2>2, <2>3 DEF CollectsInner, FacadeSignature
  <2>5. MergeOuter(m, f) = [m EXCEPT !.signature = SignatureOf(@, f.inner)]
    BY <1>3 DEF MergeOuter
  <2> QED
    BY <2>4, <2>5 DEF FacadeMessage
<1>4. CASE f.num \notin {1, 2}
  <2>1. Append(m.unknown, f) \in Seq(KeptOuter)
    BY <1>1, <1>4, AppendProperties DEF KeptOuter, FacadeMessage
  <2>2. MergeOuter(m, f) = [m EXCEPT !.unknown = Append(@, f)]
    BY <1>4 DEF MergeOuter
  <2> QED
    BY <2>1, <2>2 DEF FacadeMessage
<1> QED
  BY <1>2, <1>3, <1>4

\* A function collects those of an artifact.
CollectsOuter(h, w) ==
    /\ h \in [0..Len(w) -> FacadeMessage] /\ h[0] = EmptyMessage
    /\ \A i \in 1..Len(w) : h[i] = MergeOuter(h[i - 1], w[i])

LEMMA ArtifactCollected ==
    ASSUME NEW w \in Seq(OuterField), ArtifactRefusal(w) = "none"
    PROVE  \E h : CollectsOuter(h, w) /\ ArtifactOf(w) = h[Len(w)]
<1> DEFINE n == Len(w)
           a == EmptyMessage
           step == [i \in 1..n |-> [x \in FacadeMessage |-> MergeOuter(x, w[i])]]
           R(f) == f = [i \in 0..n |-> IF i = 0 THEN a ELSE MergeOuter(f[i - 1], w[i])]
           h == CHOOSE f : R(f)
<1>1. n \in Nat /\ \A i \in 1..n : w[i] \in OuterField /\ OuterRefusal(w[i]) = "none"
  BY LenProperties, ElementOfSeq, ReadableArtifact
<1>2. a \in FacadeMessage
  BY NoSignatureTyped
<1>3. \A i \in 1..n, x \in FacadeMessage : MergeOuter(x, w[i]) \in FacadeMessage
  BY <1>1, MergesOuter
<1>4. step \in StepFunctions(n, FacadeMessage)
  BY <1>3 DEF StepFunctions
<1>5. PICK f : Takes(f, a, step, n, FacadeMessage)
  <2>1. n \in Nat
    BY <1>1
  <2> HIDE DEF a, n, step
  <2> QED
    BY <1>2, <1>4, <2>1, StepsExist, Zenon
<1>6. \A i \in 1..n : f[i] = MergeOuter(f[i - 1], w[i])
  <2> SUFFICES ASSUME NEW i \in 1..n PROVE f[i] = MergeOuter(f[i - 1], w[i])
    OBVIOUS
  <2>1. f[i - 1] \in FacadeMessage
    BY <1>1, <1>5 DEF Takes
  <2> QED
    BY <1>5, <2>1 DEF Takes
<1>a. f \in [0..n -> FacadeMessage] /\ f[0] = a
  BY <1>5, Zenon DEF Takes
<1>7. R(f)
  <2> DEFINE g == [i \in 0..n |-> IF i = 0 THEN a ELSE MergeOuter(f[i - 1], w[i])]
  <2>1. \A i \in 0..n : f[i] = g[i]
    <3> HIDE DEF a
    <3> QED
      BY <1>1, <1>a, <1>6
  <2> QED
    BY <1>a, <2>1
<1>8. R(h)
  BY <1>7, Zenon
<1>9. ArtifactOf(w) = h[n]
  BY Zenon DEF ArtifactOf
<1>10. PICK H : R(H) /\ ArtifactOf(w) = H[n]
  BY <1>8, <1>9, Zenon
<1>11. H[0] = a /\ \A i \in 1..n : H[i] = MergeOuter(H[i - 1], w[i])
  <2>1. H = [i \in 0..n |-> IF i = 0 THEN a ELSE MergeOuter(H[i - 1], w[i])] /\ n \in Nat
    BY <1>1, <1>10
  <2> HIDE DEF a, n
  <2>2. \A i \in 0..n : H[i] = IF i = 0 THEN a ELSE MergeOuter(H[i - 1], w[i])
    BY <2>1, Zenon
  <2> QED
    BY <2>1, <2>2
<1>12. H = f
  <2>1. 0..n \subseteq {i \in 0..n : H[i] = f[i]}
    <3> DEFINE E == {i \in 0..n : H[i] = f[i]}
    <3>1. 0 \in E
      <4>1. 0 \in 0..n
        BY <1>1
      <4>2. H[0] = f[0]
        BY <1>a, <1>11, Zenon
      <4> QED
        BY <4>1, <4>2, Zenon
    <3>2. ASSUME NEW i \in 1..n, i - 1 \in E PROVE i \in E
      BY <1>1, <1>6, <1>11, <3>2
    <3> HIDE DEF E
    <3>3. 0..n \subseteq E
      BY <1>1, <3>1, <3>2, Climbs
    <3> QED
      BY <3>3 DEF E
  <2> QED
    BY <1>a, <1>10, <2>1
<1>13. CollectsOuter(f, w)
  BY <1>a, <1>6 DEF CollectsOuter
<1> QED
  BY <1>10, <1>12, <1>13

-----------------------------------------------------------------------------
(* A signature reads back as it was written.                               *)

LEMMA SameSignature ==
    ASSUME NEW x \in PresentSignature, NEW y \in PresentSignature,
           x.alg = y.alg, x.keyid = y.keyid, x.octets = y.octets, x.unknown = y.unknown
    PROVE  x = y
<1>1. x = [present |-> TRUE, alg |-> x.alg, keyid |-> x.keyid, octets |-> x.octets, unknown |-> x.unknown]
  BY DEF PresentSignature
<1>2. y = [present |-> TRUE, alg |-> y.alg, keyid |-> y.keyid, octets |-> y.octets, unknown |-> y.unknown]
  BY DEF PresentSignature
<1> QED
  BY <1>1, <1>2, Zenon

\* The fields w are readable and say s.
CarrierSays(w, s) ==
    w \in Seq(InnerField) /\ CarrierRefusal(w) = "none" /\ SignatureOf(NoSignature, w) = s

LEMMA NothingSaysDefault == CarrierSays(<<>>, DefaultSignature)
<1>1. <<>> \in Seq(InnerField) /\ Len(<<>>) = 0
  OBVIOUS
<1>2. CarrierRefusal(<<>>) = "none"
  <2>1. ASSUME NEW w \in Seq(InnerField), Len(w) = 0 PROVE CarrierRefusal(w) = "none"
    <3>1. \A i \in 1..Len(w) : InnerRefusal(w[i]) = "none"
      BY <2>1
    <3> QED
      BY <3>1, ReadableCarrier
  <2> QED
    BY <1>1, <2>1
<1>3. NoSignature \in FacadeSignature
  BY DEF FacadeSignature
<1>4. PICK h : CollectsInner(h, DefaultSignature, <<>>) /\ SignatureOf(NoSignature, <<>>) = h[Len(<<>>)]
  BY <1>1, <1>2, <1>3, SignatureCollected DEF DefaultSignature
<1> QED
  BY <1>1, <1>2, <1>4 DEF CarrierSays, CollectsInner

LEMMA CarrierSaysMore ==
    ASSUME NEW w, NEW s, CarrierSays(w, s), NEW f \in InnerField, InnerRefusal(f) = "none"
    PROVE  CarrierSays(Append(w, f), MergeInner(s, f))
<1> DEFINE n == Len(w)
           v == Append(w, f)
<1>1. w \in Seq(InnerField) /\ n \in Nat /\ CarrierRefusal(w) = "none" /\ NoSignature \in FacadeSignature
  BY LenProperties DEF CarrierSays, FacadeSignature
<1>2. /\ v \in Seq(InnerField) /\ Len(v) = n + 1 /\ v[n + 1] = f
      /\ \A i \in 1..n : v[i] = w[i]
  BY <1>1, AppendProperties
<1>3. CarrierRefusal(v) = "none"
  <2>1. \A i \in 1..n : InnerRefusal(w[i]) = "none"
    BY <1>1, ReadableCarrier
  <2>2. \A i \in 1..(n + 1) : InnerRefusal(v[i]) = "none"
    <3> HIDE DEF v
    <3> QED
      BY <1>1, <1>2, <2>1
  <2> QED
    BY <1>2, <2>2, ReadableCarrier
<1> HIDE DEF v
<1>4. PICK g : CollectsInner(g, DefaultSignature, w) /\ SignatureOf(NoSignature, w) = g[n]
  BY <1>1, SignatureCollected DEF DefaultSignature
<1>5. PICK h : CollectsInner(h, DefaultSignature, v) /\ SignatureOf(NoSignature, v) = h[n + 1]
  BY <1>1, <1>2, <1>3, SignatureCollected DEF DefaultSignature
<1>6. h[n] = g[n]
  <2> DEFINE E == {i \in 0..n : h[i] = g[i]}
  <2>1. 0 \in E
    BY <1>1, <1>4, <1>5 DEF CollectsInner
  <2>2. ASSUME NEW i \in 1..n, i - 1 \in E PROVE i \in E
    BY <1>1, <1>2, <1>4, <1>5, <2>2 DEF CollectsInner
  <2> HIDE DEF E
  <2>3. n \in E
    BY <1>1, <2>1, <2>2, Climbs
  <2> QED
    BY <2>3 DEF E
<1>7. h[n + 1] = MergeInner(h[n], f)
  <2>1. n + 1 \in 1..Len(v) /\ (n + 1) - 1 = n
    BY <1>1, <1>2
  <2>2. h[n + 1] = MergeInner(h[(n + 1) - 1], v[n + 1])
    BY <1>5, <2>1, Zenon DEF CollectsInner
  <2> QED
    BY <1>2, <2>1, <2>2
<1>8. SignatureOf(NoSignature, v) = MergeInner(s, f)
  BY <1>4, <1>5, <1>6, <1>7 DEF CarrierSays
<1> QED
  BY <1>2, <1>3, <1>8 DEF CarrierSays, v

LEMMA CarrierSaysUnknown ==
    ASSUME NEW w, NEW s \in PresentSignature, CarrierSays(w, s), s.unknown = <<>>,
           NEW u \in Seq(KeptInner)
    PROVE  CarrierSays(w \o u, [s EXCEPT !.unknown = u])
<1> DEFINE n == Len(u)
           p(j) == SubSeq(u, 1, j)
           H == {j \in 0..n : CarrierSays(w \o p(j), [s EXCEPT !.unknown = p(j)])}
<1>1. n \in Nat /\ w \in Seq(InnerField) /\ u \in Seq(InnerField)
  BY LenProperties, SeqMonotonic DEF CarrierSays, KeptInner
<1>2. \A j \in 0..n : p(j) \in Seq(KeptInner) /\ p(j) \in Seq(InnerField)
  <2> SUFFICES ASSUME NEW j \in 0..n PROVE p(j) \in Seq(KeptInner)
    BY SeqMonotonic DEF KeptInner
  <2>1. \A i \in 1..j : u[i] \in KeptInner
    BY <1>1, ElementOfSeq
  <2> QED
    BY <1>1, <2>1, SubSeqProperties
<1>3. 0 \in H
  <2>1. p(0) = <<>>
    BY SubSeqEmpty
  <2>2. w \o <<>> = w
    BY <1>1, ConcatEmptySeq
  <2>3. [s EXCEPT !.unknown = <<>>] = s
    <3>1. [s EXCEPT !.unknown = <<>>] \in PresentSignature
      BY DEF PresentSignature
    <3>2. /\ [s EXCEPT !.unknown = <<>>].alg = s.alg /\ [s EXCEPT !.unknown = <<>>].keyid = s.keyid
          /\ [s EXCEPT !.unknown = <<>>].octets = s.octets /\ [s EXCEPT !.unknown = <<>>].unknown = s.unknown
      BY DEF PresentSignature
    <3> QED
      BY <3>1, <3>2, SameSignature
  <2> QED
    <3>1. CarrierSays(w \o p(0), [s EXCEPT !.unknown = p(0)])
      BY <2>1, <2>2, <2>3
    <3>2. 0 \in 0..n
      BY <1>1
    <3> HIDE DEF p
    <3> QED
      BY <3>1, <3>2
<1>4. ASSUME NEW j \in 1..n, j - 1 \in H PROVE j \in H
  <2> DEFINE q == [s EXCEPT !.unknown = p(j - 1)]
             r == [s EXCEPT !.unknown = p(j)]
  <2>1. u[j] \in KeptInner /\ j - 1 \in 0..n /\ j \in 0..n
    BY <1>1, ElementOfSeq
  <2>2. p(j) = Append(p(j - 1), u[j])
    <3>1. p(j) = p(j - 1) \o <<u[j]>>
      BY <1>1, SubSeqRecursiveSecond
    <3>2. Append(p(j - 1), u[j]) = p(j - 1) \o <<u[j]>>
      BY <1>2, <2>1, AppendIsConcat
    <3> QED
      BY <3>1, <3>2
  <2>3. w \o p(j) = Append(w \o p(j - 1), u[j])
    <3>1. /\ p(j - 1) \in Seq(InnerField) /\ <<u[j]>> \in Seq(InnerField) /\ u[j] \in InnerField
          /\ w \o p(j - 1) \in Seq(InnerField)
      BY <1>1, <1>2, <2>1, ConcatProperties DEF KeptInner
    <3>2. (w \o p(j - 1)) \o <<u[j]>> = w \o (p(j - 1) \o <<u[j]>>)
      <4>1. \A x, y, z \in Seq(InnerField) : (x \o y) \o z = x \o (y \o z)
        BY ConcatAssociative
      <4> HIDE DEF p
      <4> QED
        BY <1>1, <3>1, <4>1
    <3>3. Append(w \o p(j - 1), u[j]) = (w \o p(j - 1)) \o <<u[j]>>
      BY <3>1, AppendIsConcat
    <3>4. p(j) = p(j - 1) \o <<u[j]>>
      BY <1>1, SubSeqRecursiveSecond
    <3> QED
      BY <3>2, <3>3, <3>4
  <2>4. MergeInner(q, u[j]) = r
    <3>1. q \in PresentSignature /\ r \in PresentSignature /\ q.unknown = p(j - 1) /\ r.unknown = p(j)
          /\ q.alg = s.alg /\ q.keyid = s.keyid /\ q.octets = s.octets
          /\ r.alg = s.alg /\ r.keyid = s.keyid /\ r.octets = s.octets
      <4>1. p(j - 1) \in Seq(KeptInner) /\ p(j) \in Seq(KeptInner)
        BY <1>2, <2>1
      <4> HIDE DEF p
      <4> QED
        BY <4>1 DEF PresentSignature
    <3> HIDE DEF q, r
    <3>2. MergeInner(q, u[j]) = [q EXCEPT !.unknown = Append(@, u[j])]
      BY <2>1 DEF MergeInner, KeptInner
    <3>3. [q EXCEPT !.unknown = p(j)] = r
      <4>1. p(j) \in Seq(KeptInner)
        BY <1>2, <2>1
      <4> HIDE DEF p
      <4>2. /\ [q EXCEPT !.unknown = p(j)] \in PresentSignature
            /\ [q EXCEPT !.unknown = p(j)].alg = q.alg /\ [q EXCEPT !.unknown = p(j)].keyid = q.keyid
            /\ [q EXCEPT !.unknown = p(j)].octets = q.octets /\ [q EXCEPT !.unknown = p(j)].unknown = p(j)
        BY <3>1, <4>1 DEF PresentSignature
      <4> QED
        BY <3>1, <4>2, SameSignature
    <3>4. [q EXCEPT !.unknown = Append(@, u[j])] = [q EXCEPT !.unknown = p(j)]
      <4>1. Append(q.unknown, u[j]) = p(j)
        BY <2>2, <3>1
      <4> HIDE DEF p
      <4> QED
        BY <4>1
    <3> QED
      BY <3>2, <3>3, <3>4
  <2>5. InnerRefusal(u[j]) = "none" /\ u[j] \in InnerField
    BY <2>1 DEF KeptInner, InnerRefusal
  <2>6. CarrierSays(w \o p(j - 1), q)
    BY <1>4
  <2> HIDE DEF q, r
  <2>7. CarrierSays(w \o p(j), r)
    BY <2>3, <2>4, <2>5, <2>6, CarrierSaysMore
  <2> QED
    BY <2>1, <2>7 DEF r
<1>5. n \in H
  <2>1. n \in Nat /\ n \in 0..n
    BY <1>1
  <2> HIDE DEF H, n
  <2> QED
    BY <1>3, <1>4, <2>1, Climbs
<1> QED
  BY <1>5, SubSeqFull

LEMMA WrittenFields ==
    /\ \A v \in Int : /\ VarintField(1, v) \in InnerField /\ VarintField(1, v).num = 1
                      /\ VarintField(1, v).type = "varint" /\ VarintField(1, v).int = v
    /\ \A n \in Nat, b \in Blobs : /\ LenField(n, b) \in InnerField /\ LenField(n, b).num = n
                                   /\ LenField(n, b).type = "len" /\ LenField(n, b).blob = b
    /\ \A w \in Seq(InnerField), d \in Nat :
            /\ NestedField(2, w, d) \in OuterField /\ NestedField(2, w, d).num = 2
            /\ NestedField(2, w, d).type = "nested" /\ NestedField(2, w, d).inner = w
            /\ NestedField(2, w, d).declared = d
<1>1. ASSUME NEW n \in Nat, NEW v \in Int
      PROVE  /\ VarintField(n, v) \in InnerField /\ VarintField(n, v).num = n
             /\ VarintField(n, v).type = "varint" /\ VarintField(n, v).int = v
  BY FacadeAssumption DEF VarintField, InnerField, FieldOf
<1>2. ASSUME NEW n \in Nat, NEW b \in Blobs
      PROVE  /\ LenField(n, b) \in InnerField /\ LenField(n, b).num = n
             /\ LenField(n, b).type = "len" /\ LenField(n, b).blob = b
  <2>1. VarintField(n, 0) \in InnerField /\ VarintField(n, 0).num = n
    BY <1>1
  <2> QED
    BY <2>1 DEF LenField, InnerField, FieldOf
<1>3. ASSUME NEW w \in Seq(InnerField), NEW d \in Nat
      PROVE  /\ NestedField(2, w, d) \in OuterField /\ NestedField(2, w, d).num = 2
             /\ NestedField(2, w, d).type = "nested" /\ NestedField(2, w, d).inner = w
             /\ NestedField(2, w, d).declared = d
  <2>1. VarintField(2, 0) \in OuterField /\ VarintField(2, 0).num = 2
    BY <1>1, InnerIsOuter
  <2> QED
    BY <2>1 DEF NestedField, OuterField, FieldOf
<1> QED
  BY <1>1, <1>2, <1>3

LEMMA OneMore ==
    ASSUME NEW S, NEW w \in Seq(S), NEW f \in S
    PROVE  w \o <<f>> = Append(w, f) /\ w \o <<>> = w
BY AppendIsConcat, ConcatEmptySeq

LEMMA CarrierReadsBack ==
    ASSUME NEW s \in PresentSignature
    PROVE  CarrierSays(WriteSignature(s), s)
<1> DEFINE a == IF s.alg # 0 THEN <<VarintField(1, s.alg)>> ELSE <<>>
           k == IF s.keyid # "absent" THEN <<LenField(2, s.keyid)>> ELSE <<>>
           o == IF s.octets # "empty" THEN <<LenField(3, s.octets)>> ELSE <<>>
           s1 == [DefaultSignature EXCEPT !.alg = s.alg]
           s2 == [s1 EXCEPT !.keyid = s.keyid]
           s3 == [s2 EXCEPT !.octets = s.octets]
<1>1. /\ s.alg \in Int /\ s.keyid \in Strings \cup {"absent"} /\ s.octets \in Blobs
      /\ s.unknown \in Seq(KeptInner)
  BY DEF PresentSignature
<1>2. /\ s1 \in PresentSignature /\ s1.alg = s.alg /\ s1.keyid = "absent"
      /\ s1.octets = "empty" /\ s1.unknown = <<>>
  BY <1>1, NoSignatureTyped DEF PresentSignature
<1>3. CarrierSays(<<>> \o a, s1)
  <2>1. CASE s.alg # 0
    <3> DEFINE f == VarintField(1, s.alg)
    <3>1. f \in InnerField /\ InnerRefusal(f) = "none"
      BY <1>1, WrittenFields DEF InnerRefusal
    <3>2. MergeInner(DefaultSignature, f) = s1
      BY <1>1, WrittenFields DEF MergeInner
    <3>3. <<>> \o a = Append(<<>>, f)
      BY <2>1, <3>1, OneMore
    <3> HIDE DEF f, a, s1
    <3> QED
      BY <3>1, <3>2, <3>3, NothingSaysDefault, CarrierSaysMore
  <2>2. CASE s.alg = 0
    <3>1. s1 = DefaultSignature
      <4> HIDE DEF s1
      <4> QED
        BY <1>2, <2>2, NoSignatureTyped, SameSignature
    <3>2. <<>> \o a = <<>>
      BY <2>2
    <3> QED
      BY <3>1, <3>2, NothingSaysDefault
  <2> QED
    BY <2>1, <2>2
<1>4. <<>> \o a = a
  BY <1>1, WrittenFields, ConcatEmptySeq
<1> HIDE DEF a
<1>5. CarrierSays(a, s1)
  BY <1>3, <1>4
<1> HIDE DEF s1
<1>6. /\ s2 \in PresentSignature /\ s2.alg = s.alg /\ s2.keyid = s.keyid
      /\ s2.octets = "empty" /\ s2.unknown = <<>>
  BY <1>1, <1>2 DEF PresentSignature
<1>7. CarrierSays(a \o k, s2)
  <2>1. CASE s.keyid # "absent"
    <3> DEFINE f == LenField(2, s.keyid)
    <3>1. s.keyid \in Blobs /\ s.keyid # "not-utf8"
      BY <1>1, <2>1 DEF Strings
    <3>2. f \in InnerField /\ InnerRefusal(f) = "none"
      BY <3>1, WrittenFields DEF InnerRefusal
    <3>3. MergeInner(s1, f) = s2
      <4>1. f.num = 2 /\ f.blob = s.keyid
        BY <3>1, WrittenFields
      <4> HIDE DEF f
      <4> QED
        BY <4>1 DEF MergeInner
    <3>4. a \o k = Append(a, f)
      BY <1>5, <2>1, <3>2, OneMore DEF CarrierSays
    <3> HIDE DEF f, k, s2
    <3> QED
      BY <1>5, <3>2, <3>3, <3>4, CarrierSaysMore
  <2>2. CASE s.keyid = "absent"
    <3>1. s2 = s1
      <4> HIDE DEF s2
      <4> QED
        BY <1>2, <1>6, <2>2, SameSignature
    <3>2. a \o k = a
      BY <1>5, <2>2, ConcatEmptySeq DEF CarrierSays
    <3> QED
      BY <1>5, <3>1, <3>2
  <2> QED
    BY <2>1, <2>2
<1> HIDE DEF k, s2
<1>8. /\ s3 \in PresentSignature /\ s3.alg = s.alg /\ s3.keyid = s.keyid
      /\ s3.octets = s.octets /\ s3.unknown = <<>>
  BY <1>1, <1>6 DEF PresentSignature
<1>9. CarrierSays((a \o k) \o o, s3)
  <2>1. CASE s.octets # "empty"
    <3> DEFINE f == LenField(3, s.octets)
    <3>1. f \in InnerField /\ InnerRefusal(f) = "none"
      BY <1>1, WrittenFields DEF InnerRefusal
    <3>2. MergeInner(s2, f) = s3
      <4>1. f.num = 3 /\ f.blob = s.octets
        BY <1>1, WrittenFields
      <4> HIDE DEF f
      <4> QED
        BY <4>1 DEF MergeInner
    <3>3. (a \o k) \o o = Append(a \o k, f)
      BY <1>7, <2>1, <3>1, OneMore DEF CarrierSays
    <3> HIDE DEF f, o, s3
    <3> QED
      BY <1>7, <3>1, <3>2, <3>3, CarrierSaysMore
  <2>2. CASE s.octets = "empty"
    <3>1. s3 = s2
      <4> HIDE DEF s3
      <4> QED
        BY <1>6, <1>8, <2>2, SameSignature
    <3>2. (a \o k) \o o = a \o k
      BY <1>7, <2>2, ConcatEmptySeq DEF CarrierSays
    <3> QED
      BY <1>7, <3>1, <3>2
  <2> QED
    BY <2>1, <2>2
<1> HIDE DEF o, s3
<1>10. CarrierSays(((a \o k) \o o) \o s.unknown, [s3 EXCEPT !.unknown = s.unknown])
  BY <1>1, <1>8, <1>9, CarrierSaysUnknown
<1>11. [s3 EXCEPT !.unknown = s.unknown] = s
  <2>1. /\ [s3 EXCEPT !.unknown = s.unknown] \in PresentSignature
        /\ [s3 EXCEPT !.unknown = s.unknown].alg = s3.alg
        /\ [s3 EXCEPT !.unknown = s.unknown].keyid = s3.keyid
        /\ [s3 EXCEPT !.unknown = s.unknown].octets = s3.octets
        /\ [s3 EXCEPT !.unknown = s.unknown].unknown = s.unknown
    BY <1>1, <1>8 DEF PresentSignature
  <2> QED
    BY <1>8, <2>1, SameSignature
<1>12. WriteSignature(s) = ((a \o k) \o o) \o s.unknown
  BY DEF WriteSignature, SignatureFields, a, k, o
<1> QED
  BY <1>10, <1>11, <1>12

-----------------------------------------------------------------------------
(* An artifact reads back as it was written.                               *)

LEMMA SameMessage ==
    ASSUME NEW x \in FacadeMessage, NEW y \in FacadeMessage,
           x.payload = y.payload, x.signature = y.signature, x.unknown = y.unknown
    PROVE  x = y
<1>1. x = [payload |-> x.payload, signature |-> x.signature, unknown |-> x.unknown]
  BY DEF FacadeMessage
<1>2. y = [payload |-> y.payload, signature |-> y.signature, unknown |-> y.unknown]
  BY DEF FacadeMessage
<1> QED
  BY <1>1, <1>2, Zenon

\* The fields w are readable and say m.
ArtifactSays(w, m) ==
    w \in Seq(OuterField) /\ ArtifactRefusal(w) = "none" /\ ArtifactOf(w) = m

LEMMA NothingSaysEmpty == ArtifactSays(<<>>, EmptyMessage)
<1>1. <<>> \in Seq(OuterField) /\ Len(<<>>) = 0
  OBVIOUS
<1>2. ArtifactRefusal(<<>>) = "none"
  <2>1. ASSUME NEW w \in Seq(OuterField), Len(w) = 0 PROVE ArtifactRefusal(w) = "none"
    <3>1. \A i \in 1..Len(w) : OuterRefusal(w[i]) = "none"
      BY <2>1
    <3> QED
      BY <3>1, ReadableArtifact
  <2> QED
    BY <1>1, <2>1
<1>4. PICK h : CollectsOuter(h, <<>>) /\ ArtifactOf(<<>>) = h[Len(<<>>)]
  BY <1>1, <1>2, ArtifactCollected
<1> QED
  BY <1>1, <1>2, <1>4 DEF ArtifactSays, CollectsOuter

LEMMA ArtifactSaysMore ==
    ASSUME NEW w, NEW m, ArtifactSays(w, m), NEW f \in OuterField, OuterRefusal(f) = "none"
    PROVE  ArtifactSays(Append(w, f), MergeOuter(m, f))
<1> DEFINE n == Len(w)
           v == Append(w, f)
<1>1. w \in Seq(OuterField) /\ n \in Nat /\ ArtifactRefusal(w) = "none"
  BY LenProperties DEF ArtifactSays
<1>2. /\ v \in Seq(OuterField) /\ Len(v) = n + 1 /\ v[n + 1] = f
      /\ \A i \in 1..n : v[i] = w[i]
  BY <1>1, AppendProperties
<1>3. ArtifactRefusal(v) = "none"
  <2>1. \A i \in 1..n : OuterRefusal(w[i]) = "none"
    BY <1>1, ReadableArtifact
  <2>2. \A i \in 1..(n + 1) : OuterRefusal(v[i]) = "none"
    <3> HIDE DEF v
    <3> QED
      BY <1>1, <1>2, <2>1
  <2> QED
    BY <1>2, <2>2, ReadableArtifact
<1> HIDE DEF v
<1>4. PICK g : CollectsOuter(g, w) /\ ArtifactOf(w) = g[n]
  BY <1>1, ArtifactCollected
<1>5. PICK h : CollectsOuter(h, v) /\ ArtifactOf(v) = h[n + 1]
  BY <1>2, <1>3, ArtifactCollected
<1>6. h[n] = g[n]
  <2> DEFINE E == {i \in 0..n : h[i] = g[i]}
  <2>1. 0 \in E
    BY <1>1, <1>4, <1>5 DEF CollectsOuter
  <2>2. ASSUME NEW i \in 1..n, i - 1 \in E PROVE i \in E
    BY <1>1, <1>2, <1>4, <1>5, <2>2 DEF CollectsOuter
  <2> HIDE DEF E
  <2>3. n \in E
    BY <1>1, <2>1, <2>2, Climbs
  <2> QED
    BY <2>3 DEF E
<1>7. h[n + 1] = MergeOuter(h[n], f)
  <2>1. n + 1 \in 1..Len(v) /\ (n + 1) - 1 = n
    BY <1>1, <1>2
  <2>2. h[n + 1] = MergeOuter(h[(n + 1) - 1], v[n + 1])
    BY <1>5, <2>1, Zenon DEF CollectsOuter
  <2> QED
    BY <1>2, <2>1, <2>2
<1>8. ArtifactOf(v) = MergeOuter(m, f)
  BY <1>4, <1>5, <1>6, <1>7 DEF ArtifactSays
<1> QED
  BY <1>2, <1>3, <1>8 DEF ArtifactSays, v

LEMMA ArtifactSaysUnknown ==
    ASSUME NEW w, NEW m \in FacadeMessage, ArtifactSays(w, m), m.unknown = <<>>,
           NEW u \in Seq(KeptOuter)
    PROVE  ArtifactSays(w \o u, [m EXCEPT !.unknown = u])
<1> DEFINE n == Len(u)
           p(j) == SubSeq(u, 1, j)
           H == {j \in 0..n : ArtifactSays(w \o p(j), [m EXCEPT !.unknown = p(j)])}
<1>1. n \in Nat /\ w \in Seq(OuterField) /\ u \in Seq(OuterField)
  BY LenProperties, SeqMonotonic DEF ArtifactSays, KeptOuter
<1>2. \A j \in 0..n : p(j) \in Seq(KeptOuter) /\ p(j) \in Seq(OuterField)
  <2> SUFFICES ASSUME NEW j \in 0..n PROVE p(j) \in Seq(KeptOuter)
    BY SeqMonotonic DEF KeptOuter
  <2>1. \A i \in 1..j : u[i] \in KeptOuter
    BY <1>1, ElementOfSeq
  <2> QED
    BY <1>1, <2>1, SubSeqProperties
<1>3. 0 \in H
  <2>1. p(0) = <<>>
    BY SubSeqEmpty
  <2>2. w \o <<>> = w
    BY <1>1, ConcatEmptySeq
  <2>3. [m EXCEPT !.unknown = <<>>] = m
    <3>1. [m EXCEPT !.unknown = <<>>] \in FacadeMessage
      BY DEF FacadeMessage
    <3>2. /\ [m EXCEPT !.unknown = <<>>].payload = m.payload
          /\ [m EXCEPT !.unknown = <<>>].signature = m.signature
          /\ [m EXCEPT !.unknown = <<>>].unknown = m.unknown
      BY DEF FacadeMessage
    <3> QED
      BY <3>1, <3>2, SameMessage
  <2> QED
    <3>1. ArtifactSays(w \o p(0), [m EXCEPT !.unknown = p(0)])
      BY <2>1, <2>2, <2>3
    <3>2. 0 \in 0..n
      BY <1>1
    <3> HIDE DEF p
    <3> QED
      BY <3>1, <3>2
<1>4. ASSUME NEW j \in 1..n, j - 1 \in H PROVE j \in H
  <2> DEFINE q == [m EXCEPT !.unknown = p(j - 1)]
             r == [m EXCEPT !.unknown = p(j)]
  <2>1. u[j] \in KeptOuter /\ j - 1 \in 0..n /\ j \in 0..n
    BY <1>1, ElementOfSeq
  <2>2. p(j) = Append(p(j - 1), u[j])
    <3>1. p(j) = p(j - 1) \o <<u[j]>>
      BY <1>1, SubSeqRecursiveSecond
    <3>2. Append(p(j - 1), u[j]) = p(j - 1) \o <<u[j]>>
      BY <1>2, <2>1, AppendIsConcat
    <3> QED
      BY <3>1, <3>2
  <2>3. w \o p(j) = Append(w \o p(j - 1), u[j])
    <3>1. /\ p(j - 1) \in Seq(OuterField) /\ <<u[j]>> \in Seq(OuterField) /\ u[j] \in OuterField
          /\ w \o p(j - 1) \in Seq(OuterField)
      BY <1>1, <1>2, <2>1, ConcatProperties DEF KeptOuter
    <3>2. (w \o p(j - 1)) \o <<u[j]>> = w \o (p(j - 1) \o <<u[j]>>)
      <4>1. \A x, y, z \in Seq(OuterField) : (x \o y) \o z = x \o (y \o z)
        BY ConcatAssociative
      <4> HIDE DEF p
      <4> QED
        BY <1>1, <3>1, <4>1
    <3>3. Append(w \o p(j - 1), u[j]) = (w \o p(j - 1)) \o <<u[j]>>
      BY <3>1, AppendIsConcat
    <3>4. p(j) = p(j - 1) \o <<u[j]>>
      BY <1>1, SubSeqRecursiveSecond
    <3> QED
      BY <3>2, <3>3, <3>4
  <2>4. MergeOuter(q, u[j]) = r
    <3>1. q \in FacadeMessage /\ r \in FacadeMessage /\ q.unknown = p(j - 1) /\ r.unknown = p(j)
          /\ q.payload = m.payload /\ q.signature = m.signature
          /\ r.payload = m.payload /\ r.signature = m.signature
      <4>1. p(j - 1) \in Seq(KeptOuter) /\ p(j) \in Seq(KeptOuter)
        BY <1>2, <2>1
      <4> HIDE DEF p
      <4> QED
        BY <4>1 DEF FacadeMessage
    <3> HIDE DEF q, r
    <3>2. MergeOuter(q, u[j]) = [q EXCEPT !.unknown = Append(@, u[j])]
      BY <2>1 DEF MergeOuter, KeptOuter
    <3>3. [q EXCEPT !.unknown = p(j)] = r
      <4>1. p(j) \in Seq(KeptOuter)
        BY <1>2, <2>1
      <4> HIDE DEF p
      <4>2. /\ [q EXCEPT !.unknown = p(j)] \in FacadeMessage
            /\ [q EXCEPT !.unknown = p(j)].payload = q.payload
            /\ [q EXCEPT !.unknown = p(j)].signature = q.signature
            /\ [q EXCEPT !.unknown = p(j)].unknown = p(j)
        BY <3>1, <4>1 DEF FacadeMessage
      <4> QED
        BY <3>1, <4>2, SameMessage
    <3>4. [q EXCEPT !.unknown = Append(@, u[j])] = [q EXCEPT !.unknown = p(j)]
      <4>1. Append(q.unknown, u[j]) = p(j)
        BY <2>2, <3>1
      <4> HIDE DEF p
      <4> QED
        BY <4>1
    <3> QED
      BY <3>2, <3>3, <3>4
  <2>5. OuterRefusal(u[j]) = "none" /\ u[j] \in OuterField
    BY <2>1 DEF KeptOuter, OuterRefusal
  <2>6. ArtifactSays(w \o p(j - 1), q)
    BY <1>4
  <2> HIDE DEF q, r
  <2>7. ArtifactSays(w \o p(j), r)
    BY <2>3, <2>4, <2>5, <2>6, ArtifactSaysMore
  <2> QED
    BY <2>1, <2>7 DEF r
<1>5. n \in H
  <2>1. n \in Nat /\ n \in 0..n
    BY <1>1
  <2> HIDE DEF H, n
  <2> QED
    BY <1>3, <1>4, <2>1, Climbs
<1> QED
  BY <1>5, SubSeqFull

LEMMA ArtifactReadsBack ==
    ASSUME NEW m \in FacadeMessage
    PROVE  ArtifactSays(WriteArtifact(m), m)
<1> DEFINE a == IF m.payload # "empty" THEN <<LenField(1, m.payload)>> ELSE <<>>
           f == NestedField(2, WriteSignature(m.signature), NestedLength(m.signature))
           c == IF m.signature.present THEN <<f>> ELSE <<>>
           m1 == [EmptyMessage EXCEPT !.payload = m.payload]
           m2 == [m1 EXCEPT !.signature = m.signature]
<1>1. m.payload \in Blobs /\ m.signature \in FacadeSignature /\ m.unknown \in Seq(KeptOuter)
  BY DEF FacadeMessage
<1>2. /\ m1 \in FacadeMessage /\ m1.payload = m.payload /\ m1.signature = NoSignature
      /\ m1.unknown = <<>>
  <2>1. EmptyMessage.signature = NoSignature /\ EmptyMessage.unknown = <<>>
    BY DEF EmptyMessage
  <2> QED
    BY <1>1, <2>1, NoSignatureTyped DEF FacadeMessage
<1>3. CarrierSays(<<>>, DefaultSignature) /\ EmptyMessage.payload = "empty"
      /\ EmptyMessage.signature = NoSignature /\ EmptyMessage.unknown = <<>>
  BY NothingSaysDefault DEF EmptyMessage
<1>4. ArtifactSays(<<>> \o a, m1)
  <2>1. CASE m.payload # "empty"
    <3> DEFINE g == LenField(1, m.payload)
    <3>1. g \in InnerField /\ g.num = 1 /\ g.type = "len" /\ g.blob = m.payload
      BY <1>1, WrittenFields
    <3>2. <<>> \o a = Append(<<>>, g)
      BY <2>1, <3>1, OneMore
    <3> HIDE DEF g, a
    <3>3. g \in OuterField /\ OuterRefusal(g) = "none"
      BY <3>1, InnerIsOuter DEF OuterRefusal
    <3>4. MergeOuter(EmptyMessage, g) = m1
      BY <3>1 DEF MergeOuter
    <3> HIDE DEF m1
    <3> QED
      BY <3>2, <3>3, <3>4, NothingSaysEmpty, ArtifactSaysMore
  <2>2. CASE m.payload = "empty"
    <3>1. m1 = EmptyMessage
      <4> HIDE DEF m1
      <4> QED
        BY <1>2, <1>3, <2>2, NoSignatureTyped, SameMessage
    <3>2. <<>> \o a = <<>>
      BY <2>2
    <3> QED
      BY <3>1, <3>2, NothingSaysEmpty
  <2> QED
    BY <2>1, <2>2
<1>5. <<>> \o a = a
  BY <1>1, WrittenFields, ConcatEmptySeq
<1> HIDE DEF a
<1>6. ArtifactSays(a, m1)
  BY <1>4, <1>5
<1> HIDE DEF m1
<1>7. /\ m2 \in FacadeMessage /\ m2.payload = m.payload /\ m2.signature = m.signature
      /\ m2.unknown = <<>>
  BY <1>1, <1>2 DEF FacadeMessage
<1>8. ArtifactSays(a \o c, m2)
  <2>1. CASE m.signature \in PresentSignature
    <3>1. m.signature.present
      BY <2>1 DEF PresentSignature
    <3>2. CarrierSays(WriteSignature(m.signature), m.signature)
      BY <2>1, CarrierReadsBack
    <3>3. /\ NestedLength(m.signature) = InnerLen(WriteSignature(m.signature))
          /\ NestedLength(m.signature) \in Nat
      BY <3>2, InnerLenIsNat DEF NestedLength, CarrierSays
    <3>4. /\ f \in OuterField /\ f.num = 2 /\ f.type = "nested"
          /\ f.inner = WriteSignature(m.signature) /\ f.declared = NestedLength(m.signature)
      BY <3>2, <3>3, WrittenFields DEF CarrierSays
    <3>5. a \o c = Append(a, f)
      BY <1>6, <3>1, <3>4, OneMore DEF ArtifactSays
    <3> HIDE DEF f, c
    <3>6. OuterRefusal(f) = "none"
      BY <3>2, <3>3, <3>4 DEF OuterRefusal, CarrierSays
    <3>7. SignatureOf(m1.signature, f.inner) = m.signature
      BY <1>2, <3>2, <3>4 DEF CarrierSays
    <3>8. MergeOuter(m1, f) = m2
      BY <3>4, <3>7 DEF MergeOuter
    <3> HIDE DEF m2
    <3> QED
      BY <1>6, <3>4, <3>5, <3>6, <3>8, ArtifactSaysMore
  <2>2. CASE m.signature = NoSignature
    <3>1. ~m.signature.present
      BY <2>2 DEF NoSignature
    <3>2. m2 = m1
      <4> HIDE DEF m2
      <4> QED
        BY <1>2, <1>7, <2>2, SameMessage
    <3>3. a \o c = a
      BY <1>6, <3>1, ConcatEmptySeq DEF ArtifactSays
    <3> QED
      BY <1>6, <3>2, <3>3
  <2> QED
    BY <1>1, <2>1, <2>2 DEF FacadeSignature
<1>9. WriteArtifact(m) = (a \o c) \o m.unknown
  BY DEF WriteArtifact, a
<1> HIDE DEF c, f, m2
<1>10. ArtifactSays((a \o c) \o m.unknown, [m2 EXCEPT !.unknown = m.unknown])
  BY <1>1, <1>7, <1>8, ArtifactSaysUnknown
<1>11. [m2 EXCEPT !.unknown = m.unknown] = m
  <2>1. /\ [m2 EXCEPT !.unknown = m.unknown] \in FacadeMessage
        /\ [m2 EXCEPT !.unknown = m.unknown].payload = m2.payload
        /\ [m2 EXCEPT !.unknown = m.unknown].signature = m2.signature
        /\ [m2 EXCEPT !.unknown = m.unknown].unknown = m.unknown
    BY <1>1, <1>7 DEF FacadeMessage
  <2> QED
    BY <1>7, <2>1, SameMessage
<1> QED
  BY <1>9, <1>10, <1>11

-----------------------------------------------------------------------------
(* The facade always holds messages that can be written, and views of       *)
(* messages that can be read; what its encoders add says what it holds.    *)

FacadeInv ==
    /\ message \in FacadeMessage
    /\ viewing \in BOOLEAN
    /\ viewing => view \in Seq(OuterField) /\ ArtifactRefusal(view) = "none"
    /\ destination \in Seq(OuterField)

LEMMA ArtifactTyped ==
    ASSUME NEW w \in Seq(OuterField), ArtifactRefusal(w) = "none"
    PROVE  ArtifactOf(w) \in FacadeMessage
<1>1. PICK h : CollectsOuter(h, w) /\ ArtifactOf(w) = h[Len(w)]
  BY ArtifactCollected
<1>2. Len(w) \in Nat
  BY LenProperties
<1> QED
  BY <1>1, <1>2 DEF CollectsOuter

LEMMA CarrierTyped ==
    ASSUME NEW w \in Seq(InnerField), CarrierRefusal(w) = "none"
    PROVE  SignatureOf(NoSignature, w) \in PresentSignature
<1>1. PICK h : CollectsInner(h, DefaultSignature, w) /\ SignatureOf(NoSignature, w) = h[Len(w)]
  BY SignatureCollected DEF DefaultSignature, FacadeSignature
<1>2. Len(w) \in Nat
  BY LenProperties
<1> QED
  BY <1>1, <1>2 DEF CollectsInner

LEMMA DecodedIsReadable ==
    ASSUME NEW limit, NEW w, DecodeAnswer(limit, w) = Ok
    PROVE  ArtifactRefusal(w) = "none"
<1>1. \A why : Failed("decode", why).kind = "decode" /\ Ok.kind = "ok"
  BY DEF Failed, Ok
<1>2. \A why : Failed("decode", why) # Ok
  BY <1>1
<1> QED
  BY <1>2 DEF DecodeAnswer

\* What may be written.
LEMMA SourceIsWritten ==
    ASSUME FacadeInv
    PROVE  /\ Source \in FacadeMessage
           /\ Written("artifact") = WriteArtifact(Source)
           /\ Written("signature") = WriteSignature(Source.signature)
           /\ Written("artifact") \in Seq(OuterField)
           /\ Source.signature.present =>
                /\ Source.signature \in PresentSignature
                /\ Written("signature") \in Seq(InnerField)
                /\ Written("signature") \in Seq(OuterField)
<1>1. Source \in FacadeMessage
  BY ArtifactTyped DEF FacadeInv, Source
<1>2. /\ Written("artifact") = WriteArtifact(Source)
      /\ Written("signature") = WriteSignature(Source.signature)
  BY DEF Written, WriteArtifactRef, WriteSignatureRef, Source
<1>3. Written("artifact") \in Seq(OuterField)
  BY <1>1, <1>2, ArtifactReadsBack DEF ArtifactSays
<1>4. Source.signature.present => Source.signature \in PresentSignature
  BY <1>1 DEF FacadeMessage, FacadeSignature, NoSignature
<1>5. Source.signature.present => Written("signature") \in Seq(InnerField)
  BY <1>2, <1>4, CarrierReadsBack DEF CarrierSays
<1> QED
  BY <1>1, <1>2, <1>3, <1>4, <1>5, InnerIsOuter

LEMMA FacadeStarts == FacadeInit => FacadeInv
BY NoSignatureTyped, FacadeAssumption DEF FacadeInit, FacadeInv

\* A change of the message that keeps it one.
LEMMA MutatesMessage ==
    ASSUME FacadeInv, NEW m \in FacadeMessage, Mutate(m)
    PROVE  FacadeInv'
BY DEF FacadeInv, Mutate

LEMMA FacadeStep == FacadeInv /\ [FacadeNext]_facadeVars => FacadeInv'
<1> SUFFICES ASSUME FacadeInv, [FacadeNext]_facadeVars PROVE FacadeInv'
  OBVIOUS
<1>1. ASSUME NEW w \in Incoming, NEW limit \in Limits, DecodeArtifact(w, limit) PROVE FacadeInv'
  <2>1. w \in Seq(OuterField)
    BY FacadeAssumption
  <2>2. answer' = Ok => ArtifactRefusal(w) = "none"
    BY <1>1, DecodedIsReadable DEF DecodeArtifact
  <2>3. message' \in FacadeMessage
    BY <1>1, <2>1, <2>2, ArtifactTyped DEF DecodeArtifact, FacadeInv
  <2> QED
    BY <1>1, <2>3 DEF DecodeArtifact, FacadeInv
<1>2. ASSUME NEW w \in Incoming, NEW limit \in Limits, DecodeRef(w, limit) PROVE FacadeInv'
  <2>1. w \in Seq(OuterField)
    BY FacadeAssumption
  <2>2. answer' = Ok => ArtifactRefusal(w) = "none"
    BY <1>2, DecodedIsReadable DEF DecodeRef
  <2>3. viewing' = (answer' = Ok) /\ (viewing' => view' = w) /\ UNCHANGED <<message, destination>>
    BY <1>2 DEF DecodeRef
  <2>4. viewing' \in BOOLEAN /\ (viewing' => ArtifactRefusal(view') = "none" /\ view' \in Seq(OuterField))
    BY <2>1, <2>2, <2>3, Zenon
  <2> QED
    BY <2>3, <2>4 DEF FacadeInv
<1>3. ASSUME NEW w \in IncomingCarriers, DecodeSignature(w) PROVE FacadeInv'
  <2>1. w \in Seq(InnerField)
    BY FacadeAssumption
  <2>2. answer' = Ok => CarrierRefusal(w) = "none"
    <3>1. Failed("decode", CarrierRefusal(w)).kind = "decode" /\ Ok.kind = "ok"
      BY DEF Failed, Ok
    <3> QED
      BY <1>3, <3>1 DEF DecodeSignature
  <2>3. answer' = Ok => SignatureOf(NoSignature, w) \in FacadeSignature
    BY <2>1, <2>2, CarrierTyped DEF FacadeSignature
  <2>4. message' \in FacadeMessage
    BY <1>3, <2>3 DEF DecodeSignature, FacadeInv, FacadeMessage
  <2> QED
    BY <1>3, <2>4 DEF DecodeSignature, FacadeInv
<1>4. CASE ToOwned
  BY <1>4, ArtifactTyped DEF ToOwned, FacadeInv
<1>s. message.signature \in FacadeSignature
  BY DEF FacadeInv, FacadeMessage
<1>t. \A s \in FacadeSignature : [message EXCEPT !.signature = s] \in FacadeMessage
  BY DEF FacadeInv, FacadeMessage
<1>p. message.signature.present => message.signature \in PresentSignature
  BY <1>s DEF FacadeSignature, NoSignature
<1>5. ASSUME NEW b \in Strings, SetPayload(b) PROVE FacadeInv'
  <2>1. [message EXCEPT !.payload = b] \in FacadeMessage
    BY DEF FacadeInv, FacadeMessage, Strings
  <2> QED
    BY <1>5, <2>1, MutatesMessage DEF SetPayload
<1>6. ASSUME NEW b \in Strings, SetSignatureOctets(b) PROVE FacadeInv'
  <2>1. [message.signature EXCEPT !.octets = b] \in FacadeSignature
    BY <1>6, <1>p DEF SetSignatureOctets, PresentSignature, FacadeSignature, Strings
  <2>2. [message EXCEPT !.signature.octets = b] = [message EXCEPT !.signature = [message.signature EXCEPT !.octets = b]]
    BY DEF FacadeInv, FacadeMessage
  <2> QED
    BY <1>6, <1>t, <2>1, <2>2, MutatesMessage DEF SetSignatureOctets
<1>7. ASSUME NEW k \in Strings \cup {"absent"}, SetKeyid(k) PROVE FacadeInv'
  <2>1. [message.signature EXCEPT !.keyid = k] \in FacadeSignature
    BY <1>7, <1>p DEF SetKeyid, PresentSignature, FacadeSignature
  <2>2. [message EXCEPT !.signature.keyid = k] = [message EXCEPT !.signature = [message.signature EXCEPT !.keyid = k]]
    BY DEF FacadeInv, FacadeMessage
  <2> QED
    BY <1>7, <1>t, <2>1, <2>2, MutatesMessage DEF SetKeyid
<1>8. ASSUME NEW v \in Algorithms, SetAlgorithmWireValue(v) PROVE FacadeInv'
  <2>1. [message.signature EXCEPT !.alg = v] \in FacadeSignature
    BY <1>8, <1>p, FacadeAssumption DEF SetAlgorithmWireValue, PresentSignature, FacadeSignature
  <2>2. [message EXCEPT !.signature.alg = v] = [message EXCEPT !.signature = [message.signature EXCEPT !.alg = v]]
    BY DEF FacadeInv, FacadeMessage
  <2> QED
    BY <1>8, <1>t, <2>1, <2>2, MutatesMessage DEF SetAlgorithmWireValue
<1>9. CASE SetSignature
  <2>1. [message EXCEPT !.signature = DefaultSignature] \in FacadeMessage
    BY <1>t, NoSignatureTyped DEF FacadeSignature
  <2> QED
    BY <1>9, <2>1, MutatesMessage DEF SetSignature
<1>10. CASE TakeSignature
  <2>1. [message EXCEPT !.signature = NoSignature] \in FacadeMessage
    BY <1>t DEF FacadeSignature
  <2> QED
    BY <1>10, <2>1, MutatesMessage DEF TakeSignature
<1>11. CASE DiscardUnknownFields
  <2> DEFINE m == [message EXCEPT !.unknown = <<>>, !.signature.unknown = <<>>]
             s == [message.signature EXCEPT !.unknown = <<>>]
  <2>1. s \in FacadeSignature
    <3>1. CASE message.signature \in PresentSignature
      <4>1. <<>> \in Seq(KeptInner)
        BY EmptySeq
      <4> QED
        BY <3>1, <4>1 DEF PresentSignature, FacadeSignature
    <3>2. CASE message.signature = NoSignature
      <4>1. [NoSignature EXCEPT !.unknown = <<>>] = NoSignature
        BY DEF NoSignature
      <4> QED
        BY <3>2, <4>1 DEF FacadeSignature
    <3> QED
      BY <1>s, <3>1, <3>2 DEF FacadeSignature
  <2>2. m \in FacadeMessage
    <3>1. m = [[message EXCEPT !.unknown = <<>>] EXCEPT !.signature = s]
      BY DEF FacadeInv, FacadeMessage
    <3> HIDE DEF s
    <3>2. [[message EXCEPT !.unknown = <<>>] EXCEPT !.signature = s] \in FacadeMessage
      <4>1. <<>> \in Seq(KeptOuter)
        BY EmptySeq
      <4> QED
        BY <2>1, <4>1 DEF FacadeInv, FacadeMessage
    <3> QED
      BY <3>1, <3>2
  <2> QED
    BY <1>11, <2>2, MutatesMessage DEF DiscardUnknownFields
<1>12. CASE ViewArtifact
  BY <1>12 DEF ViewArtifact, FacadeInv
<1>13. ASSUME NEW part \in {"artifact", "signature"}, NEW limit \in Limits, Encode(part, limit)
       PROVE  FacadeInv'
  <2>1. Written(part) \in Seq(OuterField)
    BY <1>13, SourceIsWritten DEF Encode
  <2>2. destination' \in Seq(OuterField)
    BY <1>13, <2>1, ConcatProperties DEF Encode, FacadeInv
  <2> QED
    BY <1>13, <2>2 DEF Encode, FacadeInv
<1>14. CASE ReadBack
  BY <1>14, ArtifactTyped, FacadeAssumption DEF ReadBack, FacadeInv
<1>15. CASE Clear
  BY <1>15, FacadeAssumption DEF Clear, FacadeInv
<1>16. CASE UNCHANGED facadeVars
  BY <1>16 DEF facadeVars, FacadeInv
<1> QED
  BY <1>1, <1>2, <1>3, <1>4, <1>5, <1>6, <1>7, <1>8, <1>9, <1>10, <1>11, <1>12, <1>13, <1>14, <1>15, <1>16
     DEF FacadeNext

LEMMA AddedBehind ==
    ASSUME NEW S, NEW x \in Seq(S), NEW y \in Seq(S)
    PROVE  /\ SubSeq(x \o y, 1, Len(x)) = x
           /\ SubSeq(x \o y, Len(x) + 1, Len(x \o y)) = y
<1> DEFINE z == x \o y
           front == SubSeq(z, 1, Len(x))
           rest == SubSeq(z, Len(x) + 1, Len(z))
<1>1. Len(x) \in Nat /\ Len(y) \in Nat
  BY LenProperties
<1>2. /\ z \in Seq(S) /\ Len(z) = Len(x) + Len(y)
      /\ \A i \in 1..Len(x) : z[i] = x[i]
      /\ \A i \in 1..Len(y) : z[Len(x) + i] = y[i]
  <2>1. \A i \in 1..(Len(x) + Len(y)) : z[i] = IF i <= Len(x) THEN x[i] ELSE y[i - Len(x)]
    BY ConcatProperties
  <2> HIDE DEF z
  <2>2. \A i \in 1..Len(x) : z[i] = x[i]
    BY <1>1, <2>1
  <2>3. ASSUME NEW i \in 1..Len(y) PROVE z[Len(x) + i] = y[i]
    <3>1. Len(x) + i \in 1..(Len(x) + Len(y)) /\ ~(Len(x) + i <= Len(x)) /\ (Len(x) + i) - Len(x) = i
      BY <1>1
    <3> QED
      BY <2>1, <3>1
  <2> QED
    BY <2>2, <2>3, ConcatProperties DEF z
<1> HIDE DEF z
<1>3. \A i \in 1..Len(z) : z[i] \in S
  BY <1>2, ElementOfSeq
<1>4. /\ front \in Seq(S) /\ Len(front) = Len(x)
      /\ \A i \in 1..Len(x) : front[i] = z[i]
  <2>1. \A i \in 1..Len(x) : z[i] \in S
    BY <1>1, <1>2, <1>3
  <2> QED
    BY <1>1, <2>1, SubSeqProperties
<1>5. /\ rest \in Seq(S) /\ Len(rest) = Len(y)
      /\ \A i \in 1..Len(y) : rest[i] = z[Len(x) + i]
  <2>1. \A i \in (Len(x) + 1)..Len(z) : z[i] \in S
    BY <1>1, <1>2, <1>3
  <2> QED
    BY <1>1, <1>2, <2>1, SubSeqProperties
<1> HIDE DEF front, rest
<1>6. front = x
  BY <1>2, <1>4, SeqEqual
<1>7. rest = y
  BY <1>2, <1>5, SeqEqual
<1> QED
  BY <1>6, <1>7 DEF z, front, rest

\* What the size checks answer.
LEMMA PreflightAnswers ==
    ASSUME NEW limit \in Limits, NEW size \in Nat
    PROVE  /\ Preflight(limit, size) = Ok => size <= FormatCeiling /\ ~OverCeiling(limit, size)
           /\ Preflight(limit, size) # Ok =>
                /\ OverCeiling(limit, size) => Preflight(limit, size).kind = "resource"
                /\ size > FormatCeiling \/ OverCeiling(limit, size)
                /\ Preflight(limit, size).why = "output_too_large" => Preflight(limit, size).observed = size
<1>1. /\ FormatCeiling \in Nat /\ PlatformMaximum \in Nat /\ FormatCeiling <= PlatformMaximum
      /\ limit \in Int /\ (limit = NoLimits => ~OverCeiling(limit, size))
  BY FacadeAssumption DEF NoLimits, OverCeiling
<1>2. /\ Ok.kind = "ok" /\ Failed("format", "message_too_large").kind = "format"
      /\ Failed("format", "message_too_large").why = "message_too_large"
      /\ Failed("resource", "size_overflow").why = "size_overflow"
      /\ Failed("resource", "size_overflow").kind = "resource"
      /\ OverLimit("output_too_large", size).kind = "resource"
      /\ OverLimit("output_too_large", size).observed = size
  BY DEF Ok, Failed, OverLimit
<1>3. CASE size > PlatformMaximum
  <2>1. size > FormatCeiling
    BY <1>1, <1>3
  <2> QED
    BY <1>1, <1>2, <1>3, <2>1 DEF Preflight, CheckProtobufSize
<1>4. CASE ~(size > PlatformMaximum)
  <2>1. CASE limit # NoLimits /\ OverCeiling(limit, size)
    BY <1>2, <1>4, <2>1 DEF Preflight
  <2>2. CASE limit = NoLimits \/ ~OverCeiling(limit, size)
    <3>1. Preflight(limit, size) = CheckProtobufSize(size) /\ ~OverCeiling(limit, size)
      BY <1>1, <1>4, <2>2 DEF Preflight
    <3>2. CheckProtobufSize(size) = IF size > FormatCeiling THEN Failed("format", "message_too_large") ELSE Ok
      BY <1>4 DEF CheckProtobufSize
    <3> QED
      BY <1>1, <1>2, <3>1, <3>2
  <2> QED
    BY <2>1, <2>2
<1> QED
  BY <1>3, <1>4

LEMMA EncodeIsFaithful ==
    ASSUME FacadeInv, NEW part \in {"artifact", "signature"}, NEW limit \in Limits, Encode(part, limit)
    PROVE  Faithful(part, limit)
<1> DEFINE w == Written(part)
           added == SubSeq(destination', Len(destination) + 1, Len(destination'))
<1>1. /\ answer' = Preflight(limit, OuterLen(w))
      /\ answer' = Ok => destination' = destination \o w
      /\ answer' # Ok => destination' = destination
      /\ part = "signature" => Source.signature.present
  BY DEF Encode
<1>2. w \in Seq(OuterField) /\ destination \in Seq(OuterField)
  BY <1>1, SourceIsWritten DEF FacadeInv
<1>3. OuterLen(w) \in Nat
  BY <1>2, OuterLenIsNat
<1>4. Decodes(part, w) /\ IF part = "artifact" THEN ArtifactOf(w) = Source
                          ELSE SignatureOf(NoSignature, w) = Source.signature
  <2>1. CASE part = "artifact"
    <3>1. ArtifactSays(w, Source)
      BY <2>1, SourceIsWritten, ArtifactReadsBack
    <3> QED
      BY <2>1, <3>1 DEF Decodes, ArtifactSays
  <2>2. CASE part = "signature"
    <3>1. CarrierSays(w, Source.signature)
      BY <1>1, <2>2, SourceIsWritten, CarrierReadsBack
    <3> QED
      BY <2>2, <3>1 DEF Decodes, CarrierSays
  <2> QED
    BY <2>1, <2>2
<1>5. CASE answer' = Ok
  <2>1. added = w /\ SubSeq(destination', 1, Len(destination)) = destination
    BY <1>1, <1>2, <1>5, AddedBehind
  <2>2. OuterLen(w) <= FormatCeiling /\ ~OverCeiling(limit, OuterLen(w))
    BY <1>1, <1>3, <1>5, PreflightAnswers
  <2> HIDE DEF w
  <2> QED
    BY <1>4, <1>5, <2>1, <2>2 DEF Faithful
<1>6. CASE answer' # Ok
  BY <1>1, <1>3, <1>6, PreflightAnswers DEF Faithful
<1> QED
  BY <1>5, <1>6

\* Whatever message a caller has built, decoded, changed or borrowed, an
\* encoder that succeeds has added what reads back as that message, unknown
\* fields included, of the promised size and within the limits; one that fails
\* has added nothing and had a cause (encode_facade_into, write_facade_wire).
THEOREM EncodesFaithfully == FacadeSpec => EncodingFaithful
<1>1. FacadeInv /\ [FacadeNext]_facadeVars
        => [facadeVars' # facadeVars =>
              \A part \in {"artifact", "signature"}, limit \in Limits :
                  Encode(part, limit) => Faithful(part, limit)]_facadeVars
  BY EncodeIsFaithful
<1> QED
  BY <1>1, FacadeStarts, FacadeStep, PTL DEF FacadeSpec, EncodingFaithful

=============================================================================
