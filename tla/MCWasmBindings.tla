---------------------------- MODULE MCWasmBindings ----------------------------
(***************************************************************************)
(* Octets are tuples: payload text, form markers, key octets, signatures.  *)
(* Core, Projected, Parses and Signed stand in for the Rust operations:    *)
(* an artifact is payload, marker and carrier, and the carrier of a signed *)
(* one is a signature that names its algorithm, key and payload.           *)
(***************************************************************************)
EXTENDS WasmBindings

X == <<"x">>
Y == <<"y">>
Z == <<"z">>
Secret == <<"secret">>
NoScalar == <<"no scalar">>
Public == <<"public">>
Point == <<"point">>
Marker(form) == <<form>>
Signature(algorithm, key, payload) == <<"signature", algorithm, key, payload>>

Genuine(algorithm, payload) == Signature(algorithm, <<Secret>>, payload)
Artifact(payload, carrier) == payload \o <<Marker("yaml")>> \o carrier

PublicOf(algorithm) == IF algorithm = "p256" THEN <<Point, Public>> ELSE <<Public>>
PairBelongs(public, signing) ==
    public \in {PublicOf(a) : a \in Algorithms} /\ signing = <<Secret>>
\* Only a signature with the secret key is genuine.
AttestedBy(octet) ==
    IF Len(octet) = 4 /\ octet[3] = <<Secret>>
      THEN {[payload |-> octet[4], algorithm |-> octet[2], key |-> PublicOf(octet[2])]}
      ELSE {}
PayloadSigned(payload, algorithm, public) ==
    public = PublicOf(algorithm) /\ algorithm = "ed25519" /\ payload \in {<<X>>, <<Y>>}

Split(artifact, form) == {i \in DOMAIN artifact : artifact[i] = Marker(form)}

Success(output) == [status |-> "success", code |-> "none", output |-> output]

Composed(c, copied) ==
    IF \E i \in DOMAIN copied.second : copied.second[i] = Marker(c.form)
      THEN Failure("error", "invalid_signature_carrier")
      ELSE Success(<<copied.first \o <<Marker(c.form)>> \o copied.second>>)

Decomposed(c, copied) ==
    LET a == copied.first  at == Split(a, c.form) IN
    IF c.outer # "none" THEN Invocation("invalid_or_unsupported_outer_conformance")
    ELSE IF at = {} THEN Failure("unsigned", "none")
    ELSE LET i == CHOOSE n \in at : \A m \in at : m <= n IN
         [status |-> "ok", code |-> "none",
          output |-> <<SubSeq(a, 1, i - 1), SubSeq(a, i + 1, Len(a))>>]

SignedArtifact(c, copied) ==
    IF c.keyid \in {"empty", "long"} THEN Invocation("invalid_keyid")
    ELSE Success(<<copied.first \o <<Marker(c.form),
                     Signature(c.algorithm, copied.second, copied.first)>>>>)

Verified(c, copied) ==
    LET r == Decomposed([c EXCEPT !.outer = "none"], copied) IN
    IF r.status # "ok" THEN r
    ELSE LET payload == r.output[1]  carrier == r.output[2] IN
         IF Len(carrier) # 1 \/ Len(carrier[1]) # 4
           THEN Failure("malformed_attempted_signed", "none")
         ELSE IF carrier[1][2] # c.algorithm
           THEN Failure("signed_but_algorithm_unsupported", "none")
         ELSE IF carrier[1] = Genuine(c.algorithm, payload) /\ copied.second = PublicOf(c.algorithm)
           THEN [status |-> "verified", code |-> "none", output |-> <<payload>>]
           ELSE Failure("signed_but_failed_verification", "none")

RustOperation(c, copied) ==
    CASE c.op = "compose" -> Composed(c, copied)
      [] c.op = "decompose" -> Decomposed(c, copied)
      [] c.op = "sign" -> SignedArtifact(c, copied)
      [] c.op = "verify" -> Verified(c, copied)

\* The exact size of a composition; of a signed artifact all but the signature.
ProjectedSize(c, copied) ==
    Len(copied.first) + 1 + (IF c.op = "compose" THEN Len(copied.second) ELSE 0)

KeyParses(c, octets) ==
    IF c.op = "sign" THEN c.algorithm = "ed25519" \/ octets # <<NoScalar>>
    ELSE octets = PublicOf(c.algorithm)

NeverRejects(artifact, form) == FALSE

KeyLengths == [a \in Algorithms |-> IF a = "p256" THEN 2 ELSE 1]

Held(b) ==
    CASE b = "page" -> {<<X, Y>>}
      [] b = "shm" -> {Artifact(<<X>>, <<Genuine("ed25519", <<X>>)>>)}
      [] b = "heap" -> {<<X>>}
      [] b = "keys" -> {<<Secret, NoScalar, Point, Public>>}
      [] b = "out" -> {<< >>}

\* What the worker writes: text that nobody signed, and a genuine signature.
Written == {Z, Genuine("ed25519", <<Y>>)}

View(b, offset, length) == [buffer |-> b, offset |-> offset, length |-> length]
Whole(b) == View(b, 0, Tracking)

Sources == {Whole("shm"), View("page", 0, 1), Whole("heap")}
Arguments == {Whole("shm"), View("page", 0, 2), Whole("heap"), NotBytes}
SigningKeys == {View("keys", 0, 1), View("keys", 1, 1), View("keys", 0, 2), Whole("heap"), NotBytes}
PublicKeys == {View("keys", 3, 1), View("keys", 2, 2), View("keys", 0, 1), Whole("heap"), NotBytes}
Policies == BOOLEAN

Of(op, first, second, form, algorithm, outer, keyid, limited) ==
    [op |-> op, first |-> first, second |-> second, form |-> form,
     algorithm |-> algorithm, outer |-> outer, keyid |-> keyid, limited |-> limited]

Compositions ==
    {Of("compose", p, c, "yaml", "none", "none", "none", l) :
        p \in {Whole("page")}, c \in Sources, l \in Policies}
    \cup {Of("compose", Whole("shm"), Whole("shm"), "yaml", "none", "none", "none", TRUE)}
    \cup {Of("compose", p, Whole("page"), "yaml", "none", "none", "none", TRUE) : p \in Arguments}
    \cup {Of("compose", Whole("page"), Whole("page"), "YAML", "none", "none", "none", TRUE)}
    \* An artifact as carrier is malformed, and one octet too long for a ceiling of 3.
    \cup {Of("compose", View("page", 0, 0), Whole("out"), "yaml", "none", "none", "none", TRUE)}

Decompositions ==
    {Of("decompose", a, NotBytes, "yaml", "none", "none", "none", TRUE) :
        a \in Arguments \cup {Whole("out")}}
    \cup {Of("decompose", Whole("page"), NotBytes, f, "none", o, "none", FALSE) :
             f \in {"YAML", "protobuf"}, o \in {"strict", "lenient"}}

Signings ==
    {Of("sign", p, View("keys", 0, 1), "yaml", "ed25519", "none", "none", TRUE) : p \in Arguments}
    \cup {Of("sign", Whole("page"), k, "yaml", "p256", "none", "none", FALSE) : k \in SigningKeys}
    \cup {Of("sign", Whole("page"), View("keys", 0, 1), "yaml", "p256", "none", "long", l) : l \in Policies}
    \cup {Of("sign", Whole("page"), View("keys", 0, 1), "yaml", "rsa", "none", "none", TRUE)}

Verifications ==
    {Of("verify", a, View("keys", 3, 1), "yaml", "ed25519", "none", "none", TRUE) :
        a \in Arguments \cup {Whole("out")}}
    \cup {Of("verify", Whole("shm"), k, "yaml", "p256", "none", "none", FALSE) : k \in PublicKeys}
    \cup {Of("verify", Whole("out"), View("keys", 2, 2), "yaml", a, "none", "none", FALSE) : a \in {"p256", "rsa"}}

\* The stand-in keeps what the proofs assume of the Rust operations.
Alphabet ==
    {X, Secret, Public, Point, Marker("yaml"), Genuine("ed25519", <<X>>), Genuine("p256", << >>)}
Texts(n) == UNION {[1..k -> Alphabet] : k \in 0..n}
ASSUME StandInKeeps ==
    \A first \in Texts(3), second \in Texts(2) :
        CoreKeeps([o \in Operands |-> IF o = "first" THEN first ELSE second])

ScriptCalls == Compositions \cup Decompositions \cup Signings \cup Verifications
=============================================================================
