--------------------------- MODULE MCSigningSession ---------------------------
(* SizeUniverse walks every admission check and every size boundary with one *)
(* operation that is alone; with RaceUniverse operations share the service.  *)
EXTENDS SigningSession

Payload(id, len, utf8, bom, lf) ==
    [id |-> id, len |-> len, utf8 |-> utf8, bom |-> bom, lf |-> lf]

Keyid(present, len, escapes, newline) ==
    [present |-> present, len |-> len, escapes |-> escapes, newline |-> newline]

NoKeyid == Keyid(FALSE, 0, 0, FALSE)

Base == [api |-> "async", qualified |-> TRUE, form |-> "yaml", alg |-> "ed25519",
         variant |-> "ed25519", boundAlg |-> "ed25519", key |-> InitialKey,
         params |-> FALSE, append |-> TRUE, bounded |-> TRUE, max |-> 0,
         keyid |-> NoKeyid, payload |-> Payload(0, 5, TRUE, FALSE, TRUE)]

\* Varint lengths change at 128 and 16384: for the payload, and for the carrier
\* (68 + 2 or 3 + keyid) at keyid lengths 57 and 58.
SizedPayloads ==
    { Payload(0, len, TRUE, FALSE, lf) : len \in {1, 127, 128, 16383, 16384}, lf \in BOOLEAN }
      \cup { Payload(0, 0, TRUE, FALSE, FALSE) }

SizedKeyids ==
    { NoKeyid } \cup { Keyid(TRUE, len, 0, FALSE) : len \in {1, 57, 58, 1024} }
      \cup { Keyid(TRUE, 8, 3, FALSE) }

\* A payload that ends with a newline is the same with and without append.
Sized ==
    { [Base EXCEPT !.form = form, !.payload = payload, !.keyid = keyid,
                   !.append = append \/ payload.lf] :
        form \in Forms, payload \in SizedPayloads, keyid \in SizedKeyids, append \in BOOLEAN }

\* Ceilings around every projected and every emitted size.
Ceilings(q) ==
    UNION { {n - 1, n, n + 1} :
        n \in {ProjectedSize(q)}
               \cup { EmittedSize(q, PreparedPayload(q), [plain |-> plain]) : plain \in BOOLEAN } }

AtTheCeiling == UNION { { [q EXCEPT !.max = max] : max \in Ceilings(q) } : q \in Sized }

\* Invalid parameters, content and keys, alone and together with a ceiling
\* that is too low, through every entry point.
Defects ==
    { [Base EXCEPT !.api = api, !.form = form, !.variant = variant, !.boundAlg = boundAlg,
                   !.alg = alg, !.params = params, !.keyid = keyid, !.payload = payload,
                   !.append = append \/ payload.lf, !.bounded = bounded,
                   !.max = IF bounded THEN max ELSE 0] :
        api \in Apis, form \in Forms, variant \in Algs, boundAlg \in Algs, alg \in Algs,
        params \in BOOLEAN,
        keyid \in {NoKeyid, Keyid(TRUE, 0, 0, FALSE), Keyid(TRUE, 1025, 0, FALSE),
                   Keyid(TRUE, 4, 0, TRUE)},
        payload \in {Payload(0, 5, TRUE, FALSE, FALSE), Payload(0, 5, FALSE, FALSE, TRUE),
                     Payload(0, 5, TRUE, TRUE, TRUE)},
        append \in BOOLEAN, bounded \in BOOLEAN, max \in {0, 10} }

\* Typing of the code: a native key has one algorithm and is always checked.
Typed(q) == q.api = "native" => q.boundAlg = q.variant /\ q.qualified

SizeUniverse == AtTheCeiling \cup { q \in Defects : Typed(q) }

\* Two contents, one framed as YAML with a newline to append, one as protobuf,
\* checked and unchecked, awaited and called back; YAML is bounded at the size
\* of its plain signature.
RaceUniverse ==
    LET yaml  == [Base EXCEPT !.payload = Payload(1, 5, TRUE, FALSE, FALSE)]
        proto == [Base EXCEPT !.payload = Payload(2, 5, TRUE, FALSE, FALSE), !.form = "proto"]
        tight == [yaml EXCEPT !.max = EmittedSize(yaml, PreparedPayload(yaml), [plain |-> TRUE])]
    IN  { [q EXCEPT !.api = api, !.qualified = qualified] :
            q \in {tight, proto}, api \in {"callback", "async"}, qualified \in BOOLEAN }

BigMessage == 16460

AllRequests == SizeUniverse \cup RaceUniverse

Begins(r, q) == Refuse(r, q) \/ SignNatively(r, q) \/ CallProvider(r, q)

\* The operations begun so far share the service.
Racing == \A r \in Requests : phase[r] # "idle" => request[r] \in RaceUniverse

\* Next, with the sized requests made one per behaviour and the key of the
\* service left alone meanwhile.
MCNext ==
    \/ \E r \in Requests, q \in RaceUniverse : Racing /\ Begins(r, q)
    \/ /\ \A r \in Requests : phase[r] = "idle"
       /\ rotations = 0
       /\ \E q \in SizeUniverse : Begins(CHOOSE r \in Requests : TRUE, q)
    \/ \E r \in Requests : Resume(r) \/ DropFuture(r) \/ ServiceAnswers(r)
    \/ Racing /\ RotateKey

MCSpec ==
    /\ Init /\ [][MCNext]_vars
    /\ \A r \in Requests : WF_vars(Resume(r)) /\ WF_vars(ServiceAnswers(r))
=============================================================================
