--------------------------- MODULE SigningContract ---------------------------
(***************************************************************************)
(* What a signing operation promises its caller, whoever holds the key:    *)
(* the signer is asked at most once and about one message, an artifact     *)
(* frames exactly that message, and an artifact of a checked operation     *)
(* carries a signature of its bound key over the framed message.  An       *)
(* operation may be refused unasked, fail once asked, or be abandoned, and *)
(* then has no artifact.                                                   *)
(***************************************************************************)
CONSTANTS Operations, Messages, Signers

VARIABLES
    stage,    \* "new", "refused", "asked", "failed", "emitted", "abandoned"
    terms,    \* [checked, signer]: what the caller asked for
    message,  \* what the signer was asked to sign, or None
    artifact  \* [payload, signer, signed], or None

vars == <<stage, terms, message, artifact>>

None == [none |-> TRUE]

Init ==
    /\ stage = [o \in Operations |-> "new"]
    /\ terms = [o \in Operations |-> None]
    /\ message = [o \in Operations |-> None]
    /\ artifact = [o \in Operations |-> None]

Terms == [checked: BOOLEAN, signer: Signers]

Refuse(o, t) ==
    /\ stage[o] = "new"
    /\ stage' = [stage EXCEPT ![o] = "refused"]
    /\ terms' = [terms EXCEPT ![o] = t]
    /\ UNCHANGED <<message, artifact>>

Ask(o, t, m) ==
    /\ stage[o] = "new"
    /\ stage' = [stage EXCEPT ![o] = "asked"]
    /\ terms' = [terms EXCEPT ![o] = t]
    /\ message' = [message EXCEPT ![o] = m]
    /\ UNCHANGED artifact

Honours(t, m, a) ==
    /\ a.payload = m
    /\ t.checked => a.signer = t.signer /\ a.signed = m

Emit(o, a) ==
    /\ stage[o] = "asked"
    /\ Honours(terms[o], message[o], a)
    /\ stage' = [stage EXCEPT ![o] = "emitted"]
    /\ artifact' = [artifact EXCEPT ![o] = a]
    /\ UNCHANGED <<terms, message>>

\* A local key asks and answers itself in one step.
SignLocally(o, t, m, a) ==
    /\ stage[o] = "new"
    /\ Honours(t, m, a)
    /\ stage' = [stage EXCEPT ![o] = "emitted"]
    /\ terms' = [terms EXCEPT ![o] = t]
    /\ message' = [message EXCEPT ![o] = m]
    /\ artifact' = [artifact EXCEPT ![o] = a]

FailLocally(o, t, m) ==
    /\ stage[o] = "new"
    /\ stage' = [stage EXCEPT ![o] = "failed"]
    /\ terms' = [terms EXCEPT ![o] = t]
    /\ message' = [message EXCEPT ![o] = m]
    /\ UNCHANGED artifact

Stop(o, how) ==
    /\ stage[o] = "asked"
    /\ stage' = [stage EXCEPT ![o] = how]
    /\ UNCHANGED <<terms, message, artifact>>

\* Artifacts that frame a message.
Artifacts(m) == [payload: {m}, signer: Signers, signed: Messages]

Begin(o) ==
    \E t \in Terms :
        \/ Refuse(o, t)
        \/ \E m \in Messages :
             \/ Ask(o, t, m)
             \/ FailLocally(o, t, m)
             \/ \E a \in Artifacts(m) : SignLocally(o, t, m, a)

End(o) ==
    \/ \E how \in {"failed", "abandoned"} : Stop(o, how)
    \/ \E m \in Messages : \E a \in Artifacts(m) : Emit(o, a)

Next ==
    \E o \in Operations :
        \/ stage[o] = "new" /\ Begin(o)
        \/ stage[o] = "asked" /\ End(o)

Spec == Init /\ [][Next]_vars
=============================================================================
