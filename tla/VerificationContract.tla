------------------------- MODULE VerificationContract -------------------------
(***************************************************************************)
(* What a verification call promises, whoever evaluates the equation.  A   *)
(* call has a case: what is true of the artifact, the keys and the options *)
(* it was made with.  The verdict is one the case admits, and somebody is  *)
(* asked only about a well-formed signature of an enabled algorithm with a *)
(* key of that algorithm.  A call that asked may fail or be abandoned.     *)
(***************************************************************************)
CONSTANTS Callers

VARIABLES stage, case, verdict

vars == <<stage, case, verdict>>

Undecided == [none |-> TRUE]

Cases == [oversized: BOOLEAN, params: BOOLEAN, staged: BOOLEAN, expected: BOOLEAN,
          readable: BOOLEAN, sized: BOOLEAN, enabled: BOOLEAN, proper: BOOLEAN,
          keyed: BOOLEAN, genuine: BOOLEAN]

Init ==
    /\ stage = [o \in Callers |-> "new"]
    /\ case = [o \in Callers |-> Undecided]
    /\ verdict = [o \in Callers |-> Undecided]

Sound(t) == t.readable /\ t.sized /\ t.enabled /\ t.proper /\ t.keyed

\* A refusal names something that is the case; Verified needs everything.
Admits(t, result) ==
    CASE result.name = "Verified" -> Sound(t) /\ t.genuine
      [] result.name = "SignedButFailedVerification" -> Sound(t) /\ ~t.genuine
      [] result.name = "SignedButAlgorithmUnsupported" -> t.readable /\ t.sized /\ ~t.enabled
      [] result.name = "MalformedAttemptedSigned" -> ~t.readable \/ ~t.sized \/ (t.enabled /\ ~t.proper)
      [] result.name = "KeyResolutionFailure" -> t.readable /\ t.sized /\ t.enabled /\ ~t.keyed
      [] result.name = "InvalidAlgorithmParameters" -> t.params
      [] result.name = "InvalidPreVerifyResult" -> t.staged /\ ~(t.readable /\ t.expected)
      [] result.name = "InputArtifactTooLarge" -> t.oversized
      [] OTHER -> FALSE

Decide(o, t, result) ==
    /\ stage[o] = "new"
    /\ stage' = [stage EXCEPT ![o] = "decided"]
    /\ Admits(t, result)
    /\ case' = [case EXCEPT ![o] = t]
    /\ verdict' = [verdict EXCEPT ![o] = result]

Ask(o, t) ==
    /\ stage[o] = "new"
    /\ stage' = [stage EXCEPT ![o] = "asked"]
    /\ Sound(t) /\ ~t.params /\ ~t.oversized /\ (t.staged => t.expected)
    /\ case' = [case EXCEPT ![o] = t]
    /\ UNCHANGED verdict

Answer(o, result) ==
    /\ stage[o] = "asked"
    /\ stage' = [stage EXCEPT ![o] = "decided"]
    /\ Admits(case[o], result) \/ result.name = "KeyResolutionFailure"
    /\ verdict' = [verdict EXCEPT ![o] = result]
    /\ UNCHANGED case

Abandon(o) ==
    /\ stage[o] = "asked"
    /\ stage' = [stage EXCEPT ![o] = "abandoned"]
    /\ UNCHANGED <<case, verdict>>

\* case' and verdict' are known at a step of the detailed specification.
Next ==
    \E o \in Callers :
      \/ Decide(o, case'[o], verdict'[o])
      \/ Ask(o, case'[o])
      \/ Answer(o, verdict'[o])
      \/ Abandon(o)

Spec == Init /\ [][Next]_vars
=============================================================================
