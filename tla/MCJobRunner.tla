----------------------------- MODULE MCJobRunner -----------------------------
(***************************************************************************)
(* Instance of JobRunner: a child and a descendant, a limit of one byte on *)
(* each stream, and input.  Only one stream is written to.      *)
(***************************************************************************)
EXTENDS JobRunner

CONSTANTS c, d

MCNext == Next /\ written'["stderr"] = 0

MCSpec ==
    /\ Init /\ [][MCNext]_vars /\ WF_vars(Step) /\ WF_vars(TimePasses)
    /\ \A s \in Streams : WF_vars(Call(s)) /\ WF_vars(ReadSome(s))
=============================================================================
