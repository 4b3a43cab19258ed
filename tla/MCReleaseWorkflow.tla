-------------------------- MODULE MCReleaseWorkflow --------------------------
(***************************************************************************)
(* Small histories for TLC.  "old" and "new" are two versions on main, one *)
(* commit apart.  "stable" and "rc" are a version of main and the          *)
(* pre-release after it, "patch" is a later version than both, released    *)
(* from the support line.                                                  *)
(***************************************************************************)
EXTENDS ReleaseWorkflow

OnMain == [r \in Releases |-> "main"]
OldNew == [r \in Releases |-> IF r = "new" THEN 1 ELSE 0]

PatchOnSupport == [r \in Releases |-> IF r = "patch" THEN "support" ELSE "main"]
Commits == [r \in Releases |-> IF r = "rc" THEN 1 ELSE 0]
Versions == [r \in Releases |-> CASE r = "stable" -> 0 [] r = "rc" -> 1 [] r = "patch" -> 2]
=============================================================================
