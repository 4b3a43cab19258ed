--------------------------- MODULE MCBoundedProcess ---------------------------
(***************************************************************************)
(* Small process tables for TLC.  The descendants other than the direct    *)
(* child are interchangeable, and so are the processes of other threads.   *)
(***************************************************************************)
EXTENDS BoundedProcess, TLC

Interchangeable == Permutations(Family \ {Child}) \cup Permutations(Others)
=============================================================================
