----------------------- MODULE MCReleasePreparation -----------------------
(***************************************************************************)
(* A Rust package and the Wasm package, versions 5.0 to 5.1 and 6.0 with   *)
(* three candidates each, a support line 5, and commands that ask for the  *)
(* next patch, its candidates, and the next minor, whose family is the first *)
(* to hold both packages.                                                  *)
(***************************************************************************)
EXTENDS ReleasePreparation

V(minor, patch, pre) == [minor |-> minor, patch |-> patch, pre |-> pre]

\* release-plz finds nothing to release, or it derives the next patch, the
\* next minor of a stable version, the next candidate of a candidate.
NextDerivations(v) ==
    {v} \union (IF IsStable(v) THEN {w \in {V(v.minor, v.patch + 1, StableOrdinal), V(6, 0, StableOrdinal)} :
                                        w \in Version /\ Precedes(v, w)}
                ELSE {w \in {[v EXCEPT !.pre = @ + 1]} : ~IsStable(w)})

Asked == {V(5, 1, 1), V(5, 1, 2), V(5, 1, 3), V(5, 1, StableOrdinal), V(6, 0, StableOrdinal)}

Rust(minor, patch, pre) == SourceAt(V(minor, patch, pre), RustPackages)
Wasm(minor, patch, pre) == SourceAt(V(minor, patch, pre), AllPackages)

\* Main at a stable version of the Rust family; the same, ready for the Wasm
\* package; at a coordination stub; at a candidate of either family; and past
\* 6.0, after an abandoned candidate of 5.1.
Found == {<<Rust(5, 0, StableOrdinal), Rust(5, 0, StableOrdinal), Rust(5, 0, StableOrdinal)>>,
          <<Rust(5, 0, StableOrdinal), Rust(5, 0, StableOrdinal), Wasm(5, 0, StableOrdinal)>>,
          <<Rust(5, 0, StableOrdinal), Rust(5, 0, StableOrdinal), Rust(5, 1, 0)>>,
          <<Rust(5, 0, StableOrdinal), Rust(5, 0, StableOrdinal), Rust(5, 1, 1)>>,
          <<Rust(5, 0, StableOrdinal), Rust(5, 0, StableOrdinal), Wasm(6, 0, 1)>>,
          <<Rust(5, 0, StableOrdinal), Rust(5, 1, 1), Wasm(6, 0, StableOrdinal)>>}
=============================================================================
