----------------------------- MODULE ReleaseLedger -----------------------------
(***************************************************************************)
(* What publication promises to a reader of the public records, whatever   *)
(* runs, recoveries and failures produced them: of each release the crates *)
(* appear in dependency order, then package after package a tag and its    *)
(* immutable Release, nothing is taken back, and Latest is the newest      *)
(* stable Release of main.                                                 *)
(***************************************************************************)
EXTENDS Integers

CONSTANTS Releases, K, LineOf, Rank, Stable, NoLatest

Packages == 1..K

VARIABLES
    crates,   \* published crates of each release
    tagged,   \* its packages that have their tag
    released, \* its packages that have their GitHub Release
    latest    \* GitHub's Latest selection

vars == <<crates, tagged, released, latest>>

Newer(x, y) ==
    \/ Rank[x[1]] > Rank[y[1]]
    \/ x[1] = y[1] /\ x[2] > y[2]

Eligible(r) == LineOf[r] = "main" /\ r \in Stable

\* x is the newest of the stable Releases of main.
IsLatest(x, rs) ==
    \/ x = NoLatest /\ \A r \in Releases : Eligible(r) => rs[r] = {}
    \/ \E r \in Releases : Eligible(r) /\ \E k \in rs[r] :
          /\ x = <<r, k>>
          /\ \A s \in Releases : Eligible(s) => \A j \in rs[s] : ~Newer(<<s, j>>, x)

Init ==
    /\ crates = [r \in Releases |-> {}]
    /\ tagged = [r \in Releases |-> {}]
    /\ released = [r \in Releases |-> {}]
    /\ latest = NoLatest

Publish(r, k) ==
    /\ k \notin crates[r] /\ 1..(k - 1) \subseteq crates[r]
    /\ crates' = [crates EXCEPT ![r] = @ \cup {k}]
    /\ UNCHANGED <<tagged, released, latest>>

Tag(r, k) ==
    /\ crates[r] = Packages /\ 1..(k - 1) \subseteq released[r]
    /\ k \notin tagged[r]
    /\ tagged' = [tagged EXCEPT ![r] = @ \cup {k}]
    /\ UNCHANGED <<crates, released, latest>>

Release(r, k) ==
    /\ 1..(k - 1) \subseteq released[r]
    /\ k \in tagged[r] \ released[r]
    /\ released' = [released EXCEPT ![r] = @ \cup {k}]
    /\ latest' \in (Releases \X Packages) \cup {NoLatest}
    /\ IsLatest(latest', released')
    /\ UNCHANGED <<crates, tagged>>

Next == \E r \in Releases, k \in Packages : Publish(r, k) \/ Tag(r, k) \/ Release(r, k)

Spec == Init /\ [][Next]_vars
=============================================================================
