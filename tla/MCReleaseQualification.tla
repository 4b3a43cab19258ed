------------------------ MODULE MCReleaseQualification ------------------------
(***************************************************************************)
(* Instance of ReleaseQualification.  A support line is opened, changed    *)
(* and merged under rebind-policy while the records are in order; and each *)
(* qualification meets records with one deviation from those in order.     *)
(***************************************************************************)
EXTENDS ReleaseQualification

CONSTANTS p, q

Pull == [merged |-> TRUE, release |-> TRUE, canonical |-> TRUE, merges |-> TRUE, commits |-> 1,
         signer |-> "maintainer", sameTree |-> TRUE, files |-> <<"manifest", "package">>]

Unmerged == [Pull EXCEPT !.merged = FALSE]
Ordinary == [Pull EXCEPT !.release = FALSE]

Crate == [record |-> "exact", checksum |-> TRUE, entries |-> <<"other", "info">>, packagedFrom |-> "source"]

InOrder == [checkout |-> TRUE, tags |-> TRUE, version |-> TRUE,
            commit |-> [verified |-> TRUE, parents |-> 1], pulls |-> <<Pull>>,
            crates |-> [k \in {1, 2} |-> None]]

OtherPulls ==
    {[Pull EXCEPT !.canonical = FALSE], [Pull EXCEPT !.merges = FALSE], [Pull EXCEPT !.commits = 2],
     [Pull EXCEPT !.signer = "other"], [Pull EXCEPT !.sameTree = FALSE]}
    \cup {[Pull EXCEPT !.files = files] :
            files \in {<< >>, <<"package">>, <<"manifest", "other">>,
                       <<"manifest", "package", "package", "package", "package", "package", "other">>}}

OtherCrates ==
    {[Crate EXCEPT !.record = "other"], [Crate EXCEPT !.checksum = FALSE],
     [Crate EXCEPT !.packagedFrom = "other"]}
    \cup {[Crate EXCEPT !.entries = entries] :
            entries \in {<<"other">>, <<"bad">>, <<"info", "info">>, <<"other", "other", "other", "info">>}}

MCEvidence ==
    {InOrder, [InOrder EXCEPT !.checkout = FALSE], [InOrder EXCEPT !.tags = FALSE],
     [InOrder EXCEPT !.version = FALSE], [InOrder EXCEPT !.commit.verified = FALSE],
     [InOrder EXCEPT !.commit.parents = 2]}
    \cup {[InOrder EXCEPT !.pulls = pulls] :
            pulls \in {<< >>, <<Ordinary>>, <<Ordinary, Pull>>, <<Unmerged, Pull>>, <<Pull, Pull>>,
                       <<Pull, Unmerged, Unmerged, Unmerged, Unmerged, Unmerged, Pull>>,
                       <<Unmerged, Unmerged, Unmerged, Unmerged, Unmerged, Unmerged, Pull>>}}
    \cup {[InOrder EXCEPT !.pulls = <<pull>>] : pull \in OtherPulls}
    \cup {[InOrder EXCEPT !.crates[1] = crate] : crate \in OtherCrates \cup {Crate}}
    \cup {[InOrder EXCEPT !.crates = [k \in {1, 2} |-> Crate]]}

\* Scenarios: the lines develop while records and run are in order; the
\* original run of main matters to one source; later commits come after a source
\* has been bound.
MCNext ==
    /\ Next
    /\ (evidence # InOrder \/ ~original.exact) => Len(commits') <= 1 /\ tip'["support"] = None
    /\ original' # original => Len(commits) = 1 /\ (Idle \/ command.op = "recover")
    /\ original.attempt > 1 \/ original.done \/ original.left # {} => Len(commits') = 1 /\ tip'["support"] = None
    /\ command'.op \in Operations => Len(commits) <= 2
    /\ Len(commits) <= 2 \/ output' = << >>
    /\ Len(commits') > 4 => bound # {}
    /\ Len(commits') = MaxCommits => pc' = "idle"

MCSpec == Init /\ [][MCNext]_vars
=============================================================================
