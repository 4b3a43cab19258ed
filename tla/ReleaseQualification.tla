-------------------------- MODULE ReleaseQualification --------------------------
(***************************************************************************)
(* What the release commands of xtask/src/github.rs read before anything   *)
(* is published: `qualify', `rebind-policy' and `start-support'.           *)
(*                                                                         *)
(* The repository is a growing graph of commits with two protected         *)
(* branches.  A commit holds policy files, the list of those a support     *)
(* line starts with, and the inventory of the support line: its anchor, a  *)
(* commit of main, and the files the line must share with it.  Maintainers *)
(* merge anything; neither branch is ever reset.  What GitHub and          *)
(* crates.io say of the source (`evidence') is in pages of limited length. *)
(*                                                                         *)
(* Commits are immutable, so everything a command computes from the        *)
(* commits it has fetched is one step; what may change between two         *)
(* requests is read in steps of its own.                                   *)
(***************************************************************************)
EXTENDS Integers, Sequences, FiniteSets

CONSTANTS
    Paths,        \* policy files of the repository
    Blobs,        \* their possible contents
    Packages,     \* packages of the selected family
    Evidence,     \* what GitHub and the registry may hold of a source
    PageSize,     \* entries on a page
    MaxEntries,   \* entries of a crate archive that are inspected
    None,         \* no inventory, no branch, no answer
    Malformed,    \* an inventory that is not one
    MaxCommits,   \* bound: commits
    MaxAttempts   \* bound: attempts of the original run

SignaturePullRequest == {"maintainer", "other"}

PullRequest ==
    [merged : BOOLEAN, release : BOOLEAN, canonical : BOOLEAN, merges : BOOLEAN, commits : Nat,
     signer : SignaturePullRequest, sameTree : BOOLEAN, files : Seq({"manifest", "package", "other"})]

Commit == [verified : BOOLEAN, parents : Nat]

RegistryRecord ==
    [record : {"exact", "other"}, checksum : BOOLEAN, entries : Seq({"other", "info", "bad"}),
     packagedFrom : {"source", "other"}]

WorkflowRun == [attempt : 1..MaxAttempts, done : BOOLEAN, left : SUBSET (1..MaxAttempts), exact : BOOLEAN]

\* checkout: both checkouts are exact and clean; tags: annotated tags of the
\* App and published packages name the source; version: of all manifests.
ASSUME EvidenceAssumption ==
    Evidence \subseteq
        [checkout : BOOLEAN, tags : BOOLEAN, version : BOOLEAN, commit : Commit,
         pulls : Seq(PullRequest), crates : [Packages -> RegistryRecord \cup {None}]]

ASSUME QualificationAssumption ==
    /\ None \notin Nat /\ Malformed # None /\ Blobs # {} /\ MaxCommits \in Nat /\ MaxAttempts \in Nat /\ MaxEntries \in Nat
    /\ PageSize \in Nat /\ PageSize > 2 * Cardinality(Packages) + 1

Operations == {"auto", "release", "validate", "recover"}
Branches == {"main", "support"}

VARIABLES
    commits,  \* commits, oldest first; a commit is named by its place
    tip,      \* tip of each protected branch; None before it exists
    proposal, \* inventory the last start-support has printed
    original, \* the publication run a recovery names
    evidence, \* records about the source
    command,  \* command, base_ref, source and attempt it was given
    pc,       \* its next request
    policy,   \* the commit of main it executes
    base,     \* tip of the base_ref as it was first read
    output,   \* what it has appended to GITHUB_OUTPUT
    bound     \* history: fresh support sources that were bound to a main

repository == <<commits, tip>>
world == <<commits, tip, proposal, original, evidence>>
vars == <<world, command, pc, policy, base, output, bound>>

-----------------------------------------------------------------------------
(* The commit graph.                                                       *)

Commits == 1..Len(commits)

Past == LET past[c \in Commits] == {c} \cup UNION {past[p] : p \in commits[c].parents} IN past

Ancestor(older, newer) == older \in Past[newer]

\* git merge-base: the most recent commit both have.
MergeBase(a, b) ==
    CHOOSE c \in Past[a] \cap Past[b] : \A d \in Past[a] \cap Past[b] : d <= c

Blob(c, path) == commits[c].files[path]

\* One regular file that states version 1, this line, full object names and a
\* bounded set of distinct paths; Malformed stands for any other.
WellFormed(inventory) == inventory \notin {None, Malformed}

Covers(inventory) == DOMAIN inventory.blobs

\* seed_inventory: every file that the list of a commit of main names.
SeedInventory(anchor, c) ==
    [anchor |-> anchor, policy |-> c, enforce |-> TRUE,
     blobs |-> [path \in commits[c].seed |-> Blob(c, path)]]

Seeds(c) == commits[c].seed # {} /\ \A path \in commits[c].seed : Blob(c, path) # None

\* The inventory a source records is that of a commit of main, or the seed of
\* one, and both commits hold the bytes it states.
HistoricalChain(main, src, recorded) ==
    /\ Ancestor(recorded.policy, main)
    /\ LET then == commits[recorded.policy].inventory IN
       IF then = None
         THEN /\ recorded.enforce /\ Seeds(recorded.policy)
              /\ Covers(recorded) = commits[recorded.policy].seed
         ELSE /\ WellFormed(then)
              /\ then.anchor = recorded.anchor /\ then.enforce = recorded.enforce
              /\ Covers(recorded) = Covers(then)
    /\ \A path \in Covers(recorded) :
          Blob(src, path) = recorded.blobs[path] /\ Blob(recorded.policy, path) = recorded.blobs[path]

\* Fault: a fresh source need not have a history.
LoadsWithoutChain(main, src, fresh) ==
    LET active == commits[main].inventory
        recorded == commits[src].inventory
    IN  /\ WellFormed(active) /\ ~commits[main].another /\ WellFormed(recorded)
        /\ active.anchor = recorded.anchor
        /\ Ancestor(active.anchor, src) /\ Ancestor(active.anchor, main)
        /\ MergeBase(src, main) = active.anchor
        /\ ~fresh => HistoricalChain(main, src, recorded)
        /\ fresh /\ active.enforce =>
             /\ recorded.enforce /\ Covers(recorded) = Covers(active)
             /\ \A path \in Covers(recorded) :
                  Blob(main, path) = recorded.blobs[path] /\ Blob(src, path) = recorded.blobs[path]

\* Binding::load for a support line; there is nothing to load for main.
Loads(main, src, fresh) ==
    LET active == commits[main].inventory
        recorded == commits[src].inventory
    IN  /\ WellFormed(active) /\ ~commits[main].another /\ WellFormed(recorded)
        /\ active.anchor = recorded.anchor
        /\ Ancestor(active.anchor, src) /\ Ancestor(active.anchor, main)
        /\ MergeBase(src, main) = active.anchor
        /\ HistoricalChain(main, src, recorded)
        /\ fresh /\ active.enforce =>
             /\ recorded.enforce /\ Covers(recorded) = Covers(active)
             /\ \A path \in Covers(recorded) : Blob(main, path) = recorded.blobs[path]

Anchor(main) == commits[main].inventory.anchor

\* Binding::verify_git, and the comparisons of Binding::verify: the source is
\* on the lineage of its base, which has not been merged with main.
OnLineage(line, main, src, b) ==
    /\ Ancestor(src, b)
    /\ line = "support" =>
         \A c \in {src, b} : MergeBase(c, main) = commits[main].inventory.anchor

-----------------------------------------------------------------------------
(* Records about the source.                                               *)

Page(s) == SubSeq(s, 1, IF Len(s) < PageSize THEN Len(s) ELSE PageSize)

Merged(pulls) == {i \in DOMAIN pulls : pulls[i].merged}

\* validate_release_files: a complete list of modified files of the family,
\* with the workspace manifest among them.
FilesCanonical(pull) ==
    LET changed == Len(pull.files)
        files == Page(pull.files)
    IN  /\ changed \in 1..(1 + 2 * Cardinality(Packages)) /\ Len(files) = changed
        /\ \A i \in DOMAIN files : files[i] \in {"manifest", "package"}
        /\ \E i \in DOMAIN files : files[i] = "manifest"

\* The query returns the merge, at most two commits and their number.
Signed(pull) == pull.merges /\ pull.commits = 1 /\ pull.signer = "maintainer"

\* One squash commit of one reviewed commit that a maintainer signed.
Reviewed(commit, pull) ==
    /\ commit.verified /\ commit.parents = 1
    /\ pull.canonical /\ Signed(pull) /\ pull.sameTree
    /\ FilesCanonical(pull)

\* Fault: the page is taken for the inventory.
ClassifyPage(e) ==
    LET page == Page(e.pulls)
        merged == Merged(page)
    IN  IF \A i \in merged : ~page[i].release THEN "ordinary"
        ELSE IF \E i \in merged : merged = {i} /\ Reviewed(e.commit, page[i]) THEN "release"
        ELSE "refused"

\* classify_release_pull_request.
Classify(e) ==
    LET page == Page(e.pulls)
        merged == Merged(page)
    IN  IF Len(page) >= PageSize THEN "refused"
        ELSE IF \A i \in merged : ~page[i].release THEN "ordinary"
        ELSE IF \E i \in merged : merged = {i} /\ Reviewed(e.commit, page[i]) THEN "release"
        ELSE "refused"

\* verify_published_archive: every entry within the limit is looked at, and
\* one of them, a small file, says which clean source was packaged.
ArchiveProves(archive) ==
    LET infos == {i \in DOMAIN archive.entries : archive.entries[i] # "other"} IN
    /\ archive.checksum /\ Len(archive.entries) <= MaxEntries
    /\ Cardinality(infos) = 1 /\ \A i \in infos : archive.entries[i] = "info"
    /\ archive.packagedFrom = "source"

RegistryAgrees(e) ==
    \A k \in Packages : e.crates[k] # None => e.crates[k].record = "exact" /\ ArchiveProves(e.crates[k])

Published(e) == {k \in Packages : e.crates[k] # None}

\* decide; that what is published forms a prefix is checked in ReleaseWorkflow.
Decisions(o, published) ==
    CASE o \in {"auto", "release"} /\ published = {} -> {[publish |-> TRUE, finalize |-> TRUE]}
      [] o = "auto" /\ published = Packages -> {[publish |-> FALSE, finalize |-> FALSE]}
      [] o = "recover" /\ published # {} ->
           {[publish |-> published # Packages, finalize |-> TRUE]}
      [] OTHER -> {}

NoAction == [publish |-> FALSE, finalize |-> FALSE]

-----------------------------------------------------------------------------
(* A command.  Every failed check ends it.                                 *)

Idle == pc = "idle"

Nobody == [op |-> "none", line |-> "main", source |-> 0, attempt |-> 0, fresh |-> TRUE]

Start(o, line, src, n, fresh) ==
    /\ Idle
    /\ command' = [op |-> o, line |-> line, source |-> src, attempt |-> n, fresh |-> fresh]
    /\ pc' = CASE o = "rebind" -> "fetch" [] o = "start" -> "propose" [] OTHER -> "load"
    /\ policy' = tip["main"]
    /\ base' = 0 /\ output' = << >>
    /\ UNCHANGED <<world, bound>>

\* qualify checks what it was given against the operation.
Fits(o, line, fresh) ==
    /\ fresh <=> o # "recover"
    /\ o = "auto" => line = "main"
    /\ o = "release" => line = "support"

Qualify(o, line, src, n) ==
    /\ Fits(o, line, o # "recover") /\ tip[line] # None
    /\ Start(o, line, src, n, o # "recover")

Rebind(line, src, fresh) == tip[line] # None /\ Start("rebind", line, src, 0, fresh)

StartSupport == Start("start", "support", 0, 0, TRUE)

End == pc' = "idle" /\ command' = Nobody /\ policy' = 0 /\ base' = 0

ContinueWith(here, there, passes, b) ==
    /\ pc = here
    /\ IF passes /\ there # "idle" THEN pc' = there /\ base' = b /\ UNCHANGED <<command, policy>>
                                   ELSE End
    /\ UNCHANGED world

Continue(here, there, passes) == ContinueWith(here, there, passes, base)

Bindable(main, src) == command.line = "main" \/ Loads(main, src, command.fresh)

\* Main is what is executed, both checkouts are exact, and the histories fit.
Load ==
    /\ Continue("load", "base",
          tip["main"] = policy /\ evidence.checkout /\ Bindable(policy, command.source))
    /\ UNCHANGED <<output, bound>>

ReadBase(here, there) ==
    LET b == tip[command.line] IN
    /\ ContinueWith(here, there,
          /\ command.fresh => b = command.source
          /\ OnLineage(command.line, policy, command.source, b), b)
    /\ UNCHANGED <<output, bound>>

ReadBaseAgain(here, there) ==
    Continue(here, there, tip[command.line] = base) /\ UNCHANGED <<output, bound>>

Outputs(decision, state) ==
    Append(output, [publish |-> decision.publish, finalize |-> decision.finalize, state |-> state])

\* The first binding has been verified.
ReadMainAgain ==
    /\ Continue("main_again",
          IF command.op = "recover" /\ command.line = "main" THEN "workflow" ELSE "classify",
          tip["main"] = policy)
    /\ UNCHANGED <<output, bound>>

ReadWorkflow ==
    Continue("workflow", "attempt", original.exact) /\ UNCHANGED <<output, bound>>

Completed(n) == n < original.attempt \/ (n = original.attempt /\ original.done)

ReadAttempt ==
    Continue("attempt", "current", Completed(command.attempt)) /\ UNCHANGED <<output, bound>>

\* The run was not started again since.
ReadCurrent ==
    /\ Continue("current", "artifacts", original.attempt = command.attempt /\ original.done)
    /\ UNCHANGED <<output, bound>>

\* Fault: artifacts have been looked at already.
SkipArtifacts == Continue("artifacts", "classify", TRUE) /\ UNCHANGED <<output, bound>>

ReadArtifacts ==
    Continue("artifacts", "classify", original.left = {}) /\ UNCHANGED <<output, bound>>

\* A commit that is no release is nothing to do for a push, and an error for
\* anybody who asked for one.
ReadPulls ==
    LET class == IF command.op = "validate" THEN "ordinary" ELSE Classify(evidence)
        ends == class = "ordinary" /\ command.op \in {"auto", "validate"}
    IN  /\ Continue("classify", IF ends THEN "idle" ELSE "registry", ends \/ class = "release")
        /\ output' = IF ends THEN Outputs(NoAction, "ordinary") ELSE output
        /\ UNCHANGED bound

ReadRegistry ==
    /\ Continue("registry", "verify_base",
          /\ evidence.version /\ RegistryAgrees(evidence)
          /\ Decisions(command.op, Published(evidence)) # {})
    /\ UNCHANGED <<output, bound>>

\* The binding is verified again before anything is said.
Conclude ==
    /\ Continue("verify_main", "idle", TRUE)
    /\ output' = IF tip["main"] # policy THEN output
                 ELSE Outputs(CHOOSE d \in Decisions(command.op, Published(evidence)) : TRUE, "release")
    /\ UNCHANGED bound

\* rebind: one fetch reads both branches.
Fetch ==
    LET b == tip[command.line] IN
    /\ ContinueWith("fetch", "fetch_again",
          /\ evidence.checkout /\ tip["main"] = policy
          /\ Bindable(policy, command.source)
          /\ command.fresh => b = command.source
          /\ OnLineage(command.line, policy, command.source, b), b)
    /\ UNCHANGED <<output, bound>>

\* Fault: only the line is read again.
FetchAgainBase ==
    LET unmoved == tip[command.line] = base IN
    /\ Continue("fetch_again", "idle", unmoved)
    /\ bound' = IF unmoved /\ command.fresh /\ command.line = "support"
                  THEN bound \cup {[source |-> command.source, main |-> policy]} ELSE bound
    /\ UNCHANGED output

\* A second fetch: both branches are still where the histories were read.
FetchAgain ==
    LET unmoved == tip["main"] = policy /\ tip[command.line] = base IN
    /\ Continue("fetch_again", "idle", unmoved)
    /\ bound' = IF unmoved /\ command.fresh /\ command.line = "support"
                  THEN bound \cup {[source |-> command.source, main |-> policy]} ELSE bound
    /\ UNCHANGED output

PublishedSource(anchor) == evidence.tags /\ Ancestor(anchor, policy)

\* start-support: no line is active, and the anchor is a published source on
\* main; nothing is printed when main moves meanwhile.
Propose(anchor) ==
    /\ ContinueWith("propose", "propose_again",
          /\ evidence.checkout /\ PublishedSource(anchor) /\ tip["main"] = policy /\ tip["support"] = None
          /\ commits[policy].inventory = None /\ ~commits[policy].another
          /\ Seeds(policy), anchor)
    /\ UNCHANGED <<output, bound>>

ProposeAgain ==
    /\ pc = "propose_again" /\ End
    /\ proposal' = IF tip["main"] = policy THEN SeedInventory(base, policy) ELSE proposal
    /\ UNCHANGED <<repository, original, evidence, output, bound>>

\* A request fails, or the job ends.
Interrupt ==
    /\ ~Idle /\ End
    /\ UNCHANGED <<world, output, bound>>

-----------------------------------------------------------------------------
(* Maintainers and the original run.                                       *)

MakeCommit(b, c) ==
    /\ Len(commits) < MaxCommits
    /\ commits' = Append(commits, c)
    /\ tip' = [tip EXCEPT ![b] = Len(commits) + 1]
    /\ UNCHANGED <<proposal, original, evidence, command, pc, policy, base, output, bound>>

On(c, parents) == [commits[c] EXCEPT !.parents = parents]

\* Inventories people write: new ones of main, and edited ones.
Refreshed(inventory) ==
    {[inventory EXCEPT !.policy = tip["main"], !.blobs = [path \in ps |-> Blob(tip["main"], path)]] :
        ps \in {s \in SUBSET Paths : s # {} /\ \A path \in s : Blob(tip["main"], path) # None}}

Edited(inventory) ==
    {[inventory EXCEPT !.enforce = ~@]}
    \cup {[inventory EXCEPT !.anchor = c] : c \in Commits}
    \cup {[inventory EXCEPT !.blobs[path] = blob] : path \in Covers(inventory), blob \in Blobs}

ChangeMain ==
    LET m == tip["main"]
        c == On(m, {m})
    IN  \/ \E path \in Paths, blob \in Blobs \cup {None} : MakeCommit("main", [c EXCEPT !.files[path] = blob])
        \/ \E paths \in SUBSET Paths : MakeCommit("main", [c EXCEPT !.seed = paths])
        \/ MakeCommit("main", [c EXCEPT !.another = ~@])
        \/ \E i \in {proposal, None, Malformed} : MakeCommit("main", [c EXCEPT !.inventory = i])
        \/ /\ WellFormed(c.inventory)
           /\ \E i \in Refreshed(c.inventory) \cup Edited(c.inventory) :
                 MakeCommit("main", [c EXCEPT !.inventory = i])

OpenSupport ==
    /\ tip["support"] = None /\ proposal # None
    /\ tip' = [tip EXCEPT !["support"] = proposal.anchor]
    /\ UNCHANGED <<commits, proposal, original, evidence, command, pc, policy, base, output, bound>>

\* A commit of the support line takes files and the inventory of main, or not.
ChangeSupport ==
    /\ tip["support"] # None
    /\ LET m == commits[tip["main"]]
           c == On(tip["support"], {tip["support"]})
       IN  \E taken \in SUBSET Paths :
             \E i \in {c.inventory, m.inventory}
                       \cup (IF WellFormed(m.inventory) THEN Edited(m.inventory) ELSE {}) :
               MakeCommit("support",
                      [c EXCEPT !.files = [path \in Paths |-> IF path \in taken THEN m.files[path] ELSE @[path]],
                                !.inventory = i])

Merge(into, from) ==
    /\ tip["support"] # None
    /\ MakeCommit(into, On(tip[into], {tip[into], tip[from]}))

OriginalRun(next) ==
    /\ original' = next
    /\ UNCHANGED <<repository, proposal, evidence, command, pc, policy, base, output, bound>>

Rerun ==
    /\ original.done /\ original.attempt < MaxAttempts
    /\ OriginalRun([original EXCEPT !.attempt = @ + 1, !.done = FALSE])

Upload == ~original.done /\ OriginalRun([original EXCEPT !.left = @ \cup {original.attempt}])

Complete == ~original.done /\ OriginalRun([original EXCEPT !.done = TRUE])

-----------------------------------------------------------------------------

Root == [parents |-> {}, files |-> [path \in Paths |-> CHOOSE blob \in Blobs : TRUE], seed |-> Paths,
         inventory |-> None, another |-> FALSE]

Init ==
    /\ commits = <<Root>>
    /\ tip = [main |-> 1, support |-> None]
    /\ proposal = None
    /\ original \in {run \in WorkflowRun : run.attempt = 1 /\ ~run.done /\ run.left = {}}
    /\ evidence \in Evidence
    /\ command = Nobody /\ pc = "idle" /\ policy = 0 /\ base = 0
    /\ output = << >> /\ bound = {}

Step ==
    \/ Load
    \/ ReadBase("base", "base_again") \/ ReadBaseAgain("base_again", "main_again") \/ ReadMainAgain
    \/ ReadWorkflow \/ ReadAttempt \/ ReadCurrent \/ ReadArtifacts
    \/ ReadPulls \/ ReadRegistry
    \/ ReadBase("verify_base", "verify_base_again") \/ ReadBaseAgain("verify_base_again", "verify_main")
    \/ Conclude
    \/ Fetch \/ FetchAgain
    \/ (\E anchor \in Commits : Propose(anchor)) \/ ProposeAgain

Maintain ==
    \/ ChangeMain \/ OpenSupport \/ ChangeSupport
    \/ Merge("main", "support") \/ Merge("support", "main")

Next ==
    \/ \E o \in Operations, line \in Branches, c \in Commits, n \in 1..MaxAttempts : Qualify(o, line, c, n)
    \/ \E line \in Branches, c \in Commits, fresh \in BOOLEAN : Rebind(line, c, fresh)
    \/ StartSupport
    \/ Step \/ Interrupt
    \/ Maintain
    \/ Rerun \/ Upload \/ Complete

Spec == Init /\ [][Next]_vars

-----------------------------------------------------------------------------
(* Properties.                                                             *)

\* "Carry every path selected by current protected main with its current
\* bytes": at the moment a source is bound as fresh it is the tip of the support
\* line and holds, in every file of main's inventory, what the tip of main holds,
\* while that is enforced; and in every file of its own inventory what main has
\* held at some time.  Both branches move while rebind reads them.
FreshCarriesPolicy ==
    [][\A b \in bound' \ bound :
        LET active == commits[tip["main"]].inventory
            recorded == commits[b.source].inventory
        IN  /\ b.source = tip["support"] /\ WellFormed(active)
            /\ active.enforce =>
                 \A path \in Covers(active) : Blob(b.source, path) = Blob(tip["main"], path)
            /\ \A path \in Covers(recorded) :
                 \E c \in Past[tip["main"]] : Blob(b.source, path) = Blob(c, path)]_vars

\* Main keeps the line and its anchor, and the lineages are still apart.
Keeps(main, src) ==
    LET active == commits[main].inventory IN
    /\ WellFormed(active) /\ ~commits[main].another
    /\ active.anchor = commits[src].inventory.anchor
    /\ MergeBase(tip["support"], main) = active.anchor

\* "Fresh publication must be recoverable": whatever main and the support line
\* become, a source that was bound as fresh can be bound again by a recovery.
FreshIsRecoverable ==
    \A b \in bound :
        Keeps(tip["main"], b.source) =>
            /\ Loads(tip["main"], b.source, FALSE)
            /\ OnLineage("support", tip["main"], b.source, tip["support"])

\* Whoever publishes was asked to by one merged pull request with one reviewed
\* commit of a maintainer and no unexpected file, though only pages of the
\* inventories were read; and what is published was packaged from the source.
NothingUnseen ==
    \A i \in DOMAIN output : output[i].state = "release" =>
        LET pulls == evidence.pulls IN
        /\ \E j \in DOMAIN pulls :
              /\ Merged(pulls) = {j} /\ pulls[j].commits = 1 /\ pulls[j].signer = "maintainer"
              /\ \A f \in DOMAIN pulls[j].files : pulls[j].files[f] \in {"manifest", "package"}
        /\ \A k \in Published(evidence) : evidence.crates[k].packagedFrom = "source"

\* A recovery of main goes on only after every attempt of the original run up
\* to the one it names has ended and left nothing behind, though the run may
\* be started again between any two of its requests.
OriginalRunSettled ==
    /\ command.op = "recover" /\ command.line = "main"
    /\ pc \in {"classify", "registry", "verify_base", "verify_base_again", "verify_main"}
    => \A n \in 1..command.attempt : Completed(n) /\ n \notin original.left
=============================================================================
