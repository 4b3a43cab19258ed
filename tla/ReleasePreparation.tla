------------------------- MODULE ReleasePreparation -------------------------
(***************************************************************************)
(* The local release commands of xtask: activate a coordination line,      *)
(* prepare one exact version, check a prepared source.  They work on one   *)
(* checkout: the root manifest (workspace version and internal dependency  *)
(* versions), the package manifests that inherit that version, the         *)
(* changelogs, and an ignored root Cargo.lock that tools may leave behind. *)
(* release-plz, Cargo and Git are external.  A command runs in steps, and  *)
(* it may fail or be killed between any two of them; the maintainer then   *)
(* commits or discards what is there and runs another command.             *)
(* Names are distinct from those of ReleaseWorkflow, which publishes what  *)
(* is prepared here.                                                       *)
(***************************************************************************)
EXTENDS Integers, Sequences, FiniteSets

CONSTANTS
    RustPackages,   \* the packages of RUST_POLICY
    WasmPackage,    \* the package that joins the family with WasmMinor
    WasmMinor,      \* the minor version from which ALL_PACKAGES applies
    MaxMinor, MaxPatch, MaxRc,      \* bounds of the versions
    SupportMinors,  \* the minor versions that have a support line
    Derivations(_), \* the versions release-plz update may derive from one
    Requests,       \* the versions maintainers ask for
    Histories,      \* main as it may be found: sequences of trees, oldest first
    MaxCommands,    \* commands a behaviour runs
    MaxCommits,     \* commits it holds
    MaxFaults       \* interruptions and merges by others

ASSUME Bounds == /\ MaxMinor \in Nat /\ MaxPatch \in Nat /\ MaxRc \in Nat
                 /\ SupportMinors \subseteq 0 .. MaxMinor
                 /\ WasmPackage \notin RustPackages

-----------------------------------------------------------------------------
\* Versions: MINOR.PATCH with a candidate ordinal, and StableOrdinal for those
\* that are no candidates, after every candidate.

StableOrdinal == MaxRc + 1

Version == [minor : 0 .. MaxMinor, patch : 0 .. MaxPatch, pre : 0 .. StableOrdinal]

SameCore(v, w) == v.minor = w.minor /\ v.patch = w.patch

Precedes(v, w) ==
    \/ v.minor < w.minor
    \/ v.minor = w.minor /\ v.patch < w.patch
    \/ SameCore(v, w) /\ v.pre < w.pre

IsStable(v) == v.pre = StableOrdinal

AllPackages == RustPackages \union {WasmPackage}

\* release_policy::for_version.
Family(v) == IF v.minor >= WasmMinor THEN AllPackages ELSE RustPackages

ASSUME RequestAssumption == Requests \subseteq Version

\* A line is main or the support line of one minor version.
Main == [support |-> FALSE, minor |-> 0]
SupportLine(m) == [support |-> TRUE, minor |-> m]
ReleaseLines == {Main} \union {SupportLine(m) : m \in SupportMinors}

Admits(line, v) == line.support => v.minor = line.minor

\* A candidate above rc.0 or a stable version; rc.0 only coordinates.
RealRelease(v) == v.pre # 0

\* Fault: the candidates of a support line need not follow one another.
AdvancesAnyOrdinal(line, v, published) ==
    /\ Admits(line, v)
    /\ line.support =>
        LET stables == {p \in published : Admits(line, p) /\ IsStable(p)} IN
        /\ \E s \in stables : /\ \A p \in stables : p.patch <= s.patch
                              /\ v.patch = s.patch + 1
        /\ v \notin published
        /\ RealRelease(v)

\* ReleaseLine::require_advancement: on a support line the next patch after
\* the last stable, its candidates one ordinal at a time.
AdvancesLine(line, v, published) ==
    /\ Admits(line, v)
    /\ line.support =>
        LET stables == {p \in published : Admits(line, p) /\ IsStable(p)}
            latest == {p \in published : /\ SameCore(p, v)
                                         /\ \A q \in published : SameCore(q, v) => q.pre <= p.pre}
        IN  /\ \E s \in stables : /\ \A p \in stables : p.patch <= s.patch
                                  /\ v.patch = s.patch + 1
            /\ v \notin published
            /\ RealRelease(v)
            /\ ~IsStable(v) => \A p \in latest : ~IsStable(p) /\ v.pre = p.pre + 1

\* release.rs, activation_version: a stable current version and a stable
\* target give the target's rc.0, which must come after the current version.
Activated(target) == [target EXCEPT !.pre = 0]

\* Fault: an activation may go back to a line that is already released.
MayActivateAny(current, target) == IsStable(current) /\ IsStable(target)

MayActivate(current, target) ==
    IsStable(current) /\ IsStable(target) /\ Precedes(current, Activated(target))

\* release.rs, require_exact_version_adjustment: the five selections that may
\* replace what release-plz derived.
MayAdjust(original, derived, selected) ==
    \/ /\ SameCore(derived, selected) /\ derived = original
       /\ \/ original.pre = 0 /\ selected.pre > 0
          \/ original.pre \in 1 .. MaxRc /\ selected.pre = original.pre + 1 /\ ~IsStable(selected)
    \/ /\ SameCore(derived, selected) /\ SameCore(original, selected)
       /\ ~IsStable(original) /\ ~IsStable(derived) /\ IsStable(selected)
       /\ ~Precedes(derived, original)
    \/ /\ SameCore(derived, selected)
       /\ IsStable(original) /\ IsStable(derived) /\ ~IsStable(selected)
       /\ Precedes(original, selected)
    \/ /\ IsStable(original) /\ derived = original
       /\ selected.minor = original.minor /\ selected.patch = original.patch + 1
       /\ selected.pre = 1 /\ ~IsStable(selected)

-----------------------------------------------------------------------------
\* Source trees.  A package manifest inherits the workspace version, states a
\* literal one, or differs in something else too.

Inherited == [form |-> "inherited"]
Literal(v) == [form |-> "literal", version |-> v]
Altered(v) == [form |-> "altered", version |-> v]

Manifest == {Inherited} \union [form : {"literal", "altered"}, version : Version]

\* configured: the families whose release-plz configuration is exact;
\* changelogs: the version of their newest entries; stray: a path that no
\* release may change.
Tree == [version : Version, requirements : [RustPackages -> Version],
         manifests : [AllPackages -> Manifest], publishes : SUBSET AllPackages,
         configured : SUBSET {RustPackages, AllPackages},
         changelogs : Version, stray : BOOLEAN]

\* The tree of a coherent source at v whose family is packages.
SourceAt(v, packages) ==
    [version |-> v, requirements |-> [p \in RustPackages |-> v],
     manifests |-> [p \in AllPackages |-> Inherited], publishes |-> packages,
     configured |-> {RustPackages, packages}, changelogs |-> v, stray |-> FALSE]

\* One version everywhere, and every package inherits it.
Coherent(t, v) == /\ t.version = v
                  /\ \A p \in RustPackages : t.requirements[p] = v
                  /\ \A p \in AllPackages : t.manifests[p] = Inherited

\* Main as it is found: a coherent source at each commit, and versions that
\* never go back.
ASSUME HistoryAssumption ==
    \A history \in Histories :
        /\ history \in Seq(Tree) /\ history # <<>>
        /\ \A i \in DOMAIN history : Coherent(history[i], history[i].version)
        /\ \A i, k \in DOMAIN history : i < k => ~Precedes(history[k].version, history[i].version)

\* release-plz derives no version before the one it starts from.
ASSUME DerivationAssumption ==
    \A v \in Version : Derivations(v) \subseteq {w \in Version : ~Precedes(w, v)}

\* The version Cargo reports for a package.
Reported(t, p) == IF t.manifests[p] = Inherited THEN t.version ELSE t.manifests[p].version

\* validate_policy: the configuration of the source version's family is exact.
PolicyExact(t) == Family(t.version) \in t.configured

\* sync_workspace_dependency_versions with check = true: it repairs nothing.
RequirementsAgree(t) == \A p \in RustPackages : t.requirements[p] = t.version

\* versions::validate: exactly the family is publishable, each package has the
\* expected version, and each internal requirement is canonical for it.
PublishesFamily(t, v) == t.publishes = Family(v)
PackagesAgree(t, v) == \A p \in Family(v) : Reported(t, p) = v
RequirementsCanonical(t, v) == \A p \in RustPackages : t.requirements[p] = v

Validates(t, v) == PublishesFamily(t, v) /\ PackagesAgree(t, v) /\ RequirementsCanonical(t, v)

-----------------------------------------------------------------------------
VARIABLES
    tree,       \* the checked out files, ignored ones excepted
    lock,       \* the root Cargo.lock: absent, generated, irregular (no plain file)
    commits,    \* every commit: its tree and its parent (0: none)
    head, branch,   \* the commit and the branch checked out
    tips,       \* origin's tip of each line, 0 while the line does not exist
    tags,       \* the release tags: a version and the commit it names
    vetted,     \* the commits that passed check for a line, or hold an activation
    proposal,   \* the support lines start-support has proposed, with their anchors
    work,       \* the command in progress
    last,       \* how the latest command ended
    commands, faults    \* bounds

commandsVars == <<tree, lock, commits, head, branch, tips, tags, vetted, proposal, work, last, commands, faults>>
repository == <<commits, head, branch, tips, tags, vetted, proposal>>

Idle == [step |-> "idle"]

\* The steps after a tool has run and before the lock it left is removed.
Cleaning == {"updated", "written", "agreed", "validated"}

CommandsInit ==
    /\ \E history \in Histories :
        LET n == Len(history) IN
        /\ commits = [i \in 1 .. n |-> [tree |-> history[i], parent |-> i - 1]]
        /\ head = n /\ tree = history[n]
        /\ tips = [line \in ReleaseLines |-> IF line = Main THEN n ELSE 0]
        /\ tags = {[version |-> history[i].version, commit |-> i] : i \in
                    {k \in 1 .. n : /\ RealRelease(history[k].version)
                                    /\ \A b \in 1 .. k - 1 : history[b].version # history[k].version}}
        /\ vetted = [commit : 1 .. n, line : {Main}]
    /\ branch = [kind |-> "line", line |-> Main]
    /\ lock = "absent" /\ proposal = {}
    /\ work = Idle /\ last = [command |-> "none", ok |-> TRUE]
    /\ commands = 0 /\ faults = 0

-----------------------------------------------------------------------------
\* What the commands read from Git.

Committed == commits[head].tree

\* git status: tracked changes and untracked files; Cargo.lock is ignored.
Clean == tree = Committed

\* A commit and those before it: what belongs to every past that holds the
\* commit and the parents of its own commits; none for 0.
Ancestors(c) ==
    {a \in DOMAIN commits :
        \A past \in SUBSET DOMAIN commits :
            /\ c \in past \union {0}
            /\ \A d \in past : commits[d].parent \in past \union {0}
            => a \in past}

\* release_base::resolve: the line named, the line checked out, or main when
\* its tip is an ancestor of the branch.
Resolves(named, line) ==
    \/ named # {} /\ named = {line}
    \/ named = {} /\ branch.kind = "line" /\ line = branch.line
    \/ /\ named = {} /\ branch.kind # "line"
       /\ line = Main /\ tips[Main] \in Ancestors(head)

AtTip(line) == head = tips[line]

PublishedVersions == {r.version : r \in tags}

\* git tag --merged: the published versions whose tags the line's tip reaches.
Merged(line) == {r.version : r \in {q \in tags : q.commit \in Ancestors(tips[line])}}

RootChanged == \/ tree.version # Committed.version
               \/ tree.requirements # Committed.requirements
ChangedMembers == {p \in AllPackages : tree.manifests[p] # Committed.manifests[p]}

\* require_managed_diff: something changed, and only manifests and changelogs
\* of the current version's family.
ManagedDiff ==
    /\ RootChanged \/ ChangedMembers # {} \/ tree.changelogs # Committed.changelogs
    /\ tree.stray = Committed.stray
    /\ ChangedMembers \subseteq Family(tree.version)

\* require_exact_changed_paths for an activation: the root manifest alone.
OnlyRootChanged ==
    RootChanged /\ tree = [Committed EXCEPT !.version = tree.version,
                                            !.requirements = tree.requirements]

-----------------------------------------------------------------------------
\* Starting a command: every guard comes before the first change.

Begin(command, version, line, step) ==
    work' = [step |-> step, command |-> command, version |-> version, line |-> line,
             original |-> tree.version, derived |-> tree.version, pending |-> {}, failed |-> FALSE]

\* require_root_lock_absent.
LockAbsent == lock = "absent"

\* Fault: the checkout may hold what an earlier command left.
MayPrepareDirty(v, line) ==
    /\ AdvancesLine(line, v, Merged(line)) /\ RealRelease(v)
    /\ PolicyExact(tree) /\ LockAbsent /\ AtTip(line)
    /\ Precedes(tree.version, v)
    /\ branch = [kind |-> "manual", version |-> v]

\* The guards of prepare.
MayPrepare(v, line) ==
    /\ AdvancesLine(line, v, Merged(line)) /\ RealRelease(v)
    /\ PolicyExact(tree) /\ LockAbsent /\ Clean /\ AtTip(line)
    /\ Precedes(tree.version, v)
    /\ branch = [kind |-> "manual", version |-> v]

Prepare(v, line) == MayPrepare(v, line) /\ Begin("prepare", v, line, "update")

\* check: it never asks where HEAD is, nor whether the version advances.
Check(v, line) ==
    /\ Admits(line, v) /\ RealRelease(v)
    /\ PolicyExact(tree) /\ LockAbsent /\ Clean
    /\ tree.version = v
    /\ Begin("check", v, line, "agree")

Activate(target) ==
    /\ MayActivate(tree.version, target)
    /\ LockAbsent /\ Clean /\ AtTip(Main)
    /\ branch = [kind |-> "activate", version |-> target]
    /\ Begin("activate", Activated(target), Main, "select")

\* A maintainer runs a command; it starts, or it is refused (a guard, Git or
\* release-plz --version fails) and has changed nothing.
StartCommand ==
    /\ work = Idle /\ commands < MaxCommands
    /\ \E v \in Requests, command \in {"prepare", "check", "activate"} :
        \/ /\ \/ command = "activate" /\ Activate(v)
              \/ \E named \in {{}} \union {{line} : line \in ReleaseLines}, line \in ReleaseLines :
                    /\ Resolves(named, line)
                    /\ \/ command = "prepare" /\ Prepare(v, line)
                       \/ command = "check" /\ Check(v, line)
           /\ UNCHANGED last
        \/ work' = Idle /\ last' = [command |-> command, ok |-> FALSE]
    /\ commands' = commands + 1
    /\ UNCHANGED <<tree, lock, repository, faults>>

-----------------------------------------------------------------------------
\* The steps of a command.

Goto(step) == work' = [work EXCEPT !.step = step] /\ UNCHANGED last
StopCommand == work' = Idle /\ last' = [command |-> work.command, ok |-> FALSE]

\* The next step when a requirement holds; an error otherwise.
Require(holds, step) == IF holds THEN Goto(step) ELSE StopCommand

\* without_persisted_root_lock: a tool runs on a checkout without a lock; it
\* leaves one of the given trees, its verdict, and possibly a lock.
Tool(step, next, effects) ==
    /\ work.step = step
    /\ IF LockAbsent
       THEN /\ \E e \in effects : /\ tree' = e.tree
                                  /\ work' = [work EXCEPT !.step = next, !.failed = ~e.ok]
            /\ lock' \in {"absent", "generated", "irregular"}
            /\ UNCHANGED last
       ELSE StopCommand /\ UNCHANGED <<tree, lock>>
    /\ UNCHANGED <<repository, commands, faults>>

\* Fault: the tool's error returns before the lock it left is removed.
CleanUpOnSuccess(step, next) ==
    /\ work.step = step
    /\ lock' = IF lock = "generated" /\ ~work.failed THEN "absent" ELSE lock
    /\ Require(~work.failed /\ lock # "irregular", next)
    /\ UNCHANGED <<tree, repository, commands, faults>>

\* remove_generated_root_lock, whatever the tool's verdict: a regular file is
\* removed, anything else stays and is an error.
CleanUp(step, next) ==
    /\ work.step = step
    /\ lock' = IF lock = "generated" THEN "absent" ELSE lock
    /\ Require(~work.failed /\ lock # "irregular", next)
    /\ UNCHANGED <<tree, repository, commands, faults>>

Verdicts(t, ok) == {[tree |-> t, ok |-> ok], [tree |-> t, ok |-> FALSE]}

\* release-plz update (external) writes the version it derives, requirements
\* and changelogs; failing, some of them.  It may touch a path it should not.
UpdateEffects ==
    UNION {LET done == [tree EXCEPT !.version = v, !.changelogs = v,
                                    !.requirements = [p \in RustPackages |-> v]]
           IN  {[tree |-> done, ok |-> TRUE], [tree |-> [done EXCEPT !.stray = TRUE], ok |-> TRUE],
                [tree |-> [tree EXCEPT !.changelogs = v], ok |-> FALSE],
                [tree |-> [tree EXCEPT !.version = v], ok |-> FALSE],
                [tree |-> done, ok |-> FALSE]}
           : v \in Derivations(tree.version)}

Update == Tool("update", "updated", UpdateEffects)
Updated == CleanUp("updated", "derive")

\* snapshot_inherited_manifests: the family's manifests all inherit.
AllInherit == \A p \in Family(tree.version) : tree.manifests[p] = Inherited

\* The derived version is the selected one, or a supported adjustment starts
\* from manifests that all inherit.
Derive ==
    /\ work.step = "derive"
    /\ \/ /\ tree.version = work.version
          /\ Goto("validate")
       \/ /\ tree.version # work.version
          /\ IF MayAdjust(work.original, tree.version, work.version) /\ AllInherit
             THEN work' = [work EXCEPT !.step = "set", !.derived = tree.version] /\ UNCHANGED last
             ELSE StopCommand
    /\ UNCHANGED <<tree, lock, repository, commands, faults>>

\* release-plz set-version (external) states the selected version in the
\* family's manifests and in the requirements; failing, in some of them.  It
\* may also leave the requirements or change more of a manifest; the
\* workspace version is not its own.
SetVersionEffects ==
    LET Stated(packages) == [tree EXCEPT !.manifests = [p \in AllPackages |->
                                IF p \in packages THEN Literal(work.version) ELSE @[p]]]
        Required(t) == [t EXCEPT !.requirements = [p \in RustPackages |-> work.version]]
        all == Stated(Family(work.version))
    IN  {[tree |-> Required(all), ok |-> TRUE], [tree |-> all, ok |-> TRUE],
         [tree |-> [Required(all) EXCEPT !.stray = TRUE], ok |-> TRUE]}
        \union {[tree |-> [Required(all) EXCEPT !.manifests[p] = Altered(work.version)], ok |-> TRUE]
                : p \in Family(work.version)}
        \union {[tree |-> Stated(some), ok |-> FALSE] : some \in SUBSET Family(work.version)}

SetVersion == Tool("set", "written", SetVersionEffects)
Written == CleanUp("written", "managed")

Managed ==
    /\ work.step = "managed"
    /\ Require(ManagedDiff, "compare")
    /\ UNCHANGED <<tree, lock, repository, commands, faults>>

\* Fault: the workspace version is selected before the manifests inherit again.
CompareThenSelect ==
    /\ work.step = "compare"
    /\ IF \A p \in Family(work.derived) : tree.manifests[p] = Literal(work.version)
       THEN /\ work' = [work EXCEPT !.step = "restore", !.pending = Family(work.derived),
                                    !.derived = work.version]
            /\ tree' = [tree EXCEPT !.version = work.version]
            /\ UNCHANGED last
       ELSE StopCommand /\ UNCHANGED tree
    /\ UNCHANGED <<lock, repository, commands, faults>>

\* restore_inherited_manifests: every manifest is compared with its snapshot
\* carrying the selected version before the first one is written back.
Compare ==
    /\ work.step = "compare"
    /\ IF \A p \in Family(work.derived) : tree.manifests[p] = Literal(work.version)
       THEN work' = [work EXCEPT !.step = "restore", !.pending = Family(work.derived)] /\ UNCHANGED last
       ELSE StopCommand
    /\ UNCHANGED <<tree, lock, repository, commands, faults>>

\* One manifest written back; versions::write_manifest replaces it at once.
Restore ==
    /\ work.step = "restore"
    /\ \/ \E p \in work.pending : /\ tree' = [tree EXCEPT !.manifests[p] = Inherited]
                                  /\ work' = [work EXCEPT !.pending = @ \ {p}]
       \/ /\ work.pending = {} /\ work' = [work EXCEPT !.step = "select"]
          /\ UNCHANGED tree
    /\ UNCHANGED <<last, lock, repository, commands, faults>>

\* set_workspace_release_version, only over the version expected there.
Select ==
    /\ work.step = "select"
    /\ IF tree.version = work.derived
       THEN tree' = [tree EXCEPT !.version = work.version] /\ Goto("agree")
       ELSE StopCommand /\ UNCHANGED tree
    /\ UNCHANGED <<lock, repository, commands, faults>>

\* sync_workspace_dependency_versions and the validation it ends with: an
\* activation writes the requirements, the other commands only compare them;
\* check validates the expected version in the same step.
AgreeEffects ==
    IF work.command = "activate"
    THEN LET synced == [tree EXCEPT !.requirements = [p \in RustPackages |-> tree.version]]
         IN  {[tree |-> tree, ok |-> FALSE]}
             \union Verdicts(synced, Validates(synced, tree.version) /\ synced # tree)
    ELSE Verdicts(tree, RequirementsAgree(tree) /\ Validates(tree, tree.version))

Agree == Tool("agree", "agreed", AgreeEffects)
Agreed == CleanUp("agreed", IF work.command = "prepare" THEN "validate" ELSE "finish")

Validate == Tool("validate", "validated", Verdicts(tree, Validates(tree, work.version)))
Validated == CleanUp("validated", "finish")

\* The last guards of each command; a successful check vets the commit.
FinishCommand ==
    /\ work.step = "finish"
    /\ LET ok == /\ LockAbsent
                 /\ CASE work.command = "prepare" -> ManagedDiff
                      [] work.command = "check" -> Clean
                      [] work.command = "activate" -> OnlyRootChanged /\ tree.version = work.version
       IN  /\ last' = [command |-> work.command, ok |-> ok]
           /\ vetted' = vetted \union
                        {r \in {[commit |-> head, line |-> work.line]} : ok /\ work.command = "check"}
    /\ work' = Idle
    /\ UNCHANGED <<tree, lock, commits, head, branch, tips, tags, commands, faults, proposal>>

\* A command dies or meets an I/O error; a write under way leaves its
\* temporary file next to the manifest.
InterruptCommand ==
    /\ work # Idle /\ faults < MaxFaults
    /\ faults' = faults + 1
    /\ StopCommand
    /\ tree' \in {tree} \union IF work.step \in {"restore", "select"}
                               THEN {[tree EXCEPT !.stray = TRUE]} ELSE {}
    /\ UNCHANGED <<lock, repository, commands>>

-----------------------------------------------------------------------------
\* The maintainer, between commands.

\* git add and commit of whatever is there; a finished activation is vetted.
MakeCommit ==
    /\ work = Idle /\ ~Clean /\ Len(commits) < MaxCommits
    /\ commits' = Append(commits, [tree |-> tree, parent |-> head])
    /\ head' = Len(commits) + 1
    /\ vetted' = vetted \union {r \in {[commit |-> Len(commits) + 1, line |-> Main]} :
                                    last = [command |-> "activate", ok |-> TRUE]}
    /\ UNCHANGED <<tree, lock, branch, tips, tags, work, last, commands, faults, proposal>>

Discard ==
    /\ work = Idle /\ ~Clean
    /\ tree' = Committed
    /\ UNCHANGED <<lock, repository, work, last, commands, faults>>

RemoveLock ==
    /\ work = Idle /\ lock # "absent"
    /\ lock' = "absent"
    /\ UNCHANGED <<tree, repository, work, last, commands, faults>>

Branches == {[kind |-> "line", line |-> line] : line \in ReleaseLines}
            \union [kind : {"manual", "activate"}, version : Requests]

\* A branch on the tip of a line.
Checkout ==
    /\ work = Idle /\ Clean
    /\ \E line \in ReleaseLines, b \in Branches :
        /\ tips[line] # 0 /\ (b.kind = "line" => b.line = line)
        /\ head' = tips[line] /\ branch' = b
        /\ tree' = commits[head'].tree
    /\ UNCHANGED <<lock, commits, tips, tags, vetted, proposal, work, last, commands, faults>>

\* A vetted commit on top of the line's tip becomes its tip.
Merge ==
    /\ work = Idle
    /\ \E r \in vetted : /\ tips[r.line] # 0 /\ commits[r.commit].parent = tips[r.line]
                         /\ tips' = [tips EXCEPT ![r.line] = r.commit]
    /\ UNCHANGED <<tree, lock, commits, head, branch, tags, vetted, work, last, commands, faults, proposal>>

\* Someone else's change of the source: a new tip, the same release state.
OthersMerge ==
    /\ work = Idle /\ Len(commits) < MaxCommits
    /\ faults < MaxFaults /\ faults' = faults + 1
    /\ \E line \in ReleaseLines :
        /\ tips[line] # 0
        /\ commits' = Append(commits, [tree |-> commits[tips[line]].tree, parent |-> tips[line]])
        /\ tips' = [tips EXCEPT ![line] = Len(commits) + 1]
    /\ UNCHANGED <<tree, lock, head, branch, tags, vetted, work, last, commands, proposal>>

\* support.rs, select_successor: the line's latest published stable version,
\* and a published stable version of main past the line.
IsAnchor(line, r) ==
    /\ Admits(line, r.version) /\ IsStable(r.version)
    /\ \A q \in tags : Admits(line, q.version) /\ IsStable(q.version)
                        => ~Precedes(r.version, q.version)
Successors(line) == {r \in tags : r.version.minor > line.minor /\ IsStable(r.version)}

\* start-support from a clean checkout of main's tip, while no support line is
\* open: both versions' tags must lie on main.
StartSupport ==
    /\ work = Idle /\ Clean /\ AtTip(Main) /\ PolicyExact(tree)
    /\ \A line \in ReleaseLines \ {Main} : tips[line] = 0
    /\ \E line \in ReleaseLines \ {Main}, anchor \in tags :
        /\ IsAnchor(line, anchor) /\ anchor.commit \in Ancestors(head)
        /\ \E s \in Successors(line) : /\ \A q \in Successors(line) : ~Precedes(s.version, q.version)
                                       /\ s.commit \in Ancestors(head)
        /\ proposal' = {[commit |-> anchor.commit, line |-> line]}
    /\ UNCHANGED <<tree, lock, commits, head, branch, tips, tags, vetted, work, last, commands, faults>>

\* The printed push: the ref must still be absent.
PushSupport ==
    /\ work = Idle
    /\ \E r \in proposal : tips[r.line] = 0 /\ tips' = [tips EXCEPT ![r.line] = r.commit]
    /\ proposal' = {}
    /\ UNCHANGED <<tree, lock, commits, head, branch, tags, vetted, work, last, commands, faults>>

\* The tip of a line is published and tagged; a support version must still
\* follow every published tag (support.rs, require_fresh_progression).
Publish ==
    /\ work = Idle
    /\ \E line \in ReleaseLines :
        LET v == commits[tips[line]].tree.version
        IN  /\ [commit |-> tips[line], line |-> line] \in vetted
            /\ RealRelease(v) /\ v \notin PublishedVersions /\ AdvancesLine(line, v, PublishedVersions)
            /\ tags' = tags \union {[version |-> v, commit |-> tips[line]]}
    /\ UNCHANGED <<tree, lock, commits, head, branch, tips, vetted, work, last, commands, faults, proposal>>

Advance == \/ Update \/ Updated \/ Derive \/ SetVersion \/ Written \/ Managed \/ Compare
           \/ Restore \/ Select \/ Agree \/ Agreed \/ Validate \/ Validated \/ FinishCommand

CommandsNext ==
    \/ StartCommand \/ Advance \/ InterruptCommand
    \/ MakeCommit \/ Discard \/ RemoveLock \/ Checkout \/ Merge \/ OthersMerge
    \/ StartSupport \/ PushSupport \/ Publish

CommandsSpec == CommandsInit /\ [][CommandsNext]_commandsVars

-----------------------------------------------------------------------------
\* Properties.

\* A preparation that reports success leaves the selected version everywhere,
\* inherited by every package, after the version it started from, no lock, no
\* path a release may not change, and HEAD still at a tip it knew; whatever
\* failed or interrupted commands left before (prepare).
PreparedIsCoherent ==
    [][work # Idle /\ work.command = "prepare" /\ work' = Idle /\ last'.ok
        => /\ Coherent(tree', work.version) /\ lock' = "absent"
           /\ Precedes(Committed.version, work.version)
           /\ tree'.stray = Committed.stray /\ head \in {tips[line] : line \in ReleaseLines}]_commandsVars

\* A commit that check accepted, or that holds a finished activation, is
\* coherent: whatever partial preparation a maintainer commits, its literal or
\* mixed versions never pass (check, apply_exact_version).
VettedIsCoherent ==
    \A r \in vetted : Coherent(commits[r.commit].tree, commits[r.commit].tree.version)

\* No tool's lock outlives the tool's own cleanup, whatever the tool's verdict:
\* a command goes on, and it succeeds, only without a lock; one that stops with
\* an error may leave a lock that is no plain file, but never one it could have
\* removed, unless it was killed first (without_persisted_root_lock).
NoLockSurvives ==
    [][/\ work' # Idle /\ work'.step \notin Cleaning => lock' = "absent"
       /\ work # Idle /\ work' = Idle =>
            /\ last'.ok => lock' = "absent"
            /\ faults' = faults => lock' # "generated"]_commandsVars

\* The version at the tip of a line never goes back (activation_version,
\* prepare, validate_release_base).
LinesAdvance ==
    [][\A line \in ReleaseLines : tips[line] # 0 =>
        ~Precedes(commits'[tips'[line]].tree.version, commits[tips[line]].tree.version)]_commandsVars

\* What the versions published on a support line follow: a stable version of
\* the patch before and, once a patch has candidates, the candidate before.
Follows(line, v) ==
    /\ Admits(line, v)
    /\ [v EXCEPT !.patch = @ - 1, !.pre = StableOrdinal] \in PublishedVersions
    /\ (\E q \in PublishedVersions : SameCore(q, v) /\ q.pre < v.pre) /\ ~IsStable(v)
        => [v EXCEPT !.pre = @ - 1] \in PublishedVersions

\* A support line opens only behind main, from its last stable version; from
\* there every patch follows a published stable patch, and its candidates have
\* no gap from the last one main left (support.rs, require_advancement).
SupportLineHasNoGaps ==
    \A line \in ReleaseLines \ {Main} : tips[line] # 0 =>
        /\ \E s \in PublishedVersions : IsStable(s) /\ s.minor > line.minor
        /\ LET own == Ancestors(tips[line]) \ Ancestors(tips[Main])
           IN  \A r \in tags : r.commit \in own => Follows(line, r.version)

=============================================================================
