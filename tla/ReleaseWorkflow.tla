---------------------------- MODULE ReleaseWorkflow ----------------------------
(***************************************************************************)
(* Publication of a release: the jobs of .github/workflows/publish.yml and *)
(* the commands `github release qualify', `rebind-policy' and `finalize'   *)
(* of xtask/src/github.rs that they run.                                   *)
(*                                                                         *)
(* A run reads and writes four shared records one request at a time: the   *)
(* protected branches, the crates.io registry, the tags and Releases of    *)
(* the repository, and GitHub's Latest selection.  Between two requests a  *)
(* branch may move, a crate may become visible, someone else may create or *)
(* delete a tag or a Release, and the run may die.  Runs are serialised by *)
(* the concurrency group of the workflow.                                  *)
(*                                                                         *)
(* A tag or a Release is "exact" when it is the one this source and        *)
(* package call for, "foreign" when validate_tag or validate_release would *)
(* reject it.  A POST that was applied but whose answer was lost is read   *)
(* back by the code and continues like one that was answered.              *)
(***************************************************************************)
EXTENDS Integers, FiniteSets

CONSTANTS
    Releases,    \* versions, each with its source commit
    K,           \* number of packages of the family
    LineOf,      \* the line of each release: "main" or "support"
    Position,    \* the commit of each release, counted along its line
    Rank,        \* precedence of the versions
    Stable,      \* versions that are not pre-releases
    NoRelease,   \* no run is in progress
    NoLatest,    \* the repository has no Latest release
    MaxTip,      \* bound: commits on a line
    MaxFailures, \* bound: runs that die, or are denied, cancelled or timed out
    MaxMeddles,  \* bound: changes made by anybody else
    Contested    \* bound: they are made while only these releases were started

Packages == 1..K
Lines == {"main", "support"}
Fresh == {"auto", "release"}
Operations == Fresh \cup {"recover"}
Objects == {"absent", "exact", "foreign"}

ASSUME ReleaseAssumption ==
    /\ K \in Nat \ {0}
    /\ LineOf \in [Releases -> Lines]
    /\ Position \in [Releases -> Nat]
    /\ Rank \in [Releases -> Nat]
    /\ \A r, s \in Releases : Rank[r] = Rank[s] => r = s
    /\ Stable \subseteq Releases
    /\ NoRelease \notin Releases
    /\ NoLatest \notin Releases \X Packages
    /\ MaxTip \in Nat /\ MaxFailures \in Nat /\ MaxMeddles \in Nat
    /\ Contested \subseteq Releases

VARIABLES
    tip,       \* tip of each protected line
    crates,    \* crates of each release that are published
    visible,   \* those the registry reports
    tag,       \* the tag of each release and package
    release,   \* the GitHub Release of each release and package
    latest,    \* GitHub's Latest selection
    started,   \* runs started so far, as <<operation, release>>
    finalized, \* history: releases a run has reported as finalized
    op,        \* operation of the run
    rel,       \* its release, NoRelease between runs
    policy,    \* GITHUB_SHA: the commit of main the run executes
    first,     \* run_attempt is 1
    pc,        \* the next request of the run
    pack,      \* package being finalized
    before,    \* latest::Guard.before
    advance,   \* latest::Guard.advance
    late,      \* history: tags and Releases this run made after losing its binding
    failures,  \* runs that died
    meddles    \* changes made by anybody else

registry == <<crates, visible>>
forge == <<tag, release, latest>>
run == <<op, rel, policy, first>>
guard == <<before, advance>>
vars == <<tip, registry, forge, started, finalized, run, pc, pack, guard, late, failures, meddles>>

-----------------------------------------------------------------------------
(* What the commands ask of the records.                                   *)

\* Main is the commit being executed, and the source is on its line, at the
\* tip unless this is a recovery.
Bound ==
    /\ tip["main"] = policy
    /\ op \in Fresh => tip[LineOf[rel]] = Position[rel]
    /\ Position[rel] <= tip[LineOf[rel]]

AllVisible(r) == visible[r] = Packages

\* Published crates form a prefix in dependency order.
Ordered(r) == \A k \in visible[r] : 1..k \subseteq visible[r]

\* No conflicting tag or Release, none before the last crate, and no Release
\* without its tag.
Consistent(r) ==
    \A k \in Packages :
        /\ tag[r][k] # "foreign" /\ release[r][k] # "foreign"
        /\ tag[r][k] = "exact" \/ release[r][k] = "exact" => AllVisible(r)
        /\ release[r][k] = "exact" => tag[r][k] = "exact"

\* The operation goes with the state of the registry.
Admissible ==
    CASE op = "auto"    -> visible[rel] \in {{}, Packages}
      [] op = "release" -> visible[rel] = {}
      [] op = "recover" -> visible[rel] # {}

Publishes == IF op = "recover" THEN visible[rel] # Packages ELSE visible[rel] = {}
Finalizes == op = "recover" \/ visible[rel] = {}

\* Fault: the version alone is compared.
NewerOrSame(x, y) == Rank[x[1]] >= Rank[y[1]]

\* Releases are ordered by version, then by package.
Newer(x, y) ==
    \/ Rank[x[1]] > Rank[y[1]]
    \/ x[1] = y[1] /\ x[2] > y[2]

Target == <<rel, pack>>

\* Fault: every stable release of main becomes Latest.
AdvancesAlways == LineOf[rel] = "main" /\ rel \in Stable

\* Fault: pre-releases become Latest too.
AdvancesUnstable ==
    /\ LineOf[rel] = "main"
    /\ latest = NoLatest \/ Newer(Target, latest)

Advances ==
    /\ LineOf[rel] = "main" /\ rel \in Stable
    /\ latest = NoLatest \/ Newer(Target, latest)

-----------------------------------------------------------------------------
(* The run.  Each step is one request with the check on its answer; when   *)
(* the check fails the command returns an error and the run is over.       *)

Init ==
    /\ tip = [l \in Lines |-> 0]
    /\ crates = [r \in Releases |-> {}] /\ visible = [r \in Releases |-> {}]
    /\ tag = [r \in Releases |-> [k \in Packages |-> "absent"]]
    /\ release = [r \in Releases |-> [k \in Packages |-> "absent"]]
    /\ latest = NoLatest
    /\ started = {} /\ finalized = {}
    /\ op = "auto" /\ rel = NoRelease /\ policy = 0 /\ first = TRUE
    /\ pc = "idle" /\ pack = 0
    /\ before = NoLatest /\ advance = FALSE
    /\ late = 0 /\ failures = 0 /\ meddles = 0

\* A push to main, a dispatch, or another attempt of an earlier run.  A
\* recovery on main names the push run it completes.
Start(o, r, f) ==
    /\ pc = "idle"
    /\ Position[r] <= tip[LineOf[r]]
    /\ meddles # 0 => r \in Contested
    /\ o = "auto" => LineOf[r] = "main" /\ (f <=> <<o, r>> \notin started)
    /\ o = "release" => LineOf[r] = "support"
    /\ o = "recover" /\ LineOf[r] = "main" => <<"auto", r>> \in started
    /\ ~f => <<o, r>> \in started
    /\ op' = o /\ rel' = r /\ first' = f
    /\ policy' = IF o = "auto" THEN Position[r] ELSE tip["main"]
    /\ started' = started \cup {<<o, r>>}
    /\ pc' = "qualify"
    /\ UNCHANGED <<tip, registry, forge, finalized, pack, guard, late, failures, meddles>>

\* Reset what only means something within a run.
EndRun ==
    /\ op' = "auto" /\ rel' = NoRelease /\ policy' = 0 /\ first' = TRUE
    /\ pc' = "idle" /\ pack' = 0
    /\ before' = NoLatest /\ advance' = FALSE /\ late' = 0
    /\ UNCHANGED <<tip, registry, started, meddles>>

\* The checks of the step a run is at, other than waiting.
Admitted ==
    CASE pc \in {"qualify", "requalify"} ->
            Bound /\ Ordered(rel) /\ Consistent(rel) /\ Admissible
      [] pc \in {"rebind", "bind_package", "rebind_tag", "rebind_release"} -> Bound
      [] pc = "await" -> Bound /\ (AllVisible(rel) => Consistent(rel))
      [] pc = "approve" -> first
      [] pc = "start" -> Bound /\ AllVisible(rel)
      [] pc = "inspect_tag" -> tag[rel][pack] # "foreign"
      [] pc = "post_tag" -> tag[rel][pack] = "absent"
      [] pc = "capture" -> LineOf[rel] = "main" \/ latest # Target
      [] pc = "inspect_release" -> release[rel][pack] # "foreign"
      [] pc = "recheck_latest" -> latest = before
      [] pc = "post_release" -> release[rel][pack] = "absent"
      [] pc \in {"check_tag", "recheck_tag", "check_retained"} -> tag[rel][pack] = "exact"
      [] pc = "check_release" -> release[rel][pack] = "exact"
      [] pc = "verify_latest" -> latest = IF advance THEN Target ELSE before
      [] OTHER -> TRUE

\* A step whose only effect is to let the run go on.
Pass(from, to) ==
    /\ pc = from /\ Admitted /\ pc' = to
    /\ UNCHANGED <<tip, registry, forge, started, finalized, run, pack, guard, late, failures, meddles>>

\* An automatic run that finds every crate published has nothing to do.
Qualify ==
    \/ Pass("qualify", "requalify") /\ Publishes
    \/ Pass("qualify", "await") /\ ~Publishes /\ Finalizes
    \/ /\ pc = "qualify" /\ Admitted /\ ~Publishes /\ ~Finalizes
       /\ EndRun /\ UNCHANGED <<forge, finalized, failures>>

\* The publish job qualifies again after its approval.
Requalify ==
    \/ Pass("requalify", "rebind") /\ Publishes
    \/ Pass("requalify", "await") /\ ~Publishes

Rebind == Pass("rebind", "publishing")

\* release-plz publishes what its index lacks, in dependency order; nothing
\* binds the policy again between two crates.
PublishCrate(k) ==
    /\ pc = "publishing"
    /\ k \notin crates[rel] /\ 1..(k - 1) \subseteq crates[rel]
    /\ crates' = [crates EXCEPT ![rel] = @ \cup {k}]
    /\ UNCHANGED <<tip, visible, forge, started, finalized, run, pc, pack, guard, late, failures, meddles>>

Published == Pass("publishing", "await") /\ crates[rel] = Packages

\* await_registry polls until every crate is visible.
Confirm == Pass("await", "approve") /\ AllVisible(rel)

Approve == Pass("approve", "start")

StartFinalize ==
    /\ pc = "start" /\ Admitted
    /\ pc' = "bind_package" /\ pack' = 1
    /\ UNCHANGED <<tip, registry, forge, started, finalized, run, guard, late, failures, meddles>>

BindPackage == Pass("bind_package", "inspect_tag")

InspectTag ==
    \/ Pass("inspect_tag", "capture") /\ tag[rel][pack] = "exact"
    \/ Pass("inspect_tag", "rebind_tag") /\ tag[rel][pack] = "absent"

RebindTag == Pass("rebind_tag", "post_tag")

CountLate == late' = IF Bound THEN late ELSE late + 1

PostTag ==
    /\ pc = "post_tag" /\ Admitted
    /\ tag' = [tag EXCEPT ![rel][pack] = "exact"]
    /\ CountLate
    /\ pc' = "check_tag"
    /\ UNCHANGED <<tip, registry, release, latest, started, finalized, run, pack, guard, failures, meddles>>

CheckTag == Pass("check_tag", "capture")

\* Whether this Release will become Latest is decided before it is made.
Capture ==
    /\ pc = "capture" /\ Admitted
    /\ before' = latest /\ advance' = Advances
    /\ pc' = "inspect_release"
    /\ UNCHANGED <<tip, registry, forge, started, finalized, run, pack, late, failures, meddles>>

InspectRelease ==
    \/ Pass("inspect_release", "check_retained") /\ release[rel][pack] = "exact"
    \/ Pass("inspect_release", "rebind_release") /\ release[rel][pack] = "absent"

\* Fault: the Release is made under the binding of its tag.
RebindReleaseEarlier ==
    /\ pc = "rebind_release" /\ pc' = "recheck_tag"
    /\ UNCHANGED <<tip, registry, forge, started, finalized, run, pack, guard, late, failures, meddles>>

RebindRelease == Pass("rebind_release", "recheck_tag")
RecheckTag == Pass("recheck_tag", "recheck_latest")
RecheckLatest == Pass("recheck_latest", "post_release")

\* GitHub makes a lightweight tag when the named one is gone.
PostRelease ==
    /\ pc = "post_release" /\ Admitted
    /\ release' = [release EXCEPT ![rel][pack] = "exact"]
    /\ tag' = [tag EXCEPT ![rel][pack] = IF @ = "absent" THEN "foreign" ELSE @]
    /\ latest' = IF advance THEN Target ELSE latest
    /\ CountLate
    /\ pc' = "check_release"
    /\ UNCHANGED <<tip, registry, started, finalized, run, pack, guard, failures, meddles>>

CheckRelease == Pass("check_release", "check_retained")
\* Fault: the tag is not read again after the Release.
CheckRetainedNever ==
    /\ pc = "check_retained" /\ pc' = "verify_latest"
    /\ UNCHANGED <<tip, registry, forge, started, finalized, run, pack, guard, late, failures, meddles>>

CheckRetained == Pass("check_retained", "verify_latest")

NextPackage ==
    /\ pc = "verify_latest" /\ Admitted /\ pack < K
    /\ pc' = "bind_package" /\ pack' = pack + 1
    /\ before' = NoLatest /\ advance' = FALSE
    /\ UNCHANGED <<tip, registry, forge, started, finalized, run, late, failures, meddles>>

Finish ==
    /\ pc = "verify_latest" /\ Admitted /\ pack = K
    /\ finalized' = finalized \cup {rel}
    /\ EndRun /\ UNCHANGED <<forge, failures>>

\* Fault: the finalizer goes on with the next package.
StopPackage ==
    /\ pc # "idle" /\ ~Admitted
    /\ IF pack \in 1..(K - 1)
       THEN /\ pc' = "bind_package" /\ pack' = pack + 1
            /\ before' = NoLatest /\ advance' = FALSE
            /\ UNCHANGED <<tip, registry, started, run, late, meddles>>
       ELSE EndRun
    /\ UNCHANGED <<forge, finalized, failures>>

\* A check fails.
Stop ==
    /\ pc # "idle" /\ ~Admitted
    /\ EndRun /\ UNCHANGED <<forge, finalized, failures>>

\* A request fails, an approval is denied, or a job is cancelled or times out.
Interrupt ==
    /\ pc # "idle" /\ failures < MaxFailures
    /\ failures' = failures + 1
    /\ EndRun /\ UNCHANGED <<forge, finalized>>

-----------------------------------------------------------------------------
(* Everybody else.                                                         *)

MoveTip(l) ==
    /\ tip[l] < MaxTip
    /\ tip' = [tip EXCEPT ![l] = @ + 1]
    /\ UNCHANGED <<registry, forge, started, finalized, run, pc, pack, guard, late, failures, meddles>>

Appear(r, k) ==
    /\ k \in crates[r] \ visible[r]
    /\ visible' = [visible EXCEPT ![r] = @ \cup {k}]
    /\ UNCHANGED <<tip, crates, forge, started, finalized, run, pc, pack, guard, late, failures, meddles>>

\* Somebody creates a tag or a Release of that name, deletes a tag that no
\* immutable Release locks yet, or selects another Latest.
ForeignTag(r, k) ==
    /\ tag[r][k] = "absent"
    /\ tag' = [tag EXCEPT ![r][k] = "foreign"]
    /\ UNCHANGED <<release, latest>>

ForeignRelease(r, k) ==
    /\ release[r][k] = "absent"
    /\ release' = [release EXCEPT ![r][k] = "foreign"]
    /\ tag' = [tag EXCEPT ![r][k] = IF @ = "absent" THEN "foreign" ELSE @]
    /\ UNCHANGED latest

DeleteTag(r, k) ==
    /\ tag[r][k] # "absent" /\ release[r][k] = "absent"
    /\ tag' = [tag EXCEPT ![r][k] = "absent"]
    /\ UNCHANGED <<release, latest>>

SelectLatest(r, k) ==
    /\ r \in Stable /\ release[r][k] # "absent" /\ latest # <<r, k>>
    /\ latest' = <<r, k>>
    /\ UNCHANGED <<tag, release>>

Meddle(r, k) ==
    /\ meddles < MaxMeddles
    /\ started \cup {<<"recover", r>>} \subseteq Operations \X Contested
    /\ meddles' = meddles + 1
    /\ ForeignTag(r, k) \/ ForeignRelease(r, k) \/ DeleteTag(r, k) \/ SelectLatest(r, k)
    /\ UNCHANGED <<tip, registry, started, finalized, run, pc, pack, guard, late, failures>>

-----------------------------------------------------------------------------
RunStep ==
    \/ Qualify \/ Requalify \/ Rebind \/ Published \/ Confirm \/ Approve \/ StartFinalize
    \/ \E k \in Packages : PublishCrate(k)
    \/ BindPackage \/ InspectTag \/ RebindTag \/ PostTag \/ CheckTag
    \/ Capture \/ InspectRelease \/ RebindRelease \/ RecheckTag \/ RecheckLatest
    \/ PostRelease \/ CheckRelease \/ CheckRetained \/ NextPackage \/ Finish \/ Stop

Next ==
    \/ \E o \in Operations, r \in Releases, f \in BOOLEAN : Start(o, r, f)
    \/ RunStep \/ Interrupt
    \/ \E l \in Lines : MoveTip(l)
    \/ \E r \in Releases, k \in Packages : Appear(r, k) \/ Meddle(r, k)

\* Jobs run, published crates become visible, and maintainers dispatch a
\* recovery again whenever one is possible.
Fairness ==
    /\ WF_vars(RunStep)
    /\ \A r \in Releases : SF_vars(Start("recover", r, TRUE))
    /\ \A r \in Releases, k \in Packages : WF_vars(Appear(r, k))

Spec == Init /\ [][Next]_vars
FairSpec == Spec /\ Fairness

-----------------------------------------------------------------------------
Steps == {"idle", "qualify", "requalify", "rebind", "publishing", "await", "approve", "start",
          "bind_package", "inspect_tag", "rebind_tag", "post_tag", "check_tag", "capture",
          "inspect_release", "rebind_release", "recheck_tag", "recheck_latest",
          "post_release", "check_release", "check_retained", "verify_latest"}
Finalizing == Steps \ {"idle", "qualify", "requalify", "rebind", "publishing", "await", "approve", "start"}

RecordsTypeOK ==
    /\ tip \in [Lines -> 0..MaxTip]
    /\ crates \in [Releases -> SUBSET Packages] /\ visible \in [Releases -> SUBSET Packages]
    /\ \A r \in Releases : visible[r] \subseteq crates[r]
    /\ tag \in [Releases -> [Packages -> Objects]]
    /\ release \in [Releases -> [Packages -> Objects]]
    /\ latest \in (Releases \X Packages) \cup {NoLatest}

RunTypeOK ==
    /\ started \subseteq Operations \X Releases
    /\ finalized \subseteq Releases
    /\ op \in Operations /\ rel \in Releases \cup {NoRelease} /\ policy \in Nat /\ first \in BOOLEAN
    /\ pc \in Steps /\ (pc = "idle" <=> rel = NoRelease)
    /\ pack \in 0..K /\ (pc \in Finalizing <=> pack # 0)
    /\ before \in (Releases \X Packages) \cup {NoLatest} /\ advance \in BOOLEAN
    /\ late \in Nat /\ failures \in 0..MaxFailures /\ meddles \in 0..MaxMeddles

\* The types, and: a run has a release, the finalizer has a package, and a
\* crate is visible only once it is published.
TypeOK == RecordsTypeOK /\ RunTypeOK

\* An exact tag or Release says that every crate of its version is public
\* (require_consistent_objects and the first check of finalize), and an exact
\* Release that those of the packages before it have been made.
ForgeFollowsCrates ==
    \A r \in Releases, k \in Packages :
        /\ tag[r][k] = "exact" \/ release[r][k] = "exact" => crates[r] = Packages
        /\ release[r][k] = "exact" => \A j \in 1..(k - 1) : release[r][j] = "exact"

\* Once a run has reported a release as finalized it is whole and stays so,
\* whatever anybody else did meanwhile: the tag is read again after the
\* Release that locks it.
FinalizedIsWhole ==
    \A r \in finalized :
        crates[r] = Packages /\ \A k \in Packages : tag[r][k] = "exact" /\ release[r][k] = "exact"

\* Releases of main that may be Latest, and the choice RELEASING.md promises:
\* the newest of them, whatever the order of releases and recoveries.
Candidates == { x \in Releases \X Packages :
                  LineOf[x[1]] = "main" /\ x[1] \in Stable /\ release[x[1]][x[2]] = "exact" }
NewestOf(x, xs) ==
    IF xs = {} THEN x = NoLatest ELSE x \in xs /\ \A y \in xs : ~Newer(y, x)
LatestIsNewest == meddles = 0 => NewestOf(latest, Candidates)

\* After a protected branch has moved under it a run makes at most one more
\* tag or Release, the one it was about to make: every mutation is preceded
\* by a binding of its own.
AtMostOneLate == late <= 1

\* A recovery never publishes the first crate of a version (decide): a release
\* of which nothing is public starts afresh, from the current tip.
RecoveryResumes ==
    [][op = "recover" /\ crates' # crates => crates[rel] # {}]_vars

\* Whatever interrupted it, a release of which a crate is public can be
\* finalized by recovery dispatches.
Recoverable == \A r \in Releases : crates[r] # {} ~> r \in finalized

-----------------------------------------------------------------------------
Made(objects) == [r \in Releases |-> { k \in Packages : objects[r][k] = "exact" }]

Ledger == INSTANCE ReleaseLedger WITH tagged <- Made(tag), released <- Made(release)

\* As long as nobody else touches the records, the workflow implements the
\* ledger: no failure, stale read or repeated run shows through.
ImplementsLedger == Ledger!Spec
=============================================================================
