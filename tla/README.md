# yaml-sigil-rs in TLA+

A verification development for `NVIDIA/yaml-sigil-rs`: a Rust library that signs and verifies
documents in two wire forms (a YAML document followed by a signature document, and a protobuf
`SignedYamlArtifact`), and the repository automation that tests and publishes it.

## The system

| Part | State | Operations | Interacts with |
|---|---|---|---|
| Signing (`yaml-sigil-signing`) | per operation: the prepared payload held across the provider call | sign with a native key, a callback, a P-256 digest callback, an awaited provider; each with or without limits and self-verification | a provider service, the transcription and core crates |
| Verification (`yaml-sigil-verification`) | a qualified provider and its bound keys | qualify, bind, verify with built-in or provider crypto, synchronous and awaited | a provider service, core |
| Transcription (`yaml-sigil-transcription`) | none | compose, decompose, with or without limits | core |
| Core (`yaml-sigil-core`) | none | artifact decomposition, payload and signature-document validation, resource limits | - |
| Protobuf facade (`core/src/pb.rs`) | an owned message, or a borrowed view of the caller's octets; the caller's output buffer | decode, set, own, encode, append, with or without limits | the buffa runtime |
| WebAssembly bindings (`yaml-sigil-wasm`) | none between calls except a script's policy object | compose, decompose, sign, verify over byte views | JavaScript, workers that share a buffer, all of the above |
| Bounded subprocess runner (`xtask/src/bounded_process.rs`) | the process-wide subreaper flag and its lock, captures, the child's group | run a command with output limits, cancel it, reap its descendants | the kernel's process table, other threads of the task runner |
| Release finalization (`xtask/src/github.rs`) | none of its own: crates.io, git tags, GitHub Releases and the Latest marker | qualify, publish, wait for the registry, tag, release, recover | crates.io, GitHub, other writers of the repository |
| Job-object platform of the runner (Windows part of `bounded_process.rs`) | a job object, one thread per pipe, a channel | the same `output()` | the kernel, the child's tree |
| Release preparation (`xtask/src/release*.rs`, `versions.rs`) | a checkout: manifests, changelogs, a root lock | activate, prepare, check | release-plz, cargo, git, a maintainer |
| Release qualification (`xtask/src/github/support.rs`, `github.rs`) | none: the commit graph, support inventories, evidence | qualify, rebind-policy, start-support | GitHub, crates.io, maintainers who merge |
| Repository checks (`ci`, `reports`, `spec_update`, ...) | files of the checkout | format, audit, compare | cargo, git |

Hard behaviours: awaited signing and qualification interleave with a service that can retarget a
handle; a dropped future leaves a submission behind; size arithmetic at varint boundaries; the
subreaper flag is process-wide while processes die, fork and are adopted; a release is a long
sequence of non-atomic remote writes that may be interrupted, lose a response, or meet another
writer; what a release command has read may change before it concludes; a tool that fails halfway
leaves a checkout that somebody may commit; a shared JavaScript buffer changes between two octets
of its copy.

## Modules

### SigningSizes, SigningSession, SigningContract

`SigningSession` has one operation per element of `Requests`. Everything before the provider call is
one step (`Refuse`, `SignNatively` or `CallProvider`: the code awaits nothing there), the provider
is an environment action (`ServiceAnswers`, `RotateKey`), and everything after it is `Resume`.
`DropFuture` drops a pending future; the submission stays. `Admission` is the ordered list of checks
of the entry point. `SigningSizes` holds both sides of the size arithmetic, the projection in
`yaml-sigil-signing` and the emission in `yaml-sigil-core`, with real lengths. `SigningContract` is
what a caller is promised; `Contract` says that every operation keeps it.

The requests, the ceilings and the payload classes are data chosen at the start of an operation.
Cryptography is ideal: a signature names the key and the message it was made with. Building a
provider key, which validates its keyid, precedes every request.

### BoundedProcess

One caller of `output()` on Linux beside a process table. The caller's steps follow its program
text through `pc`: make the disposable Cargo state, enter the scope, spawn, drain each pipe (one step
per stream), feed the input, poll, terminate the group, reap, scan `/proc` (`BeginScan`, `EndScan`),
collect, leave, remove the state. The environment is every
other process: `Fork`, `LeaveGroup`, `JoinCaller`, `Write`, `ReadInput`, `ClosePipe`, `Die`, `ParentReaps`, and
for other threads of the task runner `OtherSpawns`, `OtherReaps`. Two facts of the kernel carry the
model: a scan of `/proc` is not atomic (it returns every process that was a direct child when it
began, and any of those that became one before it ended), and a killed process is only `doomed` and
dies at a later step. Dying hands the children to the runner if its subreaper flag is set and to
init if it is not. `SUBREAPER_LOCK` serialises callers, so one is modelled. The pipe of the
input holds `Capacity` octets; the pipes of the output are drained without ever waiting, so their
capacity makes no difference. A success does not promise that all input was read: the child may exit
first.

### ReleaseWorkflow, ReleaseLedger

A run of `publish.yml` and of the `github release` commands it calls is a sequence of requests, one
per step (`op`, `rel`, `pack`, `step` say where it is); the shared records (protected tips, crates
published and visible, tags, Releases, Latest) change between any two of them: `MoveTip`, `Appear`,
`Interrupt`, and the foreign changes `Meddle`. `Qualify` and `StartFinalize` read several records in
one step: what they decide on only grows, and a difference between their reads could only stop the
run. A POST whose answer is lost is read back by the code and continues on the path of one that was
answered, so it has no action of its own. A rerun of the workflow starts from the top and cannot
finalize (`first`). A tag deleted under a Release being made is recreated by GitHub as a
lightweight, that is a `foreign` one; an immutable Release locks its tag. What GitHub and crates.io
do is external. `ReleaseLedger` is what a reader of the public records is promised: crates in
dependency order, then tag and Release package after package, nothing taken back, Latest the newest
stable Release of main. `ImplementsLedger` maps the records to it while nobody else writes them.

### VerificationRules, ProviderVerification, VerificationContract

`VerificationRules` holds the decisions that await nothing: pre-verification, the work item that
metadata, keys and options leave (`Prepare`), classification of its outcome, and `NativeVerdict`, the
built-in verifier. `ProviderVerification` adds everything that calls a provider. The qualification
suites are data (15 steps for Ed25519, 13 for P-256) executed one provider call per step
(`SuiteBinds`, `SuiteVerifies`, `Conclude`); binding is `AskForHandle`, `HandleArrives`, `DropBind`;
a call is `VerifyWhole` or `ReadFirst` then `VerifyRead`, then `ProviderAnswers`, `Resume` or
`DropCall`. The provider is external: each slot is right or has one of thirteen faults (it rejects
or accepts everything, accepts with any key, caches or retargets a handle, invalidates earlier
handles, ignores the message, rejects one class of valid signature), and its operational failures
are reported as failures or, as the default `verify_provider` does, as mismatches. The second
slot is qualified after the handles of the first are gone, as in the code, so that retargeting
across slots is not exercised by the suite (`provider.rs:336`) and is no fault of the model either.
`VerificationContract` states, per call, which verdicts are admitted by what is true of the
artifact, keys and options.

### ArtifactText, Envelope

`ArtifactText` holds the two independent recognisers of the constrained marker: `MarkerLen`, by
which core splits, and `ContainsConstrainedMarker`, by which transcription decides what may be
joined. `Envelope` is a caller that holds one artifact: `Receive` or `Compose` it, then `Ask` for a
decomposition or a transcoding in a conformance mode and under a policy. The two loops over input
take one step per iteration: the marker search (`Scan`, `EndScan`) and the reading of outer fields
(`ReadField`, `RefuseField`, `EndFields`). Octets are interpreted in the form they arrive in; a
character has a weight in octets; varints and tags are not decoded octet by octet, so a field is
length-delimited, of another type, or cut off. What the YAML parser and the inner decoder read from
a carrier is a constant (`Documents`, `Carriers`), with the parser's length bound. Two exceptions
that the code documents or tests are stated in the properties: an empty or non-UTF-8 carrier
composes and is malformed when read, and a document above 16384 octets that transcoding emits
cannot be read back (`emission_probe_does_not_inherit_document_byte_budgets`).

### MessageFacade

The owned artifact, the borrowed view and the caller's buffer of `pb.rs`. A message on the wire is a
sequence of fields; decoding folds them (repeated fields overwrite, nested messages merge, unknown
fields are kept in order), the setters change the owned message, and `Encode` counts the whole
message, checks the count against policy, format and platform, and then appends it. The buffa
decoder is external, taken from how this crate uses it, and `to_owned` does not fail. The writers'
own error branches cannot be reached once the counting pass has succeeded, and are left out: the
property says that such an append is all or nothing, that what was counted is what is written, and
that what the buffer held before counts for neither ceiling.
`FormatCeiling` and `PlatformMaximum` are scaled down, with octet strings of 0, 3, 127 and 600. One
buffer, empty or with one artifact in front, is appended to once and then read back or cleared.

### WasmBindings

A call of the bindings is a list of stages in the order of the code (`Stages`): the arguments, the
measuring of a byte view, admission, allocation, the copy, the key, the operation. The copy takes
one step per octet. Between any two steps a worker may write or grow a shared buffer; allocating may
grow the module's memory and so detach the script's views on it; between calls the script may
detach or shrink its buffers and change its policy. `signed` records the payloads signed, by which
algorithm and key, which `VerifiedIsSigned` compares with; signatures in the octets the world starts
with were made elsewhere (`Signed`). What the Rust operations compute is the constant operator
`Core`, and `Projected` is the size they compute from lengths before they look at what an artifact
holds; `Limited` checks it before `Core` has an answer, and what `sign` emits once more, as the code
does. `CoreKeeps` is what they owe the boundary, which the other modules establish: no framing loses
octets or emits fewer than were projected, no projection is below its parts, a payload is verified
by a signature that was read, and only `sign` makes one.
`sign_yaml` and `sign_proto` only flatten errors.
Failures that need a two-gigabyte value or exhausted memory are left out.

### ReleasePreparation

The commands `activate`, `prepare` and `check` on one checkout, one step per tool or file written:
`Update` (release-plz), `Derive`, `SetVersion`, `Compare`, `Restore` (one manifest per step),
`Select`, `Agree`, `Validate`, `FinishCommand`. Each tool may fail halfway, touch another path, or
leave a root lock, which a step of its own removes (`CleanUp`); `InterruptCommand` kills a command
anywhere. `NoLockSurvives` is about every step that ends a command, whatever its tools answered: only
a kill, or a lock that is no regular file and so refused, may leave one behind. Then a maintainer
commits or discards whatever is there. `Publish`, `Merge`, `StartSupport` and `PushSupport` move the lines. Assumptions: `set-version` leaves the workspace version alone; a
branch is merged only at a commit `release check` accepted for its line (CI runs it,
`publish.yml:149`, `ci-candidate.yml:324`) or that holds a finished activation; release tags have
been fetched. The release-plz configuration is the set of families it is exact for. Two things the
code does not check are left in: when the derived version is the selected one, nothing verifies
that the manifests inherit before `check` does, and the first candidate of a support patch may have
any ordinal. Candidates that main published before the line opened may have gaps, so
`SupportLineHasNoGaps` asks for the candidate directly before only (`Follows`). `Ancestors` is the
smallest set of commits closed under parents, without recursion. The comparison of a tracked lock with
the one cargo resolves is part of `LockAbsent`.

### ReleaseQualification

`qualify`, `rebind-policy` and `start-support`, one request per step (`pc`), on a graph of commits
that maintainers extend on main and on a support line. A commit holds policy files, a list of those
a support line starts with (`seed`), and the support inventory; `Loads` is `Binding::load`, with the
historical chain, and `OnLineage` what is asked of the tips. Commits are immutable, so all that a
command computes from fetched commits is one step; the tips, the pull requests, the registry and the
original run are read in steps of their own, as often as the code reads them. Lists come in pages.
A merge base among several is the most recent one; the `GITHUB_*` variables are part of the exact
checkout. `github/support.rs:178-211` asks once more for what `ReleasePreparation` calls `AdvancesLine`, before a
support publication. `FreshCarriesPolicy` is about the step that binds: the source it leaves bound
carries the policy of the tips as they are then, not of those the command read first.

### JobRunner

`output()` on the platform with job objects: the child is created suspended, assigned, resumed; one
thread per pipe reports over a channel; the caller receives with a timeout, polls the child, and
after a failure terminates the job, cancels the threads, reaps and drains until a deadline. A doomed
process may never die and a thread may not be cancellable; nothing is assumed of them. Left out: a
panicking worker, the polling after all workers have reported, and the wait for a child whose
assignment failed, which has no deadline (`Wait` is taken only if the child is dead, and `JobReturns`
starts from a dead child). Disposable Cargo state cannot be made there; the directory may stay.

### How they compose

`SigningSession` uses `SigningSizes` and refines `SigningContract`; `Envelope` uses `ArtifactText`
and the emission half of `SigningSizes`, and so does `MessageFacade`; `ProviderVerification` uses
`VerificationRules` and refines `VerificationContract`; `ReleaseWorkflow` refines `ReleaseLedger`.
`WasmBindings` stands on constant operators for what the others establish. A source that
`ReleasePreparation` vets is what `ReleaseQualification` qualifies and what `ReleaseWorkflow`
publishes; the three share no variable, because between them there are only commits and tags, which
each of them treats as given. `BoundedProcess` and `JobRunner` are two platforms of one function and
stand alone, as in the code. Operators introduced by a `Fault:` comment are faulty variants of a
definition after them; no specification uses them, and replacing the definition by its variant makes
one of the properties fail.

## What makes each component correct

| Component | Properties |
|---|---|
| Signing | `AuthenticArtifact`, `FramesWhatWasSubmitted`, `LimitsAreExact`, `WaitingEnds`, `Contract` |
| Subprocess runner, Linux | `Contained`, `UnrelatedSpared`, `CompleteOutput`, `OutputReturns` |
| Subprocess runner, job objects | `JobContained`, `JobOutput`, `JobReturns` |
| Release publication | `ForgeFollowsCrates`, `FinalizedIsWhole`, `LatestIsNewest`, `AtMostOneLate`, `Recoverable`, `ImplementsLedger` |
| Release preparation | `VettedIsCoherent`, `PreparedIsCoherent`, `NoLockSurvives`, `LinesAdvance`, `SupportLineHasNoGaps` |
| Release qualification | `FreshCarriesPolicy`, `FreshIsRecoverable`, `NothingUnseen`, `OriginalRunSettled` |
| Verification | `QualificationIsRight`, `QualifiedActsNative`, `QualificationEnds`, `Contract` |
| Envelopes, transcoding | `DecomposedRightly`, `JoinExact`, `TranscodingKeeps`, `RefusalsJustified` |
| Protobuf facade | `EncodingFaithful` |
| WebAssembly bindings | `VerifiedIsSigned`, `OnlyAdmittedOctets`, `NothingHeld`, `RefusalsConclusive` |

## Runs

| Run | Instance | Shows |
|---|---|---|
| `signing` | two operations, two keys, one rotation; or one operation alone: payloads of 0, 1, 127, 128, 16383, 16384 octets, keyids up to 1024 with the 57/58 boundary of the inner length, ceilings one octet around every projected and every emitted size, every combination of invalid parameters | artifacts are authentic and frame what was submitted; each operation keeps the contract; every waiting caller is answered; limits change nothing but size refusals, and those are right |
| `processes_tree` | child and one descendant that changes groups, two processes of other threads that do, disposable state, no output | nothing is left or handed to init, the neighbours are spared, and the state is removed last |
| `processes_output` | child and one descendant in one group, limit 1, up to 3 octets on both streams, 2 of input through a pipe of 1, flag set before | a success is complete, the runner returns, and a reader of the input is never left waiting |
| `processes_strays` | as `processes_tree`, without neighbours | the finding below |
| `jobs` | child and one descendant, limit 1, up to 2 octets on one stream, input | the same on the other platform, whatever step fails |
| `release_recover` | two versions one commit apart, two packages, one commit after them, two failures | the ledger, recovery, and at most one late object |
| `release_lines` | a stable and a pre-release version and a later support version in every order, two failures; or the first alone with three foreign changes | finalized releases are whole under interference, Latest is right |
| `release_prepare` | a Rust and the Wasm package, six histories of main, one support line, versions 5.0 to 6.0 with three candidates, three commands, one interruption | only coherent sources are vetted and published, in order |
| `release_evidence` | up to four commits, six once a source is bound, two files with two contents, 31 states of the records, two attempts of the original run | what is bound carries policy and stays recoverable; what is said of a source was seen |
| `verification` | all thirteen faults in both slots, seven handles, one outage; two callers that bind, verify and abandon at once; every artifact with one or two defects, every request with one unusual choice, every choice of keys | what qualifies is right, verdicts equal those of the built-in verifier, qualification ends, the contract |
| `envelope` | texts assembled from markers, near-markers, multi-octet characters and byte order marks; all messages of up to three fields; 180 compositions; ceilings on both sides of their sizes; beside them the facade's messages | both forms read and written rightly, the two recognisers agree, transcoding keeps meaning, appends are all or nothing |
| `wasm` | ordinary, shared, module-owned and handed-out buffers, two calls in a row, two ceilings, one change | nothing is read twice, nothing above a ceiling is copied, every return releases what the call held |

Why the bounds are enough. Sizes need no small-scope argument: the formulas change only where a
varint grows, and both sides of each such boundary are in the instance. In the races two operations
suffice because the service is the only thing they share, and the theorems cover any number.
Adoption needs a descendant that outlives the child, so two processes; deeper trees are covered by
the theorems, which hold for all sets of processes. Nobody changes groups in the output run:
that decides who is killed, not what is captured, and is the question of the other run. In the release runs two versions in either order
and two packages are what order and partiality need; a third version is added where precedence has
three cases. In the evidence run records stay in order while the repository moves and the other way
round (`MCNext`): no command combines the two except by stopping at the first that fails, and the
run that is started again is followed on one commit; four commits are a root, an anchor, a support
commit and one more on either side, and six allow two changes after a source was bound. In the
preparation run six histories reach each release state from which a command behaves differently
without spending commands on getting there. Thirteen provider faults are enumerated completely; a
retargeting fault needs a second handle of its slot, which the handle bound allows after
qualification. The texts contain every window in which the recognisers look at neighbours (start,
end, CRLF cut off, back to back). One worker write between two octets is what a repeated read would
notice. `Contested` names the releases that foreign changes touch; a run with foreign changes has
only these, so that interference is not multiplied with order.

Deadlock is not checked where all operations end and nothing restarts: signing, both runners, the
release runs once their failures are used up, preparation and qualification once their bounds are,
verification, the caller of `Envelope` and the script of `WasmBindings`.

### Fairness

- Signing: weak fairness of `Resume` (the executor polls a woken future) and of `ServiceAnswers`.
  The library adds no timeout, so without an answering service nothing is promised; dropping has no
  fairness.
- Linux runner: weak fairness of `Step`, the caller's own thread, and of `TimePasses`, its clock.
  Nothing is assumed of the child or of any other process: they need not write, exit or die.
- Job objects: the same two, and weak fairness of each worker thread's own calls (`Call`,
  `ReadSome`), which the system schedules. A read or a write that blocks is not enabled and owes
  nothing; cancelling one may fail.
- Release: weak fairness of a started run and of the registry showing what it accepted, and strong
  fairness of a maintainer dispatching a recovery while one is possible. The last one is the
  documented procedure (`RELEASING.md`, recovery), not code; failures and new commits are finite.
- Verification: weak fairness of the suite's calls: the provider answers each of them, with a failure
  if it must.

## Proofs

| Module | Theorems |
|---|---|
| `SigningSession_proofs` | `TypeCorrect`, `ArtifactsAreAuthentic`, `SubmissionsAreFramed`, `LimitsExact`, `ContractKept` |
| `BoundedProcess_proofs` | `TypeCorrect`, `ContainmentHolds` (with `Containment`, `NoEscape`, `StateKept`), `OutputComplete`, `FlagIsRestored`, `NeighboursSpared` |
| `JobRunner_proofs` | `TypeCorrect`, `ContainedByJob`, `OutputOfJob` |
| `ReleaseWorkflow_proofs` | `TypeCorrect`, `ForgeAfterCrates`, `Completeness`, `OneLateAtMost`, `RecoveryOnlyResumes`, `LatestCorrect`, `LedgerImplemented`; of `ReleasePreparation`: `CommandsInv`, `OnlyCoherentVetted`, `LocksAreRemoved`, `PreparationSucceeds`, `NoLineGoesBack`, `NoGapsOnSupportLines` |
| `ProviderVerification_proofs` | `TypeCorrect`, `AskedCorrectly`, `KeysAreBindable`, `QualificationSpeaksTruly`, `QualifiedIsNative`, `ContractKept` |
| `Envelope_proofs` | `Recognisers`, `OneSplit`, `TypeCorrect`, `DecomposesRightly`, `ComposedSplits`, `JoinsExactly`, `TranscodingLosesNothing`, `RefusesForCause`, `EncodesFaithfully` |
| `WasmBindings_proofs` | `TypeCorrect`, `CopiesAreAdmitted`, `ReturnsRelease`, `VerifiedWasSigned`, `RefusedForCause` |
| `ReleaseQualification_proofs` | `FreshHasPolicy`, `FreshStaysRecoverable`, `NothingGoesUnseen`, `RecoveryWaitsForRun` |

They hold for every value of the constants that satisfies the `ASSUME` of the component's module
(`UniverseAssumption` and `BoundsAssumption`, `ProcessAssumption`, `JobAssumption`,
`ReleaseAssumption`, `ProviderAssumption`, `EnvelopeAssumption`, `FacadeAssumption`, `WasmAssumption`,
`EvidenceAssumption` and `QualificationAssumption`; of `ReleasePreparation` `Bounds`, `RequestAssumption`, `HistoryAssumption`
and `DerivationAssumption`). `ReleaseWorkflow_proofs` extends both release modules, whose names are
distinct, and proves about each specification by itself; so does `Envelope_proofs` for `Envelope` and
`MessageFacade` (`FacadeSpec`), which share no variable and take turns in the run. The runs evaluate all
assumptions. `MaxRotations`, `MaxTip`, `MaxFailures`,
`MaxMeddles`, `MaxWritten`, `Movers`, `MaxHandles`, `MaxBinds`, `MaxOutages`, `MaxCalls`,
`MaxChanges`, `MaxCommits`, `MaxCommands`, `MaxFaults` and `MaxAttempts` are constants too, so the
theorems are free of the runs' bounds. Two theorems have a hypothesis of their own. `ContractKept` of verification asks
that both slots be right or qualified, and that the provider tell its failures from mismatches
(`Trusted`): the code promises nothing about a provider that was never qualified. The two of the
WebAssembly bindings ask that the Rust operations keep `CoreKeeps` for all octets (`SoundCore`); the
stand-in of the run is evaluated against it for all short texts (`StandInKeeps`). Two assumptions
say what a repository is found like and what an external tool does: main begins with coherent commits
whose versions do not go back (`HistoryAssumption`), and release-plz derives no version before the
one it started from (`DerivationAssumption`). Four say what the data of the code are: what protobuf
can hold in a message fits the platform's addresses (`FacadeAssumption`); a signature's
class is one of its algorithm's (`ProviderAssumption`); the marker's characters take one octet each; and a canonical document or
carrier is read back as the signature it states, is valid, is not empty and contains no marker
(`EnvelopeAssumption`), which is what the emission of core guarantees and its tests state.

Recursive functions (varints, the length of a text, ancestry) are reasoned about by least
counterexamples (`LeastElement`): that a function with the recursion exists, that two of them agree,
and what their values are.

- **Signing.** The invariant ties, per operation, the phase to the payload it owns, the submissions
  received and the reply: a waiting operation has submitted exactly its own prepared payload once.
  Without it `Resume` could frame anything. The contract is kept because each action of one
  operation is the contract's action of the same operation and leaves the others alone.
  `LimitsExact` rests on lemmas about sizes: the varints of projection and emission are one function
  (`Varints`), so the protobuf projection is the emitted size (`ProtoProjectionExact`) and the YAML
  one never above it (`YamlProjectionIsLower`); `AdmissionFails` then compares the ordered checks
  with and without limits.
- **Linux runner.** Containment needs more than itself: `TreeInv` (every present member of the family
  hangs below the runner or below a member that has not exited, and there are no cycles: every set
  of processes has one whose parent is outside it), and `CleanupInv`, the argument about scans: if
  any member is left during a scan, one of those seen when the scan began is still a direct child.
  A scan that finds nothing to collect therefore leaves no member anywhere, unless one moved into
  the caller's group. `StreamsInv` relates what is written, held in
  the pipe and captured; `OthersInv` gives the neighbours; `ScopeInv` the flag and the Cargo state.
- **Job objects.** `TreeInv` says that whoever runs is in the job once the child has been resumed,
  and that before it only the child exists; `WorkerInv` ties what a thread has reported to what its
  pipe held when it did, and `CallerInv` what the caller has received and joined to those reports.
  Closing the job's last handle then dooms whatever is left, and a result is a success only on
  reports of every thread.
- **Release.** `PlaceInv` says what each step of a run has established about the records;
  `ForgeFollowsCrates` and `FinalizedIsWhole` are inductive with it under any interference.
  `BindInv` and `LateInv` count the requests since the last binding; `AloneInv`, for runs without
  foreign changes, adds that records agree with the run's place, from which `LatestIsNewest` and the
  step simulation of `ReleaseLedger` follow.
- **Verification.** `CallInv` says that a waiting call carries work that fits its request and a
  handle bound for the work's algorithm; `HeldInv` that handles in callers' hands come from
  a slot that qualified. `QualificationIsRight` is not inductive: `QualInv` gives, as functions of the
  position in the suite, the handles made, their keys and which of them are lost, and says that a
  faulty slot of a candid provider has not got past the step by which it is found out
  (`FoundOutAt`; `FoundOutMeans` shows for every fault that this step exposes it). `NativeInv` follows a
  call from what was read to what was asked, answered and decided, and compares with `NativeVerdict` at
  each stage. For the contract every step of a call is the contract's step or a stutter, with the
  stage, case and verdict of a call as named operators (`StageOfCalls`, `CaseOfCalls`).
- **Envelopes.** The marker search keeps the last marker before its position (`Searched`), the field
  loop the last payload and the only carrier so far (`PayloadsUpTo`, `CarriersUpTo`). The text lemmas
  do the rest: a marker cannot overlap another (`NoOverlap`), the markers of a joined text are those
  of the payload, the joint and those of the carrier (`MarksOfJoined`), so the joint is the last one
  exactly if the carrier has none (`JointIsLast`), and both recognisers say so alike (`Recognisers`).
  The existence of a last marker is by well-founded descent (`LargestElement`). For transcoding,
  `TransInv` adds where the artifact came from and what its octets mean (`Traced`), the cause of a
  refusal (`Caused`), and which refusals are for size (`TooLarge`). What is emitted means what was read
  because an emitted text splits where it was joined (`EmittedMeaning`) and an emitted message has the
  one payload and carrier it was made of; that the projected size is the emitted one
  (`ProjectionExact`) makes a refusal for size right.
- **Protobuf facade.** `FacadeInv` is about all a caller may hold: an owned message whose fields are
  in range and whose unknown fields are ones the schema does not know, a view only of an input that
  decodes, a buffer of fields. What is written is read back as the message it was written from
  (`CarrierReadsBack`, `ArtifactReadsBack`): one known field at a time, default or not, then the
  unknown ones by a least counterexample over their prefixes (`Climbs`). The length declared for a
  nested message is the counted one, without which the reader would find it cut off; `PreflightAnswers`
  gives the size and the cause.
- **WebAssembly.** `StageInv` says that the stages left to do are a suffix of the call's list
  (`ListsInOrder`), so that what earlier stages established still holds: `AdmittedInv`, that the
  measured lengths passed the ceiling, and `CopyInv`, that a copy runs to its measured length, never
  to the present one. A worker changes buffers and views but neither measures nor copies.
  `TruthInv` says that every signature in any buffer, copy or result was made by somebody, so that a
  verification, which reads only its own copies, speaks of one of them. For refusals, `SightInv` keeps
  the measured view within its buffer, whose length only grows while a call runs, and `FaithInv` says
  that what was copied of a buffer nobody shares is what the buffer holds.
- **Preparation of releases.** Any command may stop anywhere and a maintainer may commit what it
  leaves, so nothing keeps trees coherent; what is invariant is that they are telling (`TreesInv`,
  `Telling`): a literal version in a manifest never equals the workspace version and only stands in a
  package of that version's family. `Validates` compares exactly these, so a tree that passes it is
  coherent (`ValidIsCoherent`). `WorkInv` keeps this through a command: while manifests state the selected
  version (`Literally`) the workspace still has the derived one (`Adjusting`), and both are in one family;
  `Select` comes when every manifest inherits again. `VettedInv` carries coherence from what was vetted
  to tips, tags and proposals. `LockInv` says that a lock is there only between a tool and its cleanup, or
  after a command that failed or was killed; that a failed one left no lock it could have removed is shown
  step by step, where only a kill counts a fault and ends a command at once (`FaultsCounted`). Lines
  advance because no tree goes back behind the commit it was made from. For support lines, `LineInv` says that one at most is open, that main's tip and a published stable
  version are past it, and that every tag is on main's past or follows. A version published on main
  then has another minor version and fills no gap behind a candidate of the support line; one published on the
  support line comes after the last candidate (`LastCandidate`, by a least counterexample).
- **Qualification of releases.** `Historic` says that the graph is sound: parents are older, ancestry
  unfolds along them, is reflexive and transitive and never reaches a younger commit. A commit keeps it
  and leaves the ancestry of all others alone (`NextCommit`), so that what has been loaded stays
  loadable (`LoadsStay`) and a tip only moves to a descendant (`Developed`). `BindingInv` says that a
  bound source was loadable as fresh with its main, and that both are ancestors of the present tips;
  recoverability follows because the merge base with main cannot change for an ancestor of the tip
  (`SameBase`). For `FreshCarriesPolicy` it says further what a command has loaded by the time it fetches
  again, and binding means that neither tip has moved since (`BindingCarriesPolicy`). `RecordsInv` and `RunInv` say what a command has learned at each request of its
  chain; the second is inductive because an attempt that has ended cannot leave anything any more.
  A page that is not full is the whole inventory (`PageIsWhole`), whatever the length of a page.

Only model-checked: liveness (`WaitingEnds`, `OutputReturns`, `JobReturns`, `Recoverable` and
`QualificationEnds`), because TLAPS does not reason about fairness and ENABLED here.

## Findings and limits of what is promised

- `processes_strays`: `bounded_process.rs:272` says the command runs "while containing descendants".
  The cleanup at 358 skips every child in the caller's process group, so that children of other
  threads are spared; a descendant that joins that group is skipped too and success is reported.
  `DescendantsContained` states what does hold.
- `enter()` sets the subreaper flag before two calls that can fail (`bounded_process.rs:341`); if
  one does, nothing clears it. `FlagRestored` excepts an operation that never entered.
- `prepare()` leaves the phase directory behind if writing the configuration into it fails
  (`bounded_process.rs:53`): the value that would remove it on drop does not exist yet.
- An Ed25519 slot that ignores the message qualifies if one outage is disguised as a mismatch during
  the negative check. `QualificationIsRight` is stated for candid providers, as the documentation of
  `verify_provider` asks for.

## Not modelled

| Part | Why |
|---|---|
| Parsing of the signature mapping (core) | sequential, in the hands of a YAML library; which texts conform is a constant of `Envelope`, its size bound, verdict and field checks are modelled |
| Process groups on other Unix systems | what the Linux runner does without its scope |
| Pull-request, signature and archive evidence, the `validate` operation, yank | read-only checks that can only stop a run, which a run in the model may do at any request |
| Package content and metadata comparisons, safe manifest reads, local checks and reports | comparisons with constants, one system call, fixed command sequences |
| Curve arithmetic | ideal: a signature names its key and message |
| Memory exhaustion, values of two GiB, a panicking worker thread | not reachable by the instances, and nothing in the code handles them |
| Conformance runner, fixtures, test keys, examples | no behaviour of their own |
| `yaml-sigil-traits` | a registry dependency outside the repository |

## Plan

Written in this order, the most consequential behaviour first: signing across an await, containment
of processes, publication, qualification and verification, envelopes, the protobuf facade, the
WebAssembly bindings, preparation and qualification of releases, job objects. To come:

1. `SignatureDocument`: parsing and validating the signature mapping, so that `Documents` and
   `CanonicalDocument` of `Envelope` are derived instead of given; abstract specification: emission
   and parsing are inverse up to canonical form.
2. `SignAndVerify`: `SigningSession`, `Envelope` and `VerificationRules` composed: what is signed,
   composed and possibly transcoded verifies with the same key and no other.

New questions go into the existing runs where an instance serves both.
