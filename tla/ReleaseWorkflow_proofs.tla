------------------------ MODULE ReleaseWorkflow_proofs ------------------------
(***************************************************************************)
(* What holds of the release workflow for any number of releases and       *)
(* packages, any number of failures and any interference; and, after it,   *)
(* of the local release commands that prepare what the workflow publishes, *)
(* for any history, any versions and any number of commands and failures.  *)
(***************************************************************************)
EXTENDS ReleaseWorkflow, ReleasePreparation, WellFoundedInduction, TLAPS

LEMMA Constants ==
    /\ K \in Nat \ {0} /\ MaxTip \in Nat /\ MaxFailures \in Nat /\ MaxMeddles \in Nat
    /\ NoRelease \notin Releases /\ NoLatest \notin Releases \X Packages
    /\ Position \in [Releases -> Nat] /\ Rank \in [Releases -> Nat]
    /\ \A r, s \in Releases : Rank[r] = Rank[s] => r = s
  BY ReleaseAssumption

-----------------------------------------------------------------------------
(* Most steps only move the run on, or end it.                             *)

Records == <<tip, registry, forge>>

\* Only the program counter moves.
Passes ==
    /\ pc # "idle" /\ pc' \in Steps \ {"idle"} /\ (pc \in Finalizing <=> pc' \in Finalizing)
    /\ UNCHANGED <<Records, started, finalized, run, pack, guard, late, failures, meddles>>

\* The run is over, without having changed a record.
Ends ==
    /\ pc # "idle" /\ EndRun /\ UNCHANGED <<forge, finalized>>
    /\ failures' = failures \/ (failures < MaxFailures /\ failures' = failures + 1)

Reads ==
    \/ Qualify \/ Requalify \/ Rebind \/ Published \/ Confirm \/ Approve \/ BindPackage
    \/ InspectTag \/ RebindTag \/ CheckTag \/ InspectRelease \/ RebindRelease
    \/ RecheckTag \/ RecheckLatest \/ CheckRelease \/ CheckRetained \/ Stop \/ Interrupt

LEMMA PassPasses ==
    ASSUME NEW from \in Steps \ {"idle"}, NEW to \in Steps \ {"idle"}, Pass(from, to),
           from \in Finalizing <=> to \in Finalizing
    PROVE  Passes
  BY DEF Pass, Passes, Records

LEMMA ReadsOnly == ASSUME Reads PROVE Passes \/ Ends
<1> USE PassPasses DEF Steps, Finalizing
<1>1. CASE Stop
  BY <1>1 DEF Stop, Ends, forge
<1>2. CASE Interrupt
  BY <1>2 DEF Interrupt, Ends, forge
<1>3. CASE Qualify
  <2>1. CASE Pass("qualify", "requalify")
    BY <2>1
  <2>2. CASE Pass("qualify", "await")
    BY <2>2
  <2>3. CASE pc = "qualify" /\ EndRun /\ UNCHANGED <<forge, finalized, failures>>
    BY <2>3 DEF Ends
  <2> QED BY <1>3, <2>1, <2>2, <2>3 DEF Qualify
<1>4. CASE Requalify
  BY <1>4 DEF Requalify
<1>5. CASE Rebind \/ Published
  BY <1>5 DEF Rebind, Published
<1>6. CASE Confirm \/ Approve
  BY <1>6 DEF Confirm, Approve
<1>7. CASE BindPackage \/ RebindTag
  BY <1>7 DEF BindPackage, RebindTag
<1>8. CASE InspectTag
  BY <1>8 DEF InspectTag
<1>9. CASE CheckTag \/ RebindRelease
  BY <1>9 DEF CheckTag, RebindRelease
<1>10. CASE InspectRelease
  BY <1>10 DEF InspectRelease
<1>11. CASE RecheckTag \/ RecheckLatest
  BY <1>11 DEF RecheckTag, RecheckLatest
<1>12. CASE CheckRelease \/ CheckRetained
  BY <1>12 DEF CheckRelease, CheckRetained
<1> QED BY <1>1, <1>2, <1>3, <1>4, <1>5, <1>6, <1>7, <1>8, <1>9, <1>10, <1>11, <1>12 DEF Reads

\* Every other step, by name.
LEMMA NextCases ==
    ASSUME [Next]_vars
    PROVE  \/ UNCHANGED vars
           \/ Passes /\ Reads
           \/ Ends
           \/ \E o \in Operations, r \in Releases, f \in BOOLEAN : Start(o, r, f)
           \/ \E k \in Packages : PublishCrate(k)
           \/ StartFinalize \/ NextPackage \/ Finish
           \/ PostTag \/ Capture \/ PostRelease
           \/ \E l \in Lines : MoveTip(l)
           \/ \E r \in Releases, k \in Packages : Appear(r, k)
           \/ \E r \in Releases, k \in Packages : Meddle(r, k)
  BY ReadsOnly DEF Next, RunStep, Reads

-----------------------------------------------------------------------------
LEMMA TypeInit == Init => TypeOK
<1> SUFFICES ASSUME Init PROVE TypeOK
  OBVIOUS
<1>1. RecordsTypeOK
  BY Constants DEF Init, RecordsTypeOK, Lines, Objects
<1>2. first \in BOOLEAN /\ advance \in BOOLEAN
  BY DEF Init
<1>3. RunTypeOK
  BY <1>2, Constants DEF Init, RunTypeOK, Operations, Fresh, Steps, Finalizing
<1> QED BY <1>1, <1>3 DEF TypeOK

LEMMA TypeStep == TypeOK /\ [Next]_vars => TypeOK'
<1> SUFFICES ASSUME RecordsTypeOK, RunTypeOK, [Next]_vars PROVE RecordsTypeOK' /\ RunTypeOK'
  BY DEF TypeOK
<1>1. CASE UNCHANGED vars
  BY <1>1 DEF vars, RecordsTypeOK, RunTypeOK, forge, registry, run, guard
<1>2. CASE Passes
  BY <1>2 DEF Passes, Records, RecordsTypeOK, RunTypeOK, forge, registry, run, guard
<1>3. ASSUME EndRun, UNCHANGED forge, finalized' \subseteq Releases,
             failures' = failures \/ (failures < MaxFailures /\ failures' = failures + 1)
      PROVE  RecordsTypeOK' /\ RunTypeOK'
  <2>1. RecordsTypeOK'
    BY <1>3 DEF EndRun, RecordsTypeOK, forge, registry
  <2>2. failures' \in 0..MaxFailures
    BY <1>3, Constants DEF RunTypeOK
  <2>3. first' \in BOOLEAN /\ advance' \in BOOLEAN
    BY <1>3 DEF EndRun
  <2>4. pc' \in Steps /\ pc' = "idle" /\ rel' = NoRelease /\ pack' = 0 /\ pc' \notin Finalizing
    BY <1>3 DEF EndRun, Steps, Finalizing
  <2>5. op' \in Operations /\ policy' = 0 /\ late' = 0 /\ before' = NoLatest /\ UNCHANGED <<started, meddles>>
    BY <1>3 DEF EndRun, Operations, Fresh
  <2>6. RunTypeOK'
    BY <1>3, <2>2, <2>3, <2>4, <2>5, Constants DEF RunTypeOK
  <2> QED BY <2>1, <2>6
<1>4. CASE Ends
  BY <1>4, <1>3 DEF Ends, RunTypeOK
<1>5. ASSUME NEW o \in Operations, NEW r \in Releases, NEW f \in BOOLEAN, Start(o, r, f)
      PROVE RecordsTypeOK' /\ RunTypeOK'
  <2>1. RecordsTypeOK'
    BY <1>5 DEF Start, RecordsTypeOK, forge, registry
  <2>2. policy' \in Nat
    BY <1>5, Constants DEF Start, RecordsTypeOK, Lines
  <2>3. started' \subseteq Operations \X Releases
    BY <1>5 DEF Start, RunTypeOK
  <2>4. pc' = "qualify" /\ pc = "idle" /\ pack = 0
    BY <1>5, Constants DEF Start, RunTypeOK, Steps, Finalizing
  <2> QED BY <1>5, <2>1, <2>2, <2>3, <2>4, Constants DEF Start, RunTypeOK, guard, Steps, Finalizing
<1>6. ASSUME NEW k \in Packages, PublishCrate(k) PROVE RecordsTypeOK' /\ RunTypeOK'
  BY <1>6, Constants DEF PublishCrate, RecordsTypeOK, RunTypeOK, forge, run, guard
<1>7. ASSUME StartFinalize \/ NextPackage PROVE RecordsTypeOK' /\ RunTypeOK'
  <2>1. RecordsTypeOK'
    BY <1>7 DEF StartFinalize, NextPackage, RecordsTypeOK, forge, registry
  <2>2. pack' \in 0..K /\ pack' # 0 /\ pc' = "bind_package" /\ rel # NoRelease
    <3>1. pc # "idle" /\ pc' = "bind_package" /\ rel # NoRelease
      BY <1>7 DEF StartFinalize, NextPackage, RunTypeOK
    <3>2. pack \in 0..K /\ K \in Nat \ {0}
      BY Constants DEF RunTypeOK
    <3>3. pack' = 1 \/ (pack' = pack + 1 /\ pack < K)
      BY <1>7 DEF StartFinalize, NextPackage
    <3> QED BY <3>1, <3>2, <3>3
  <2>3. before' \in (Releases \X Packages) \cup {NoLatest} /\ advance' \in BOOLEAN
    BY <1>7 DEF StartFinalize, NextPackage, RunTypeOK, guard
  <2>4. UNCHANGED <<started, finalized, run, late, failures, meddles>>
    BY <1>7 DEF StartFinalize, NextPackage
  <2> QED BY <2>1, <2>2, <2>3, <2>4 DEF RunTypeOK, run, Steps, Finalizing
<1>8. ASSUME PostTag \/ PostRelease \/ Capture PROVE RecordsTypeOK' /\ RunTypeOK'
  <2>1. pc \in Finalizing /\ pc' \in Finalizing /\ pc' \in Steps /\ pc' # "idle" /\ pc # "idle"
    BY <1>8 DEF PostTag, PostRelease, Capture, Steps, Finalizing
  <2>2. rel \in Releases /\ pack \in Packages
    BY <2>1, Constants DEF RunTypeOK, Packages
  <2>3. latest' \in (Releases \X Packages) \cup {NoLatest}
    <3>1. latest' = latest \/ latest' = Target
      BY <1>8 DEF PostTag, PostRelease, Capture, forge
    <3> QED BY <2>2, <3>1 DEF RecordsTypeOK, Target
  <2>4. tag' \in [Releases -> [Packages -> Objects]] /\ release' \in [Releases -> [Packages -> Objects]]
    <3>1. CASE PostTag
      BY <3>1, <2>2 DEF PostTag, RecordsTypeOK, Objects
    <3>2. CASE PostRelease
      BY <3>2, <2>2 DEF PostRelease, RecordsTypeOK, Objects
    <3>3. CASE Capture
      BY <3>3 DEF Capture, RecordsTypeOK, forge
    <3> QED BY <1>8, <3>1, <3>2, <3>3
  <2>5. RecordsTypeOK'
    BY <1>8, <2>3, <2>4 DEF PostTag, PostRelease, Capture, RecordsTypeOK, registry
  <2>6. late' \in Nat
    <3>1. late' = late \/ late' = late + 1
      BY <1>8 DEF PostTag, PostRelease, Capture, CountLate
    <3> QED BY <3>1 DEF RunTypeOK
  <2>7. before' \in (Releases \X Packages) \cup {NoLatest} /\ advance' \in BOOLEAN
    BY <1>8 DEF PostTag, PostRelease, Capture, RecordsTypeOK, RunTypeOK, guard, Advances
  <2>8. UNCHANGED <<started, finalized, run, pack, failures, meddles>>
    BY <1>8 DEF PostTag, PostRelease, Capture
  <2>9. RunTypeOK'
    BY <2>1, <2>6, <2>7, <2>8 DEF RunTypeOK, run
  <2> QED BY <2>5, <2>9
<1>9. CASE Finish
  <2>1. rel \in Releases
    BY <1>9 DEF Finish, RunTypeOK
  <2> QED BY <1>9, <2>1, <1>3 DEF Finish, RunTypeOK, forge
<1>10. ASSUME NEW l \in Lines, MoveTip(l) PROVE RecordsTypeOK' /\ RunTypeOK'
  <2>1. RecordsTypeOK'
    BY <1>10, Constants DEF MoveTip, RecordsTypeOK, forge, registry
  <2> QED BY <1>10, <2>1 DEF MoveTip, RunTypeOK, run, guard
<1>11. ASSUME NEW r \in Releases, NEW k \in Packages, Appear(r, k) PROVE RecordsTypeOK' /\ RunTypeOK'
  <2>1. RecordsTypeOK'
    BY <1>11 DEF Appear, RecordsTypeOK, forge
  <2> QED BY <1>11, <2>1 DEF Appear, RunTypeOK, run, guard
<1>12. ASSUME NEW r \in Releases, NEW k \in Packages, Meddle(r, k) PROVE RecordsTypeOK' /\ RunTypeOK'
  <2>1. CASE ForeignTag(r, k)
    BY <1>12, <2>1, Constants DEF Meddle, ForeignTag, RecordsTypeOK, RunTypeOK, Objects, registry, run, guard
  <2>2. CASE ForeignRelease(r, k)
    BY <1>12, <2>2, Constants DEF Meddle, ForeignRelease, RecordsTypeOK, RunTypeOK, Objects, registry, run, guard
  <2>3. CASE DeleteTag(r, k)
    BY <1>12, <2>3, Constants DEF Meddle, DeleteTag, RecordsTypeOK, RunTypeOK, Objects, registry, run, guard
  <2>4. CASE SelectLatest(r, k)
    BY <1>12, <2>4, Constants DEF Meddle, SelectLatest, RecordsTypeOK, RunTypeOK, registry, run, guard
  <2> QED BY <1>12, <2>1, <2>2, <2>3, <2>4 DEF Meddle
<1> QED
  BY <1>1, <1>2, <1>4, <1>5, <1>6, <1>7, <1>8, <1>9, <1>10, <1>11, <1>12, NextCases

\* Every record keeps its type, a run has its release and package, and a crate
\* is never reported before it is published.
THEOREM TypeCorrect == Spec => []TypeOK
  BY TypeInit, TypeStep, PTL DEF Spec

-----------------------------------------------------------------------------
(* Where a passing run comes from, and what it has just checked.           *)

LEMMA Arrivals ==
    ASSUME Passes, Reads
    PROVE  /\ pc' \notin {"qualify", "bind_package", "inspect_release", "check_tag", "check_release"}
           /\ pc' = "inspect_tag" => pc = "bind_package" /\ Bound
           /\ pc' = "rebind_tag" => pc = "inspect_tag" /\ tag[rel][pack] = "absent"
           /\ pc' = "post_tag" => pc = "rebind_tag" /\ Bound
           /\ pc' = "capture" => pc \in {"inspect_tag", "check_tag"} /\ tag[rel][pack] = "exact"
           /\ pc' = "rebind_release" => pc = "inspect_release"
           /\ pc' = "recheck_tag" => pc = "rebind_release" /\ Bound
           /\ pc' = "recheck_latest" => pc = "recheck_tag" /\ tag[rel][pack] = "exact"
           /\ pc' = "post_release" => pc = "recheck_latest" /\ latest = before
           /\ pc' = "check_retained" =>
                pc \in {"inspect_release", "check_release"} /\ release[rel][pack] = "exact"
           /\ pc' = "verify_latest" => pc = "check_retained" /\ tag[rel][pack] = "exact"
<1>1. CASE Stop \/ Interrupt
  BY <1>1 DEF Stop, Interrupt, EndRun, Passes
<1>2. CASE Qualify \/ Requalify \/ Rebind \/ Published \/ Confirm \/ Approve
  BY <1>2 DEF Qualify, Requalify, Rebind, Published, Confirm, Approve, Pass, Passes, EndRun
<1>3. CASE BindPackage
  BY <1>3 DEF BindPackage, Pass, Admitted
<1>4. CASE InspectTag
  BY <1>4 DEF InspectTag, Pass
<1>5. CASE RebindTag
  BY <1>5 DEF RebindTag, Pass, Admitted
<1>6. CASE CheckTag
  BY <1>6 DEF CheckTag, Pass, Admitted
<1>7. CASE InspectRelease
  BY <1>7 DEF InspectRelease, Pass
<1>8. CASE RebindRelease
  BY <1>8 DEF RebindRelease, Pass, Admitted
<1>9. CASE RecheckTag
  BY <1>9 DEF RecheckTag, Pass, Admitted
<1>10. CASE RecheckLatest
  BY <1>10 DEF RecheckLatest, Pass, Admitted
<1>11. CASE CheckRelease
  BY <1>11 DEF CheckRelease, Pass, Admitted
<1>12. CASE CheckRetained
  BY <1>12 DEF CheckRetained, Pass, Admitted
<1> QED
  BY <1>1, <1>2, <1>3, <1>4, <1>5, <1>6, <1>7, <1>8, <1>9, <1>10, <1>11, <1>12 DEF Reads

-----------------------------------------------------------------------------
(* What a step may do to the records.                                      *)

Whole(r, k) == tag[r][k] = "exact" /\ release[r][k] = "exact"

\* Crates and exact Releases stay, a Release locks its tag, and only the two
\* POSTs of the finalizer make exact objects.
LEMMA ForgeSteps ==
    ASSUME TypeOK, [Next]_vars, NEW r \in Releases, NEW k \in Packages
    PROVE  /\ crates[r] \subseteq crates'[r]
           /\ release[r][k] = "exact" => release'[r][k] = "exact"
           /\ Whole(r, k) => Whole(r, k)'
           /\ tag'[r][k] = "exact" => tag[r][k] = "exact" \/ (PostTag /\ r = rel /\ k = pack)
           /\ release'[r][k] = "exact" =>
                release[r][k] = "exact" \/ (PostRelease /\ r = rel /\ k = pack)
<1> DEFINE Goal ==
           /\ crates[r] \subseteq crates'[r]
           /\ release[r][k] = "exact" => release'[r][k] = "exact"
           /\ Whole(r, k) => Whole(r, k)'
           /\ tag'[r][k] = "exact" => tag[r][k] = "exact" \/ (PostTag /\ r = rel /\ k = pack)
           /\ release'[r][k] = "exact" =>
                release[r][k] = "exact" \/ (PostRelease /\ r = rel /\ k = pack)
<1>t. /\ crates \in [Releases -> SUBSET Packages]
      /\ tag \in [Releases -> [Packages -> Objects]] /\ release \in [Releases -> [Packages -> Objects]]
  BY DEF TypeOK, RecordsTypeOK
<1>1. ASSUME UNCHANGED <<crates, tag, release>> PROVE Goal
  BY <1>1 DEF Whole
<1>2. CASE UNCHANGED vars
  BY <1>1, <1>2 DEF vars, registry, forge
<1>3. CASE Passes
  BY <1>1, <1>3 DEF Passes, Records, registry, forge
<1>4. CASE Ends
  BY <1>1, <1>4 DEF Ends, EndRun, registry, forge
<1>5. CASE (\E o \in Operations, s \in Releases, f \in BOOLEAN : Start(o, s, f)) \/ Capture
  BY <1>1, <1>5 DEF Start, Capture, registry, forge
<1>6. ASSUME NEW j \in Packages, PublishCrate(j) PROVE Goal
  BY <1>6, <1>t DEF PublishCrate, forge, Whole
<1>7. CASE StartFinalize \/ NextPackage \/ Finish
  BY <1>1, <1>7 DEF StartFinalize, NextPackage, Finish, EndRun, registry, forge
<1>8. CASE PostTag
  <2>1. UNCHANGED <<crates, release>> /\ tag' = [tag EXCEPT ![rel][pack] = "exact"]
    BY <1>8 DEF PostTag, registry
  <2> QED BY <1>8, <1>t, <2>1 DEF Whole
<1>9. CASE PostRelease
  <2>1. /\ UNCHANGED crates
        /\ release' = [release EXCEPT ![rel][pack] = "exact"]
        /\ tag' = [tag EXCEPT ![rel][pack] = IF @ = "absent" THEN "foreign" ELSE @]
    BY <1>9 DEF PostRelease, registry
  <2> QED BY <1>9, <1>t, <2>1 DEF Whole
<1>10. CASE (\E l \in Lines : MoveTip(l)) \/ (\E s \in Releases, j \in Packages : Appear(s, j))
  BY <1>1, <1>10 DEF MoveTip, Appear, registry, forge
<1>11. ASSUME NEW s \in Releases, NEW j \in Packages, Meddle(s, j) PROVE Goal
  <2>1. UNCHANGED crates /\ (ForeignTag(s, j) \/ ForeignRelease(s, j) \/ DeleteTag(s, j) \/ SelectLatest(s, j))
    BY <1>11 DEF Meddle, registry
  <2>2. CASE ForeignTag(s, j)
    BY <2>1, <2>2, <1>t DEF ForeignTag, Whole
  <2>3. CASE ForeignRelease(s, j)
    BY <2>1, <2>3, <1>t DEF ForeignRelease, Whole
  <2>4. CASE DeleteTag(s, j)
    BY <2>1, <2>4, <1>t DEF DeleteTag, Whole
  <2>5. CASE SelectLatest(s, j)
    BY <2>1, <2>5 DEF SelectLatest, Whole
  <2> QED BY <2>1, <2>2, <2>3, <2>4, <2>5
<1> QED
  BY <1>2, <1>3, <1>4, <1>5, <1>6, <1>7, <1>8, <1>9, <1>10, <1>11, NextCases

\* The steps of the run, and those that leave it where it is.
LEMMA RunCases ==
    ASSUME [Next]_vars
    PROVE  \/ UNCHANGED <<run, pc, pack, guard, late, finalized>>
           \/ Passes /\ Reads
           \/ Ends
           \/ \E o \in Operations, r \in Releases, f \in BOOLEAN : Start(o, r, f)
           \/ StartFinalize \/ NextPackage \/ Finish
           \/ PostTag \/ Capture \/ PostRelease
<1>1. CASE UNCHANGED vars
  BY <1>1 DEF vars
<1>2. CASE \E k \in Packages : PublishCrate(k)
  BY <1>2 DEF PublishCrate
<1>3. CASE \E l \in Lines : MoveTip(l)
  BY <1>3 DEF MoveTip
<1>4. CASE \E r \in Releases, k \in Packages : Appear(r, k)
  BY <1>4 DEF Appear
<1>5. CASE \E r \in Releases, k \in Packages : Meddle(r, k)
  BY <1>5 DEF Meddle
<1> QED BY <1>1, <1>2, <1>3, <1>4, <1>5, NextCases

-----------------------------------------------------------------------------
(* Completeness.  The finalizer has seen every crate, the packages before  *)
(* the present one are whole, and once the Release has been read back and  *)
(* then its tag, so is this one.  A Release locks its tag, so nobody can   *)
(* undo that.                                                              *)

PlaceInv ==
    /\ pc \in Finalizing => crates[rel] = Packages /\ \A j \in 1..(pack - 1) : Whole(rel, j)
    /\ pc = "check_retained" => release[rel][pack] = "exact"
    /\ pc = "verify_latest" => Whole(rel, pack)

FinalInv == PlaceInv /\ ForgeFollowsCrates /\ FinalizedIsWhole

LEMMA FinalInit == Init => FinalInv
<1> SUFFICES ASSUME Init PROVE FinalInv
  OBVIOUS
<1>1. PlaceInv
  BY DEF Init, PlaceInv, Finalizing, Steps
<1>2. ForgeFollowsCrates
  BY DEF Init, ForgeFollowsCrates
<1>3. FinalizedIsWhole
  BY DEF Init, FinalizedIsWhole
<1> QED BY <1>1, <1>2, <1>3 DEF FinalInv

\* What is whole, released or complete stays so.
LEMMA StaysMade ==
    ASSUME TypeOK, TypeOK', [Next]_vars, NEW r \in Releases
    PROVE  /\ crates[r] = Packages => crates'[r] = Packages
           /\ \A k \in Packages : release[r][k] = "exact" => release'[r][k] = "exact"
           /\ \A k \in Packages : Whole(r, k) => Whole(r, k)'
<1>1. crates'[r] \subseteq Packages
  BY DEF TypeOK, RecordsTypeOK
<1>2. 1 \in Packages
  BY Constants DEF Packages
<1>3. crates[r] \subseteq crates'[r]
  BY <1>2, ForgeSteps
<1> QED BY <1>1, <1>3, ForgeSteps

LEMMA PlaceStep == TypeOK /\ TypeOK' /\ FinalInv /\ [Next]_vars => PlaceInv'
<1> SUFFICES ASSUME TypeOK, TypeOK', PlaceInv, [Next]_vars PROVE PlaceInv'
  BY DEF FinalInv
<1>t. /\ pc \in Finalizing => rel \in Releases /\ pack \in Packages
      /\ rel \in Releases \cup {NoRelease} /\ pack \in 0..K /\ K \in Nat \ {0}
  BY Constants DEF TypeOK, RunTypeOK, Packages, Finalizing, Steps
<1>f. {"check_retained", "verify_latest", "bind_package"} \subseteq Finalizing
  BY DEF Finalizing, Steps
<1>s. ASSUME UNCHANGED <<rel, pack>>, pc \in Finalizing
      PROVE  /\ crates'[rel'] = Packages /\ \A j \in 1..(pack' - 1) : Whole(rel, j)'
             /\ release[rel][pack] = "exact" => release'[rel'][pack'] = "exact"
             /\ Whole(rel, pack) => Whole(rel, pack)'
  <2>1. rel \in Releases /\ pack \in Packages /\ \A j \in 1..(pack - 1) : j \in Packages
    BY <1>s, <1>t DEF Packages
  <2>2. crates[rel] = Packages /\ \A j \in 1..(pack - 1) : Whole(rel, j)
    BY <1>s DEF PlaceInv
  <2>3. Whole(rel, pack) => Whole(rel, pack)'
    BY <1>s, <2>1, StaysMade DEF Whole
  <2>4. \A j \in 1..(pack - 1) : Whole(rel, j)'
    BY <1>s, <2>1, <2>2, StaysMade DEF Whole
  <2> QED BY <1>s, <2>1, <2>2, <2>3, <2>4, StaysMade
<1>1. CASE UNCHANGED <<run, pc, pack, guard, late, finalized>>
  <2>1. UNCHANGED <<rel, pack, pc>>
    BY <1>1 DEF run
  <2>2. CASE pc \in Finalizing
    BY <2>1, <2>2, <1>s, <1>f DEF PlaceInv, Whole
  <2> QED BY <2>1, <2>2, <1>f DEF PlaceInv
<1>2. CASE Passes /\ Reads
  <2>1. UNCHANGED <<rel, pack>> /\ (pc \in Finalizing <=> pc' \in Finalizing)
    BY <1>2 DEF Passes, run
  <2>2. CASE pc \in Finalizing
    BY <2>1, <2>2, <1>2, <1>s, <1>f, Arrivals DEF PlaceInv, Whole
  <2> QED BY <2>1, <2>2, <1>f DEF PlaceInv
<1>3. CASE Ends \/ Finish \/ \E o \in Operations, r \in Releases, f \in BOOLEAN : Start(o, r, f)
  <2>1. pc' \in {"idle", "qualify"}
    BY <1>3 DEF Ends, Finish, EndRun, Start
  <2> QED BY <2>1 DEF PlaceInv, Finalizing, Steps
<1>4. CASE StartFinalize
  <2>1. pc = "start" /\ AllVisible(rel) /\ pc' = "bind_package" /\ pack' = 1 /\ UNCHANGED <<rel, crates>>
    BY <1>4 DEF StartFinalize, Admitted, run, registry
  <2>2. rel \in Releases
    BY <2>1 DEF TypeOK, RunTypeOK
  <2>3. crates[rel] = Packages
    BY <2>1, <2>2 DEF AllVisible, TypeOK, RecordsTypeOK
  <2> QED BY <2>1, <2>3 DEF PlaceInv
<1>5. CASE NextPackage
  <2>1. /\ pc = "verify_latest" /\ pc' = "bind_package" /\ pack' = pack + 1
        /\ UNCHANGED <<rel, crates, tag, release>>
    BY <1>5 DEF NextPackage, run, registry, forge
  <2>2. pc \in Finalizing
    BY <2>1, <1>f
  <2>3. \A j \in 1..(pack' - 1) : j \in 1..(pack - 1) \/ j = pack
    BY <2>1, <2>2, <1>t DEF Packages
  <2> QED BY <2>1, <2>2, <2>3 DEF PlaceInv, Whole
<1>6. CASE PostTag \/ Capture \/ PostRelease
  <2>1. /\ pc \in Finalizing /\ pc' \notin {"check_retained", "verify_latest"}
        /\ UNCHANGED <<rel, pack>>
    BY <1>6 DEF PostTag, Capture, PostRelease, Finalizing, Steps, run
  <2> QED BY <2>1, <1>s DEF PlaceInv, Whole
<1> QED BY <1>1, <1>2, <1>3, <1>4, <1>5, <1>6, RunCases

LEMMA FinalStep == TypeOK /\ TypeOK' /\ FinalInv /\ [Next]_vars => FinalInv'
<1> SUFFICES ASSUME TypeOK, TypeOK', FinalInv, [Next]_vars
             PROVE  ForgeFollowsCrates' /\ FinalizedIsWhole'
  BY PlaceStep DEF FinalInv
<1>t. pc \in Finalizing => rel \in Releases /\ pack \in Packages
  BY Constants DEF TypeOK, RunTypeOK, Packages, Finalizing, Steps
<1>p. \A k \in Packages : 1..(k - 1) \subseteq Packages
  BY Constants DEF Packages
<1>1. ForgeFollowsCrates'
  <2> SUFFICES ASSUME NEW r \in Releases, NEW k \in Packages
               PROVE  /\ tag'[r][k] = "exact" \/ release'[r][k] = "exact" => crates'[r] = Packages
                      /\ release'[r][k] = "exact" =>
                           \A j \in 1..(k - 1) : release'[r][j] = "exact"
    BY DEF ForgeFollowsCrates
  <2>1. ASSUME PostTag \/ PostRelease, r = rel, k = pack
        PROVE  crates[r] = Packages /\ \A j \in 1..(k - 1) : release[r][j] = "exact"
    <3>1. pc \in Finalizing
      BY <2>1 DEF PostTag, PostRelease, Finalizing, Steps
    <3> QED BY <2>1, <3>1 DEF FinalInv, PlaceInv, Whole
  <2>2. tag[r][k] = "exact" \/ release[r][k] = "exact" => crates[r] = Packages
    BY DEF FinalInv, ForgeFollowsCrates
  <2>3. release[r][k] = "exact" => \A j \in 1..(k - 1) : release[r][j] = "exact"
    BY DEF FinalInv, ForgeFollowsCrates
  <2> QED BY <2>1, <2>2, <2>3, <1>p, ForgeSteps, StaysMade
<1>2. FinalizedIsWhole'
  <2> SUFFICES ASSUME NEW r \in finalized'
               PROVE  crates'[r] = Packages /\ \A k \in Packages : Whole(r, k)'
    BY DEF FinalizedIsWhole, Whole
  <2>1. r \in Releases
    BY DEF TypeOK, RunTypeOK
  <2>2. crates[r] = Packages /\ \A k \in Packages : Whole(r, k)
    <3>1. CASE r \in finalized
      BY <3>1 DEF FinalInv, FinalizedIsWhole, Whole
    <3>2. CASE Finish /\ r = rel
      <4>1. pc = "verify_latest" /\ pack = K /\ pc \in Finalizing
        BY <3>2 DEF Finish, Finalizing, Steps
      <4>2. \A k \in Packages : k \in 1..(pack - 1) \/ k = pack
        BY <4>1, Constants DEF Packages
      <4> QED BY <3>2, <4>1, <4>2 DEF FinalInv, PlaceInv
    <3>3. finalized' = finalized \/ (Finish /\ finalized' = finalized \cup {rel})
      BY RunCases DEF Passes, Ends, Start, StartFinalize, NextPackage, Finish, PostTag, Capture, PostRelease
    <3> QED BY <3>1, <3>2, <3>3
  <2> QED BY <2>1, <2>2, StaysMade
<1> QED BY <1>1, <1>2

\* Exact tags and Releases exist only of versions whose crates are all public,
\* package after package, for any interference.
THEOREM ForgeAfterCrates == Spec => []ForgeFollowsCrates
  BY TypeInit, TypeStep, FinalInit, FinalStep, PTL DEF Spec, FinalInv

\* A release reported as finalized has every crate, tag and Release, and keeps
\* them.
THEOREM Completeness == Spec => []FinalizedIsWhole
  BY TypeInit, TypeStep, FinalInit, FinalStep, PTL DEF Spec, FinalInv

-----------------------------------------------------------------------------
(* One late mutation.  Lines only grow, so a binding that is lost stays    *)
(* lost; after a late POST the run is at a place from which every way to   *)
(* the next POST leads through a binding.                                  *)

BindInv == pc # "idle" => policy <= tip["main"] /\ Position[rel] <= tip[LineOf[rel]]

AfterPost == {"check_tag", "capture", "inspect_release", "rebind_release", "check_release",
              "check_retained", "verify_latest", "bind_package"}

LateInv ==
    /\ pc \notin Finalizing => late = 0
    /\ late = 0 \/ (late = 1 /\ ~Bound /\ pc \in AfterPost)

LEMMA LateInit == Init => BindInv /\ LateInv
  BY DEF Init, BindInv, LateInv

LEMMA TipGrows ==
    ASSUME TypeOK, [Next]_vars
    PROVE  tip \in [Lines -> Nat] /\ tip' \in [Lines -> Nat] /\ \A l \in Lines : tip[l] <= tip'[l]
<1>t. tip \in [Lines -> Nat]
  BY Constants DEF TypeOK, RecordsTypeOK
<1>1. ASSUME NEW l \in Lines, MoveTip(l) PROVE tip' = [tip EXCEPT ![l] = @ + 1]
  BY <1>1 DEF MoveTip
<1>2. tip' = tip \/ \E l \in Lines : MoveTip(l)
  BY NextCases DEF vars, Passes, Records, Ends, EndRun, Start, PublishCrate, StartFinalize, NextPackage,
     Finish, PostTag, Capture, PostRelease, Appear, Meddle
<1> QED BY <1>t, <1>1, <1>2

LEMMA BoundLasts ==
    ASSUME TypeOK, BindInv, [Next]_vars, pc # "idle", UNCHANGED run
    PROVE  Bound' => Bound
<1>1. rel \in Releases /\ policy \in Nat /\ LineOf[rel] \in Lines /\ Position[rel] \in Nat /\ "main" \in Lines
  BY ReleaseAssumption DEF TypeOK, RunTypeOK, Lines
<1>2. policy <= tip["main"] /\ Position[rel] <= tip[LineOf[rel]]
  BY DEF BindInv
<1>3. policy' = policy /\ rel' = rel /\ op' = op
  BY DEF run
<1> DEFINE L == LineOf[rel]
<1>4. /\ tip["main"] \in Nat /\ tip'["main"] \in Nat /\ tip["main"] <= tip'["main"]
      /\ tip[L] \in Nat /\ tip'[L] \in Nat /\ tip[L] <= tip'[L]
  BY <1>1, TipGrows
<1>5. tip'["main"] = policy => tip["main"] = policy
  BY <1>1, <1>2, <1>4
<1>6. tip'[L] = Position[rel] => tip[L] = Position[rel]
  BY <1>1, <1>2, <1>4
<1> QED BY <1>2, <1>3, <1>5, <1>6 DEF Bound

LEMMA BindStep == TypeOK /\ BindInv /\ [Next]_vars => BindInv'
<1> SUFFICES ASSUME TypeOK, BindInv, [Next]_vars PROVE BindInv'
  OBVIOUS
<1>1. ASSUME pc # "idle", UNCHANGED run PROVE BindInv'
  <2>1. rel \in Releases /\ policy \in Nat /\ LineOf[rel] \in Lines /\ Position[rel] \in Nat /\ "main" \in Lines
    BY <1>1, ReleaseAssumption DEF TypeOK, RunTypeOK, Lines
  <2>2. policy <= tip["main"] /\ Position[rel] <= tip[LineOf[rel]]
    BY <1>1 DEF BindInv
  <2>3. policy' = policy /\ rel' = rel
    BY <1>1 DEF run
  <2>4. /\ tip["main"] \in Nat /\ tip'["main"] \in Nat /\ tip["main"] <= tip'["main"]
        /\ tip[LineOf[rel]] \in Nat /\ tip'[LineOf[rel]] \in Nat /\ tip[LineOf[rel]] <= tip'[LineOf[rel]]
    BY <2>1, TipGrows
  <2> QED BY <2>1, <2>2, <2>3, <2>4 DEF BindInv
<1>2. ASSUME NEW o \in Operations, NEW r \in Releases, NEW f \in BOOLEAN, Start(o, r, f) PROVE BindInv'
  <2>1. /\ Position[r] <= tip[LineOf[r]] /\ (o = "auto" => LineOf[r] = "main") /\ rel' = r
        /\ policy' = (IF o = "auto" THEN Position[r] ELSE tip["main"]) /\ UNCHANGED tip
    BY <1>2 DEF Start
  <2>2. tip["main"] \in Nat
    BY TipGrows DEF Lines
  <2> QED BY <2>1, <2>2 DEF BindInv
<1>3. CASE pc' = "idle"
  BY <1>3 DEF BindInv
<1> QED BY <1>1, <1>2, <1>3, RunCases DEF Passes, Ends, Finish, EndRun, StartFinalize, NextPackage,
           PostTag, Capture, PostRelease

LEMMA LateStep == TypeOK /\ BindInv /\ LateInv /\ [Next]_vars => LateInv'
<1> SUFFICES ASSUME TypeOK, BindInv, LateInv, [Next]_vars PROVE LateInv'
  OBVIOUS
<1> USE DEF AfterPost, Finalizing, Steps
<1>1. CASE UNCHANGED <<run, pc, pack, guard, late, finalized>>
  <2>1. UNCHANGED <<run, pc, late>>
    BY <1>1
  <2>2. pc = "idle" => late = 0
    BY DEF LateInv
  <2> QED BY <2>1, <2>2, BoundLasts DEF LateInv
<1>2. CASE Passes /\ Reads
  <2>1. UNCHANGED <<run, late>> /\ pc # "idle" /\ (pc \in Finalizing <=> pc' \in Finalizing)
        /\ pc' \in Steps /\ Bound' = Bound
    BY <1>2 DEF Passes, Bound, run, Records
  <2>2. CASE late = 0
    BY <2>1, <2>2 DEF LateInv
  <2>3. CASE late = 1 /\ ~Bound /\ pc \in AfterPost
    BY <1>2, <2>1, <2>3, Arrivals DEF LateInv
  <2> QED BY <2>2, <2>3 DEF LateInv
<1>3. CASE Ends \/ Finish
  BY <1>3 DEF Ends, Finish, EndRun, LateInv
<1>4. CASE (\E o \in Operations, r \in Releases, f \in BOOLEAN : Start(o, r, f)) \/ StartFinalize
  BY <1>4 DEF Start, StartFinalize, LateInv
<1>5. CASE NextPackage \/ Capture
  <2>1. UNCHANGED <<tip, run, late>> /\ pc \in Finalizing /\ pc' \in AfterPost
    BY <1>5 DEF NextPackage, Capture
  <2>2. Bound' = Bound
    BY <2>1 DEF Bound, run
  <2> QED BY <2>1, <2>2 DEF LateInv
<1>6. CASE PostTag \/ PostRelease
  <2>1. /\ UNCHANGED <<tip, run>> /\ pc \in {"post_tag", "post_release"} /\ pc' \in {"check_tag", "check_release"}
        /\ late' = IF Bound THEN late ELSE late + 1
    BY <1>6 DEF PostTag, PostRelease, CountLate
  <2>2. late = 0
    BY <2>1 DEF LateInv
  <2>3. Bound' = Bound
    BY <2>1 DEF Bound, run
  <2> QED BY <2>1, <2>2, <2>3 DEF LateInv
<1> QED BY <1>1, <1>2, <1>3, <1>4, <1>5, <1>6, RunCases

\* After a protected branch has moved, a run makes at most the one tag or
\* Release it was about to make.
THEOREM OneLateAtMost == Spec => []AtMostOneLate
<1>1. TypeOK /\ LateInv => AtMostOneLate
  BY DEF LateInv, AtMostOneLate
<1> QED BY <1>1, TypeInit, TypeStep, LateInit, BindStep, LateStep, PTL DEF Spec

-----------------------------------------------------------------------------
(* A recovery has seen a published crate before it publishes.              *)

RecoverInv == op = "recover" /\ pc \in {"requalify", "rebind", "publishing"} => visible[rel] # {}

LEMMA RecoverStep == TypeOK /\ TypeOK' /\ RecoverInv /\ [Next]_vars => RecoverInv'
<1> SUFFICES ASSUME TypeOK, TypeOK', RecoverInv, [Next]_vars PROVE RecoverInv'
  OBVIOUS
<1>v. \A r \in Releases : visible[r] # {} => visible'[r] # {}
  <2>1. visible' = visible \/ \E r \in Releases, k \in Packages : Appear(r, k)
    BY NextCases DEF vars, Passes, Records, Ends, EndRun, Start, PublishCrate, StartFinalize, NextPackage,
       Finish, PostTag, Capture, PostRelease, MoveTip, Meddle, registry
  <2>2. ASSUME NEW r \in Releases, NEW k \in Packages, Appear(r, k)
        PROVE visible' = [visible EXCEPT ![r] = @ \cup {k}]
    BY <2>2 DEF Appear
  <2>3. visible \in [Releases -> SUBSET Packages]
    BY DEF TypeOK, RecordsTypeOK
  <2> QED BY <2>1, <2>2, <2>3
<1>r. pc # "idle" => rel \in Releases
  BY DEF TypeOK, RunTypeOK
<1>1. CASE UNCHANGED <<run, pc, pack, guard, late, finalized>>
  BY <1>1, <1>v, <1>r DEF RecoverInv, run
<1>2. CASE Passes /\ Reads
  <2>1. UNCHANGED <<op, rel, visible>>
    BY <1>2 DEF Passes, Records, run, registry
  <2>2. pc' = "requalify" => pc = "qualify" /\ Admitted
    BY <1>2 DEF Passes, Reads, Qualify, Requalify, Rebind, Published, Confirm, Approve, BindPackage,
       InspectTag, RebindTag, CheckTag, InspectRelease, RebindRelease, RecheckTag, RecheckLatest,
       CheckRelease, CheckRetained, Stop, Interrupt, Pass, EndRun
  <2>3. pc' = "rebind" => pc = "requalify"
    BY <1>2 DEF Passes, Reads, Qualify, Requalify, Rebind, Published, Confirm, Approve, BindPackage,
       InspectTag, RebindTag, CheckTag, InspectRelease, RebindRelease, RecheckTag, RecheckLatest,
       CheckRelease, CheckRetained, Stop, Interrupt, Pass, EndRun
  <2>4. pc' = "publishing" => pc = "rebind"
    BY <1>2 DEF Passes, Reads, Qualify, Requalify, Rebind, Published, Confirm, Approve, BindPackage,
       InspectTag, RebindTag, CheckTag, InspectRelease, RebindRelease, RecheckTag, RecheckLatest,
       CheckRelease, CheckRetained, Stop, Interrupt, Pass, EndRun
  <2>5. op = "recover" /\ pc = "qualify" /\ Admitted => visible[rel] # {}
    BY DEF Admitted, Admissible
  <2> QED BY <2>1, <2>2, <2>3, <2>4, <2>5 DEF RecoverInv
<1>3. CASE Ends \/ Finish \/ \E o \in Operations, r \in Releases, f \in BOOLEAN : Start(o, r, f)
  BY <1>3 DEF Ends, Finish, EndRun, Start, RecoverInv
<1>4. CASE StartFinalize \/ NextPackage \/ PostTag \/ Capture \/ PostRelease
  BY <1>4 DEF StartFinalize, NextPackage, PostTag, Capture, PostRelease, RecoverInv
<1> QED BY <1>1, <1>2, <1>3, <1>4, RunCases

\* A recovery publishes only versions of which a crate is public already.
THEOREM RecoveryOnlyResumes == Spec => RecoveryResumes
<1>1. Init => RecoverInv
  BY DEF Init, RecoverInv
<1>2. TypeOK /\ RecoverInv /\ [Next]_vars => (op = "recover" /\ crates' # crates => crates[rel] # {})
  <2> SUFFICES ASSUME TypeOK, RecoverInv, [Next]_vars, op = "recover", crates' # crates
               PROVE  crates[rel] # {}
    OBVIOUS
  <2>1. pc = "publishing"
    BY NextCases DEF vars, Passes, Records, Ends, EndRun, Start, PublishCrate, StartFinalize, NextPackage,
       Finish, PostTag, Capture, PostRelease, MoveTip, Appear, Meddle, registry
  <2>2. rel \in Releases /\ visible[rel] # {}
    BY <2>1 DEF RecoverInv, TypeOK, RunTypeOK
  <2> QED BY <2>2 DEF TypeOK, RecordsTypeOK
<1>3. TypeOK /\ RecoverInv /\ [Next]_vars => [op = "recover" /\ crates' # crates => crates[rel] # {}]_vars
  BY <1>2
<1> QED BY <1>1, <1>3, RecoverStep, TypeInit, TypeStep, PTL DEF Spec, RecoveryResumes

-----------------------------------------------------------------------------
(* Without interference the guard of Latest tells the truth until the      *)
(* Release is made, and the tag stays where the run has seen it.           *)

Undecided == {"inspect_release", "rebind_release", "recheck_tag", "recheck_latest", "post_release"}
Tagged == Undecided \cup {"capture", "check_release", "check_retained", "verify_latest"}

AloneInv == meddles = 0 =>
    /\ \A r \in Releases, k \in Packages : tag[r][k] # "foreign" /\ release[r][k] # "foreign"
    /\ pc \in Undecided => before = latest /\ (advance <=> Advances)
    /\ pc \in Tagged => tag[rel][pack] = "exact"
    /\ NewestOf(latest, Candidates)

LEMMA NewerIsAnOrder ==
    ASSUME NEW x \in Releases \X Packages, NEW y \in Releases \X Packages, NEW z \in Releases \X Packages
    PROVE  ~Newer(x, x) /\ (Newer(x, y) /\ Newer(y, z) => Newer(x, z))
<1>1. /\ Rank[x[1]] \in Nat /\ Rank[y[1]] \in Nat /\ Rank[z[1]] \in Nat
      /\ x[2] \in Nat /\ y[2] \in Nat /\ z[2] \in Nat
  BY Constants DEF Packages
<1> QED BY <1>1 DEF Newer

LEMMA NewestGrows ==
    ASSUME NEW xs \in SUBSET (Releases \X Packages), NEW x, NewestOf(x, xs),
           NEW t \in Releases \X Packages
    PROVE  /\ x = NoLatest \/ Newer(t, x) => NewestOf(t, xs \cup {t})
           /\ x # NoLatest /\ ~Newer(t, x) => NewestOf(x, xs \cup {t})
<1>1. x = NoLatest => xs = {}
  BY Constants DEF NewestOf
<1>2. CASE xs = {}
  BY <1>2, NewerIsAnOrder DEF NewestOf
<1>3. CASE xs # {}
  <2>1. x \in xs /\ x \in Releases \X Packages /\ \A y \in xs : ~Newer(y, x)
    BY <1>3 DEF NewestOf
  <2>2. Newer(t, x) => \A y \in xs : ~Newer(y, t)
    BY <2>1, NewerIsAnOrder
  <2> QED BY <1>1, <1>3, <2>1, <2>2, NewerIsAnOrder DEF NewestOf
<1> QED BY <1>2, <1>3

LEMMA AloneInit == Init => AloneInv
<1> SUFFICES ASSUME Init PROVE AloneInv
  OBVIOUS
<1>1. Candidates = {} /\ latest = NoLatest
  BY DEF Init, Candidates
<1>2. pc \notin Undecided /\ pc \notin Tagged
  BY DEF Init, Undecided, Tagged
<1>3. \A r \in Releases, k \in Packages : tag[r][k] # "foreign" /\ release[r][k] # "foreign"
  BY DEF Init
<1> QED BY <1>1, <1>2, <1>3 DEF AloneInv, NewestOf

\* The Release that is made is the newest one exactly when it becomes Latest.
LEMMA PostIsNewest ==
    ASSUME TypeOK, AloneInv, PostRelease, meddles = 0
    PROVE  NewestOf(latest, Candidates)'
<1>1. /\ pc = "post_release" /\ release' = [release EXCEPT ![rel][pack] = "exact"]
      /\ latest' = IF advance THEN Target ELSE latest
  BY DEF PostRelease
<1>2. rel \in Releases /\ pack \in Packages /\ release \in [Releases -> [Packages -> Objects]]
  BY <1>1, Constants DEF TypeOK, RunTypeOK, RecordsTypeOK, Finalizing, Steps, Packages
<1>3. (advance <=> Advances) /\ NewestOf(latest, Candidates)
  BY <1>1 DEF AloneInv, Undecided
<1>4. Target \in Releases \X Packages /\ Target[1] = rel /\ Target[2] = pack
  BY <1>2 DEF Target
<1>5. Candidates \in SUBSET (Releases \X Packages)
  BY DEF Candidates
<1>6. \A x \in Releases \X Packages :
        release'[x[1]][x[2]] = "exact" <=> release[x[1]][x[2]] = "exact" \/ x = Target
  BY <1>1, <1>2 DEF Target
<1>7. CASE LineOf[rel] = "main" /\ rel \in Stable
  <2>1. Candidates' = Candidates \cup {Target}
    BY <1>4, <1>6, <1>7 DEF Candidates
  <2>2. advance <=> latest = NoLatest \/ Newer(Target, latest)
    BY <1>3, <1>7 DEF Advances
  <2>3. NewestOf(latest', Candidates \cup {Target})
    BY <1>1, <1>3, <1>4, <1>5, <2>2, NewestGrows
  <2> QED BY <2>1, <2>3 DEF NewestOf, Newer
<1>8. CASE ~(LineOf[rel] = "main" /\ rel \in Stable)
  <2>1. Candidates' = Candidates
    BY <1>4, <1>6, <1>8 DEF Candidates
  <2>2. latest' = latest
    BY <1>1, <1>3, <1>8 DEF Advances
  <2> QED BY <1>3, <2>1, <2>2 DEF NewestOf, Newer
<1> QED BY <1>7, <1>8

LEMMA AloneStep == TypeOK /\ AloneInv /\ [Next]_vars => AloneInv'
<1> SUFFICES ASSUME TypeOK, AloneInv, [Next]_vars, meddles' = 0 PROVE AloneInv'
  BY DEF AloneInv
<1>t. /\ tag \in [Releases -> [Packages -> Objects]] /\ release \in [Releases -> [Packages -> Objects]]
      /\ pc \in Finalizing => rel \in Releases /\ pack \in Packages
  BY Constants DEF TypeOK, RunTypeOK, RecordsTypeOK, Finalizing, Steps, Packages
<1>m. meddles = 0 /\ ~(\E r \in Releases, k \in Packages : Meddle(r, k))
  <2>1. (\E r \in Releases, k \in Packages : Meddle(r, k)) \/ UNCHANGED meddles
    BY NextCases DEF vars, Passes, Ends, EndRun, Start, PublishCrate, StartFinalize, NextPackage,
       Finish, PostTag, Capture, PostRelease, MoveTip, Appear
  <2>2. ASSUME NEW r \in Releases, NEW k \in Packages, Meddle(r, k) PROVE meddles' = meddles + 1
    BY <2>2 DEF Meddle
  <2>3. meddles \in Nat
    BY Constants DEF TypeOK, RunTypeOK
  <2> QED BY <2>1, <2>2, <2>3
<1>a. /\ \A r \in Releases, k \in Packages : tag[r][k] # "foreign" /\ release[r][k] # "foreign"
      /\ pc \in Undecided => before = latest /\ (advance <=> Advances)
      /\ pc \in Tagged => tag[rel][pack] = "exact"
      /\ NewestOf(latest, Candidates)
  BY <1>m DEF AloneInv
<1>f. ASSUME UNCHANGED forge
      PROVE  /\ NewestOf(latest, Candidates)'
             /\ \A r \in Releases, k \in Packages : tag'[r][k] # "foreign" /\ release'[r][k] # "foreign"
  BY <1>a, <1>f DEF forge, NewestOf, Candidates, Newer
<1>u. ASSUME UNCHANGED <<forge, rel, pack>> PROVE Advances' = Advances
  BY <1>u DEF Advances, forge, Target, Newer
<1>1. ASSUME UNCHANGED <<forge, run, pc, pack, guard>> PROVE AloneInv'
  BY <1>1, <1>a, <1>f, <1>u DEF AloneInv, forge, run, guard
<1>2. CASE Passes /\ Reads
  <2>1. UNCHANGED <<forge, rel, pack, before, advance, tag, latest>>
    BY <1>2 DEF Passes, Records, run, guard, forge
  <2>2. pc' \in Undecided => pc \in Undecided
    BY <1>2, Arrivals DEF Undecided, Passes, Steps
  <2>3. pc' \in Tagged => pc \in Tagged \/ tag[rel][pack] = "exact"
    BY <1>2, Arrivals DEF Undecided, Tagged, Passes, Steps
  <2>4. Advances' = Advances
    BY <2>1, <1>u
  <2> QED BY <2>1, <2>2, <2>3, <2>4, <1>a, <1>f DEF AloneInv
<1>3. CASE Ends \/ Finish \/ StartFinalize \/ NextPackage
           \/ \E o \in Operations, r \in Releases, f \in BOOLEAN : Start(o, r, f)
  <2>1. UNCHANGED forge /\ pc' \in {"idle", "bind_package", "qualify"}
    BY <1>3 DEF Ends, Finish, EndRun, StartFinalize, NextPackage, Start
  <2> QED BY <2>1, <1>f DEF AloneInv, Undecided, Tagged
<1>4. CASE Capture
  <2>1. /\ pc = "capture" /\ pc' = "inspect_release" /\ before' = latest /\ advance' = Advances
        /\ UNCHANGED <<forge, rel, pack, tag, latest>>
    BY <1>4 DEF Capture, run, forge
  <2> QED BY <2>1, <1>a, <1>f, <1>u DEF AloneInv, Undecided, Tagged
<1>5. CASE PostTag
  <2>1. /\ pc = "post_tag" /\ pc' = "check_tag" /\ tag' = [tag EXCEPT ![rel][pack] = "exact"]
        /\ UNCHANGED <<release, latest>>
    BY <1>5 DEF PostTag
  <2>2. NewestOf(latest, Candidates)'
    BY <2>1, <1>a DEF NewestOf, Candidates, Newer
  <2>3. \A r \in Releases, k \in Packages : tag'[r][k] # "foreign" /\ release'[r][k] # "foreign"
    BY <2>1, <1>a, <1>t DEF Finalizing, Steps
  <2> QED BY <2>1, <2>2, <2>3 DEF AloneInv, Undecided, Tagged
<1>6. CASE PostRelease
  <2>1. /\ pc = "post_release" /\ pc' = "check_release"
        /\ release' = [release EXCEPT ![rel][pack] = "exact"]
        /\ tag' = [tag EXCEPT ![rel][pack] = IF @ = "absent" THEN "foreign" ELSE @]
        /\ UNCHANGED <<rel, pack>>
    BY <1>6 DEF PostRelease, run
  <2>2. rel \in Releases /\ pack \in Packages /\ tag[rel][pack] = "exact"
    BY <2>1, <1>a, <1>t DEF Finalizing, Steps, Tagged, Undecided
  <2>3. \A r \in Releases, k \in Packages : tag'[r][k] # "foreign" /\ release'[r][k] # "foreign"
    BY <2>1, <2>2, <1>a, <1>t
  <2>4. tag'[rel][pack] = "exact"
    BY <2>1, <2>2, <1>t
  <2>5. NewestOf(latest, Candidates)'
    BY <1>6, <1>m, PostIsNewest
  <2> QED BY <2>1, <2>3, <2>4, <2>5 DEF AloneInv, Undecided, Tagged
<1>7. CASE UNCHANGED vars
  BY <1>1, <1>7 DEF vars
<1>8. CASE \E k \in Packages : PublishCrate(k)
  BY <1>1, <1>8 DEF PublishCrate
<1>9. CASE (\E l \in Lines : MoveTip(l)) \/ \E r \in Releases, k \in Packages : Appear(r, k)
  BY <1>1, <1>9 DEF MoveTip, Appear
<1> QED BY <1>m, <1>2, <1>3, <1>4, <1>5, <1>6, <1>7, <1>8, <1>9, NextCases

\* As long as nobody else selects it, Latest is the newest stable Release of
\* main, for any order of releases, failures and recoveries.
THEOREM LatestCorrect == Spec => []LatestIsNewest
<1>1. AloneInv => LatestIsNewest
  BY DEF AloneInv, LatestIsNewest
<1> QED BY <1>1, TypeInit, TypeStep, AloneInit, AloneStep, PTL DEF Spec

-----------------------------------------------------------------------------
(* The workflow implements the ledger.                                     *)

LEMMA LedgerInit == Init => Ledger!Init
  BY DEF Init, Ledger!Init, Made

\* The choice of the ledger, for any Latest, candidates and Releases made.
LEMMA LedgerLatest ==
    ASSUME NEW x, NEW xs \in SUBSET (Releases \X Packages), NewestOf(x, xs),
           NEW rs, \A r \in Releases : rs[r] \subseteq Packages,
           \A r \in Releases, k \in Packages :
             <<r, k>> \in xs <=> LineOf[r] = "main" /\ r \in Stable /\ k \in rs[r]
    PROVE  Ledger!IsLatest(x, rs)
<1>1. \A r \in Releases : Ledger!Eligible(r) <=> LineOf[r] = "main" /\ r \in Stable
  BY DEF Ledger!Eligible
<1>2. CASE xs = {}
  <2>1. x = NoLatest
    BY <1>2 DEF NewestOf
  <2>2. \A r \in Releases : Ledger!Eligible(r) => rs[r] = {}
    BY <1>1, <1>2
  <2> QED BY <2>1, <2>2 DEF Ledger!IsLatest
<1>3. CASE xs # {}
  <2>1. x \in xs /\ \A y \in xs : ~Newer(y, x)
    BY <1>3 DEF NewestOf
  <2>2. PICK r \in Releases, k \in Packages : x = <<r, k>>
    BY <2>1
  <2>3. Ledger!Eligible(r) /\ k \in rs[r]
    BY <2>1, <2>2, <1>1
  <2>4. ASSUME NEW s \in Releases, Ledger!Eligible(s), NEW j \in rs[s]
        PROVE  ~Ledger!Newer(<<s, j>>, x)
    <3>1. <<s, j>> \in xs
      BY <2>4, <1>1
    <3>2. ~Newer(<<s, j>>, x)
      BY <2>1, <3>1
    <3> QED BY <3>2 DEF Newer, Ledger!Newer
  <2> QED BY <2>2, <2>3, <2>4 DEF Ledger!IsLatest
<1> QED BY <1>2, <1>3

LEMMA LedgerStep ==
    MaxMeddles = 0 /\ TypeOK /\ TypeOK' /\ FinalInv /\ AloneInv /\ AloneInv' /\ [Next]_vars
      => [Ledger!Next]_(Ledger!vars)
<1> SUFFICES ASSUME MaxMeddles = 0, TypeOK, TypeOK', FinalInv, AloneInv, AloneInv', [Next]_vars
             PROVE  [Ledger!Next]_(Ledger!vars)
  OBVIOUS
<1>t. /\ tag \in [Releases -> [Packages -> Objects]] /\ release \in [Releases -> [Packages -> Objects]]
      /\ pc \in Finalizing => rel \in Releases /\ pack \in Packages
      /\ pc # "idle" => rel \in Releases
      /\ latest' \in (Releases \X Packages) \cup {NoLatest}
      /\ meddles = 0 /\ meddles' = 0
  BY Constants DEF TypeOK, RunTypeOK, RecordsTypeOK, Finalizing, Steps, Packages
<1>p. Ledger!Packages = Packages
  BY DEF Packages, Ledger!Packages
<1>1. ASSUME UNCHANGED <<crates, forge>> PROVE UNCHANGED Ledger!vars
  BY <1>1 DEF forge, Ledger!vars, Made
<1>2. ASSUME NEW k \in Packages, PublishCrate(k) PROVE Ledger!Next
  <2>1. /\ rel \in Releases /\ k \notin crates[rel] /\ 1..(k - 1) \subseteq crates[rel]
        /\ crates' = [crates EXCEPT ![rel] = @ \cup {k}]
        /\ UNCHANGED <<tag, release, latest>>
    BY <1>2, <1>t DEF PublishCrate, forge
  <2>2. Ledger!Publish(rel, k)
    BY <2>1 DEF Ledger!Publish, Made
  <2> QED BY <2>1, <2>2, <1>p DEF Ledger!Next
<1>3. CASE PostTag
  <2>1. /\ pc \in Finalizing /\ tag[rel][pack] = "absent" /\ tag' = [tag EXCEPT ![rel][pack] = "exact"]
        /\ UNCHANGED <<crates, release, latest>>
    BY <1>3 DEF PostTag, Admitted, Finalizing, Steps, registry
  <2>2. rel \in Releases /\ pack \in Packages /\ crates[rel] = Packages
        /\ \A j \in 1..(pack - 1) : j \in Packages /\ release[rel][j] = "exact"
    <3>1. rel \in Releases /\ pack \in Packages
      BY <2>1, <1>t
    <3>2. crates[rel] = Packages /\ \A j \in 1..(pack - 1) : release[rel][j] = "exact"
      BY <2>1 DEF FinalInv, PlaceInv, Whole
    <3>3. \A j \in 1..(pack - 1) : j \in Packages
      BY <3>1, Constants DEF Packages
    <3> QED BY <3>1, <3>2, <3>3
  <2>3. Made(tag)' = [Made(tag) EXCEPT ![rel] = @ \cup {pack}]
    BY <2>1, <2>2, <1>t DEF Made
  <2>4. pack \notin Made(tag)[rel] /\ 1..(pack - 1) \subseteq Made(release)[rel]
    BY <2>1, <2>2 DEF Made
  <2>5. Made(release)' = Made(release)
    BY <2>1 DEF Made
  <2>6. Ledger!Tag(rel, pack)
    BY <2>1, <2>2, <2>3, <2>4, <2>5, <1>p DEF Ledger!Tag
  <2> QED BY <2>2, <2>6, <1>p DEF Ledger!Next
<1>4. CASE PostRelease
  <2>1. /\ pc = "post_release" /\ pc \in Finalizing /\ release[rel][pack] = "absent"
        /\ release' = [release EXCEPT ![rel][pack] = "exact"]
        /\ tag' = [tag EXCEPT ![rel][pack] = IF @ = "absent" THEN "foreign" ELSE @]
        /\ UNCHANGED crates
    BY <1>4 DEF PostRelease, Admitted, Finalizing, Steps, registry
  <2>2. rel \in Releases /\ pack \in Packages
        /\ \A j \in 1..(pack - 1) : j \in Packages /\ release[rel][j] = "exact"
    <3>1. rel \in Releases /\ pack \in Packages
      BY <2>1, <1>t
    <3>2. \A j \in 1..(pack - 1) : release[rel][j] = "exact"
      BY <2>1 DEF FinalInv, PlaceInv, Whole
    <3>3. \A j \in 1..(pack - 1) : j \in Packages
      BY <3>1, Constants DEF Packages
    <3> QED BY <3>1, <3>2, <3>3
  <2>3. tag[rel][pack] = "exact"
    BY <2>1, <1>t DEF AloneInv, Tagged, Undecided
  <2>4. Made(tag)' = Made(tag)
    BY <2>1, <2>2, <2>3, <1>t DEF Made
  <2>5. Made(release)' = [Made(release) EXCEPT ![rel] = @ \cup {pack}]
    BY <2>1, <2>2, <1>t DEF Made
  <2>6. pack \in Made(tag)[rel] \ Made(release)[rel] /\ 1..(pack - 1) \subseteq Made(release)[rel]
    BY <2>1, <2>2, <2>3 DEF Made
  <2>7. Ledger!IsLatest(latest', Made(release)')
    <3>1. NewestOf(latest', Candidates')
      BY <1>t DEF AloneInv, NewestOf, Newer
    <3>2. Candidates' \in SUBSET (Releases \X Packages)
      BY DEF Candidates
    <3>3. \A r \in Releases, k \in Packages : <<r, k>> \in Candidates' <=>
            LineOf[r] = "main" /\ r \in Stable /\ k \in Made(release)'[r]
      BY DEF Candidates, Made
    <3>4. \A r \in Releases : Made(release)'[r] \subseteq Packages
      BY DEF Made
    <3> QED BY <3>1, <3>2, <3>3, <3>4, LedgerLatest
  <2>8. Ledger!Release(rel, pack)
    BY <2>1, <2>2, <2>4, <2>5, <2>6, <2>7, <1>p, <1>t DEF Ledger!Release
  <2> QED BY <2>2, <2>8, <1>p DEF Ledger!Next
<1>5. ~(\E r \in Releases, k \in Packages : Meddle(r, k))
  BY <1>t DEF Meddle
<1>6. CASE UNCHANGED vars \/ (Passes /\ Reads) \/ Ends \/ Finish \/ StartFinalize \/ NextPackage \/ Capture
           \/ (\E o \in Operations, r \in Releases, f \in BOOLEAN : Start(o, r, f))
           \/ (\E l \in Lines : MoveTip(l)) \/ (\E r \in Releases, k \in Packages : Appear(r, k))
  BY <1>1, <1>6 DEF vars, Passes, Records, Ends, Finish, EndRun, StartFinalize, NextPackage, Capture,
     Start, MoveTip, Appear, registry
<1> QED BY <1>2, <1>3, <1>4, <1>5, <1>6, NextCases

\* If nobody else touches the records, the workflow implements the ledger.
THEOREM LedgerImplemented == MaxMeddles = 0 => (Spec => ImplementsLedger)
<1> SUFFICES ASSUME MaxMeddles = 0 PROVE Spec => ImplementsLedger
  OBVIOUS
<1>1. TypeOK /\ TypeOK' /\ FinalInv /\ AloneInv /\ AloneInv' /\ [Next]_vars => [Ledger!Next]_(Ledger!vars)
  BY LedgerStep
<1> QED
  BY <1>1, LedgerInit, TypeInit, TypeStep, FinalInit, FinalStep, AloneInit, AloneStep, PTL
     DEF Spec, ImplementsLedger, Ledger!Spec

-----------------------------------------------------------------------------
(* The local commands: the parts of the inductive invariant.               *)

CommandSteps ==
    {"update", "updated", "derive", "set", "written", "managed", "compare", "restore", "select",
     "agree", "agreed", "validate", "validated", "finish"}

\* The steps a command goes through.
StepsOf(command) ==
    IF command = "prepare" THEN CommandSteps
    ELSE IF command = "check" THEN {"agree", "agreed", "finish"}
    ELSE {"select", "agree", "agreed", "finish"}

Underway == [step : CommandSteps, command : {"prepare", "check", "activate"}, version : Version,
             line : ReleaseLines, original : Version, derived : Version,
             pending : SUBSET AllPackages, failed : BOOLEAN]

CommitRecord == [tree : Tree, parent : Nat]

TypeInv ==
    /\ tree \in Tree /\ lock \in {"absent", "generated", "irregular"}
    /\ commits \in Seq(CommitRecord)
    /\ \A c \in DOMAIN commits : commits[c].parent < c
    /\ head \in DOMAIN commits
    /\ tips \in [ReleaseLines -> 0 .. Len(commits)]
    /\ tags \subseteq [version : Version, commit : DOMAIN commits]
    /\ vetted \subseteq [commit : DOMAIN commits, line : ReleaseLines]
    /\ proposal \subseteq [commit : DOMAIN commits, line : ReleaseLines]
    /\ work \in {Idle} \union Underway
    /\ last \in [command : {"none", "prepare", "check", "activate"}, ok : BOOLEAN]

\* Every package of a tree inherits the workspace version.
Inherits(t) == \A p \in AllPackages : t.manifests[p] = Inherited

\* What a preparation that stopped halfway leaves: a literal version is never
\* the workspace's, and only packages of the workspace version's family have one.
Telling(t) ==
    \A p \in AllPackages : \/ t.manifests[p] = Inherited
                           \/ p \in Family(t.version) /\ t.manifests[p].version # t.version

\* No tree goes back behind the commit it was made from.
TreesInv ==
    /\ Telling(tree) /\ ~Precedes(tree.version, Committed.version)
    /\ \A c \in DOMAIN commits :
        /\ Telling(commits[c].tree)
        /\ commits[c].parent # 0 =>
            ~Precedes(commits[c].tree.version, commits[commits[c].parent].tree.version)

CoherentAt(c) == Coherent(commits[c].tree, commits[c].tree.version)

\* What is vetted, tagged, proposed or at the tip of a line is coherent, and so
\* is what a finished activation leaves to be committed.
VettedInv ==
    /\ \A r \in vetted : CoherentAt(r.commit)
    /\ \A r \in tags : CoherentAt(r.commit)
    /\ \A r \in proposal : CoherentAt(r.commit)
    /\ \A line \in ReleaseLines : tips[line] # 0 => CoherentAt(tips[line])
    /\ work = Idle /\ last = [command |-> "activate", ok |-> TRUE] /\ ~Clean
        => Coherent(tree, tree.version)

\* Where a command is tells what the tree holds.
InOrder == work.step \in StepsOf(work.command)

FromTip ==
    work.command # "check" =>
        /\ \E line \in ReleaseLines : head = tips[line]
        /\ Precedes(Committed.version, work.version)

\* Manifests state literal versions only between set-version and the last
\* manifest restored, and the workspace version is still the derived one there.
Literally == {"written", "managed", "compare", "restore"}

Inheriting == work.command # "check" /\ work.step \notin Literally => Inherits(tree)

Adjusting ==
    work.step \in {"set"} \union Literally =>
        /\ tree.version = work.derived /\ work.derived # work.version
        /\ Family(work.version) = Family(work.derived)

Restoring ==
    work.step = "restore" => \A p \in AllPackages \ work.pending : tree.manifests[p] = Inherited

Selected ==
    work.command = "prepare" /\ work.step \in {"agree", "agreed", "validate", "validated", "finish"}
        => tree.version = work.version

Passed ==
    work.step = "finish" \/ (work.step \in {"agreed", "validated"} /\ ~work.failed)
        => Validates(tree, tree.version)

WorkInv ==
    work # Idle =>
        /\ InOrder /\ FromTip /\ Inheriting /\ Adjusting /\ Restoring /\ Selected /\ Passed

\* Outside the steps between a tool and its cleanup a command has no lock.
LockInv == (IF work = Idle THEN last.ok ELSE work.step \notin Cleaning) => lock = "absent"

Inv == TypeInv /\ TreesInv /\ VettedInv /\ WorkInv /\ LockInv

\* Main is past the line: its tip, and a published stable version.
Behind(line) ==
    /\ commits[tips[Main]].tree.version.minor > line.minor
    /\ \E s \in PublishedVersions : IsStable(s) /\ s.minor > line.minor

\* One support line at most is open, behind main; every tag is on main, or it
\* follows what was published before on the support line.
LineInv ==
    /\ tips[Main] # 0
    /\ \A r \in tags : r.version = commits[r.commit].tree.version
    /\ \A r \in proposal : r.line # Main /\ Behind(r.line)
    /\ \A line \in ReleaseLines \ {Main} : tips[line] # 0 => Behind(line) /\ proposal = {}
    /\ \A k, line \in ReleaseLines \ {Main} : tips[k] # 0 /\ tips[line] # 0 => k = line
    /\ \A r \in tags : \/ r.commit \in Ancestors(tips[Main])
                       \/ \E line \in ReleaseLines \ {Main} : tips[line] # 0 /\ Follows(line, r.version)

-----------------------------------------------------------------------------
(* Versions, trees and what the tools make of them.                        *)

\* Versions are totally ordered.
LEMMA Order ==
    /\ \A v \in Version : ~Precedes(v, v)
    /\ \A u, v \in Version : Precedes(u, v) => ~Precedes(v, u)
    /\ \A u, v, w \in Version : ~Precedes(v, u) /\ ~Precedes(w, v) => ~Precedes(w, u)
BY Bounds DEF Version, StableOrdinal, Precedes, SameCore

\* release-plz update leaves the manifests alone and never goes back.
LEMMA Updates ==
    ASSUME tree \in Tree, NEW e \in UpdateEffects
    PROVE  /\ e.tree \in Tree /\ e.ok \in BOOLEAN
           /\ e.tree.manifests = tree.manifests
           /\ ~Precedes(e.tree.version, tree.version)
<1>1. tree.version \in Version
  BY DEF Tree
<1>2. PICK v \in Derivations(tree.version) :
        LET done == [tree EXCEPT !.version = v, !.changelogs = v,
                                 !.requirements = [p \in RustPackages |-> v]]
        IN  e \in {[tree |-> done, ok |-> TRUE], [tree |-> [done EXCEPT !.stray = TRUE], ok |-> TRUE],
                   [tree |-> [tree EXCEPT !.changelogs = v], ok |-> FALSE],
                   [tree |-> [tree EXCEPT !.version = v], ok |-> FALSE],
                   [tree |-> done, ok |-> FALSE]}
  BY DEF UpdateEffects
<1>3. v \in Version /\ ~Precedes(v, tree.version) /\ ~Precedes(tree.version, tree.version)
  BY <1>1, <1>2, Order, DerivationAssumption
<1>4. [p \in RustPackages |-> v] \in [RustPackages -> Version]
  BY <1>3
<1> DEFINE done == [tree EXCEPT !.version = v, !.changelogs = v,
                                !.requirements = [p \in RustPackages |-> v]]
<1> DEFINE Fine(t) == /\ t \in Tree /\ t.manifests = tree.manifests
                      /\ ~Precedes(t.version, tree.version)
<1>5. done \in Tree /\ done.manifests = tree.manifests /\ done.version = v
  BY <1>3, <1>4 DEF Tree
<1>6. Fine(done) /\ Fine([done EXCEPT !.stray = TRUE])
  <2>1. /\ [done EXCEPT !.stray = TRUE] \in Tree
        /\ [done EXCEPT !.stray = TRUE].manifests = tree.manifests
        /\ [done EXCEPT !.stray = TRUE].version = v
    BY <1>5 DEF Tree
  <2> HIDE DEF done
  <2> QED BY <1>3, <1>5, <2>1
<1>7. Fine([tree EXCEPT !.changelogs = v])
  <2>1. /\ [tree EXCEPT !.changelogs = v] \in Tree
        /\ [tree EXCEPT !.changelogs = v].manifests = tree.manifests
        /\ [tree EXCEPT !.changelogs = v].version = tree.version
    BY <1>3 DEF Tree
  <2> QED BY <1>3, <2>1
<1>8. Fine([tree EXCEPT !.version = v])
  <2>1. /\ [tree EXCEPT !.version = v] \in Tree
        /\ [tree EXCEPT !.version = v].manifests = tree.manifests
        /\ [tree EXCEPT !.version = v].version = v
    BY <1>3 DEF Tree
  <2> QED BY <1>3, <2>1
<1>9. \/ e = [tree |-> done, ok |-> TRUE] \/ e = [tree |-> [done EXCEPT !.stray = TRUE], ok |-> TRUE]
      \/ e = [tree |-> [tree EXCEPT !.changelogs = v], ok |-> FALSE]
      \/ e = [tree |-> [tree EXCEPT !.version = v], ok |-> FALSE]
      \/ e = [tree |-> done, ok |-> FALSE]
  BY <1>2
<1> HIDE DEF done, Fine
<1>10. \E t, ok : Fine(t) /\ ok \in BOOLEAN /\ e = [tree |-> t, ok |-> ok]
  BY <1>6, <1>7, <1>8, <1>9, Zenon
<1>11. Fine(e.tree) /\ e.ok \in BOOLEAN
  BY <1>10
<1> QED BY <1>11 DEF Fine

\* release-plz set-version writes the selected version, and only into
\* manifests of its family.
LEMMA Settings ==
    ASSUME tree \in Tree, work \in Underway, NEW e \in SetVersionEffects
    PROVE  /\ e.tree \in Tree /\ e.ok \in BOOLEAN
           /\ e.tree.version = tree.version
           /\ \A p \in AllPackages :
                \/ e.tree.manifests[p] = tree.manifests[p]
                \/ p \in Family(work.version) /\ e.tree.manifests[p].version = work.version
<1> DEFINE Stating(packages) == [p \in AllPackages |->
                IF p \in packages THEN Literal(work.version) ELSE tree.manifests[p]]
           Stated(packages) == [tree EXCEPT !.manifests = Stating(packages)]
           Required(t) == [t EXCEPT !.requirements = [p \in RustPackages |-> work.version]]
           Changed(manifests) ==
                /\ manifests \in [AllPackages -> Manifest]
                /\ \A p \in AllPackages :
                    \/ manifests[p] = tree.manifests[p]
                    \/ p \in Family(work.version) /\ manifests[p].version = work.version
           Fine(t) == t \in Tree /\ t.version = tree.version /\ Changed(t.manifests)
           family == Family(work.version)
<1>1. work.version \in Version /\ tree.manifests \in [AllPackages -> Manifest]
  BY DEF Underway, Tree
<1>2. family \subseteq AllPackages
  BY DEF Family, AllPackages
<1>3. /\ Literal(work.version) \in Manifest /\ Literal(work.version).version = work.version
      /\ Altered(work.version) \in Manifest /\ Altered(work.version).version = work.version
  BY <1>1 DEF Literal, Altered, Manifest
<1>4. ASSUME NEW packages \in SUBSET family PROVE Changed(Stating(packages))
  BY <1>1, <1>3
<1>5. ASSUME NEW p \in family, NEW m, Changed(m)
      PROVE  Changed([m EXCEPT ![p] = Altered(work.version)])
  BY <1>2, <1>3, <1>5
<1>6. ASSUME NEW m, Changed(m), NEW t, Fine(t)
      PROVE  /\ Fine([t EXCEPT !.manifests = m]) /\ Fine([t EXCEPT !.stray = TRUE])
             /\ Fine(Required(t))
             /\ Required(t).manifests = t.manifests
             /\ [t EXCEPT !.manifests = m].manifests = m
  <2>1. [p \in RustPackages |-> work.version] \in [RustPackages -> Version]
    BY <1>1
  <2>2. /\ t \in Tree /\ m \in [AllPackages -> Manifest] /\ t.version = tree.version
        /\ Changed(t.manifests)
    BY <1>6
  <2>3. /\ [t EXCEPT !.manifests = m] \in Tree /\ [t EXCEPT !.manifests = m].version = t.version
        /\ [t EXCEPT !.manifests = m].manifests = m
    BY <2>2 DEF Tree
  <2>4. /\ [t EXCEPT !.stray = TRUE] \in Tree /\ [t EXCEPT !.stray = TRUE].version = t.version
        /\ [t EXCEPT !.stray = TRUE].manifests = t.manifests
    BY <2>2 DEF Tree
  <2>5. /\ Required(t) \in Tree /\ Required(t).version = t.version
        /\ Required(t).manifests = t.manifests
    BY <2>1, <2>2 DEF Tree
  <2> HIDE DEF Changed, Required
  <2> QED BY <1>6, <2>2, <2>3, <2>4, <2>5
<1>7. Fine(tree)
  BY <1>1
<1> HIDE DEF Changed, Fine
<1>8. ASSUME NEW packages \in SUBSET family
      PROVE  /\ Fine(Stated(packages)) /\ Stated(packages).manifests = Stating(packages)
  BY <1>4, <1>6, <1>7
<1> DEFINE all == Stated(family)
<1>9. Fine(all) /\ Changed(all.manifests)
  BY <1>8, <1>4
<1>10. /\ Fine(Required(all)) /\ Changed(Required(all).manifests)
       /\ Fine([Required(all) EXCEPT !.stray = TRUE])
  <2>1. Fine(Required(all)) /\ Required(all).manifests = all.manifests
    BY <1>6, <1>9
  <2> HIDE DEF all, Required
  <2> QED BY <1>6, <1>9, <2>1
<1>11. \/ e \in {[tree |-> Required(all), ok |-> TRUE], [tree |-> all, ok |-> TRUE],
                 [tree |-> [Required(all) EXCEPT !.stray = TRUE], ok |-> TRUE]}
       \/ \E p \in family :
            e = [tree |-> [Required(all) EXCEPT !.manifests[p] = Altered(work.version)], ok |-> TRUE]
       \/ \E some \in SUBSET family : e = [tree |-> Stated(some), ok |-> FALSE]
  BY Zenon DEF SetVersionEffects
<1> DEFINE base == Required(all)
<1>12. ASSUME NEW p \in family PROVE Fine([base EXCEPT !.manifests[p] = Altered(work.version)])
  <2>1. Fine(base) /\ Changed(base.manifests)
    BY <1>10
  <2> HIDE DEF base
  <2>2. Changed([base.manifests EXCEPT ![p] = Altered(work.version)])
    BY <1>5, <2>1
  <2> QED BY <1>6, <2>1, <2>2
<1>13. \E t, ok : Fine(t) /\ ok \in BOOLEAN /\ e = [tree |-> t, ok |-> ok]
  <2>1. CASE e \in {[tree |-> base, ok |-> TRUE], [tree |-> all, ok |-> TRUE],
                     [tree |-> [base EXCEPT !.stray = TRUE], ok |-> TRUE]}
    <3> HIDE DEF base, all
    <3>1. \/ e = [tree |-> base, ok |-> TRUE] \/ e = [tree |-> all, ok |-> TRUE]
          \/ e = [tree |-> [base EXCEPT !.stray = TRUE], ok |-> TRUE]
      BY <2>1
    <3>2. Fine(base) /\ Fine(all) /\ Fine([base EXCEPT !.stray = TRUE])
      BY <1>9, <1>10 DEF base
    <3> QED BY <3>1, <3>2, Zenon
  <2>2. CASE \E p \in family :
            e = [tree |-> [base EXCEPT !.manifests[p] = Altered(work.version)], ok |-> TRUE]
    <3> HIDE DEF base
    <3> QED BY <2>2, <1>12, Zenon
  <2>3. CASE \E some \in SUBSET family : e = [tree |-> Stated(some), ok |-> FALSE]
    <3> HIDE DEF Stated
    <3> QED BY <2>3, <1>8, Zenon
  <2> QED BY <1>11, <2>1, <2>2, <2>3
<1>14. Fine(e.tree) /\ e.ok \in BOOLEAN
  BY <1>13
<1> QED BY <1>14 DEF Changed, Fine

\* Making the requirements agree leaves version and manifests alone, and it
\* succeeds only on a valid tree.
LEMMA Agreements ==
    ASSUME tree \in Tree, NEW e \in AgreeEffects
    PROVE  /\ e.tree \in Tree /\ e.ok \in BOOLEAN
           /\ e.tree.version = tree.version /\ e.tree.manifests = tree.manifests
           /\ work.command # "activate" => e.tree = tree
           /\ e.ok => Validates(e.tree, e.tree.version)
<1>1. CASE work.command # "activate"
  <2>1. PICK ok \in BOOLEAN : /\ ok = (RequirementsAgree(tree) /\ Validates(tree, tree.version))
                              /\ e \in {[tree |-> tree, ok |-> ok], [tree |-> tree, ok |-> FALSE]}
    BY <1>1, Zenon DEF AgreeEffects, Verdicts, RequirementsAgree, Validates
  <2>2. e.tree = tree /\ (e.ok = ok \/ e.ok = FALSE)
    BY <2>1
  <2> QED BY <1>1, <2>1, <2>2
<1>2. CASE work.command = "activate"
  <2> DEFINE synced == [tree EXCEPT !.requirements = [p \in RustPackages |-> tree.version]]
  <2>1. PICK ok \in BOOLEAN :
            /\ ok = (Validates(synced, tree.version) /\ synced # tree)
            /\ \/ e = [tree |-> tree, ok |-> FALSE]
               \/ e \in {[tree |-> synced, ok |-> ok], [tree |-> synced, ok |-> FALSE]}
    <3> HIDE DEF Validates
    <3>1. PICK ok \in BOOLEAN : ok = (Validates(synced, tree.version) /\ synced # tree)
      BY Zenon
    <3>2. e \in {[tree |-> tree, ok |-> FALSE]} \union Verdicts(synced, ok)
      BY <1>2, <3>1, Zenon DEF AgreeEffects
    <3> QED BY <3>1, <3>2, Zenon DEF Verdicts
  <2>2. [p \in RustPackages |-> tree.version] \in [RustPackages -> Version]
    BY DEF Tree
  <2>3. synced \in Tree /\ synced.version = tree.version /\ synced.manifests = tree.manifests
    BY <2>2 DEF Tree
  <2> HIDE DEF synced
  <2>4. \/ e.tree = tree /\ e.ok = FALSE
        \/ e.tree = synced /\ (e.ok = ok \/ e.ok = FALSE)
    BY <2>1
  <2> QED BY <1>2, <2>1, <2>3, <2>4
<1> QED BY <1>1, <1>2

-----------------------------------------------------------------------------
(* Types.                                                                  *)

LEMMA Busy ==
    ASSUME TypeInv
    PROVE  /\ work # Idle => work \in Underway
           /\ work.step # "idle" => work # Idle
           /\ work \in Underway => work # Idle
BY DEF TypeInv, Idle, Underway, CommandSteps

LEMMA CommitsTyped ==
    ASSUME TypeInv
    PROVE  /\ DOMAIN commits = 1 .. Len(commits) /\ Len(commits) \in Nat
           /\ \A c \in DOMAIN commits : /\ commits[c].tree \in Tree /\ commits[c].parent \in Nat
                                        /\ commits[c].tree.version \in Version
           /\ Committed \in Tree /\ Committed.version \in Version /\ tree.version \in Version
<1>1. DOMAIN commits = 1 .. Len(commits) /\ Len(commits) \in Nat
  BY DEF TypeInv
<1>2. ASSUME NEW t \in Tree PROVE t.version \in Version
  BY DEF Tree
<1>3. ASSUME NEW c \in DOMAIN commits PROVE commits[c].tree \in Tree /\ commits[c].parent \in Nat
  <2>1. commits[c] \in CommitRecord
    BY <1>1 DEF TypeInv
  <2> QED BY <2>1 DEF CommitRecord
<1> QED BY <1>1, <1>2, <1>3 DEF TypeInv, Committed

\* One commit more.
LEMMA OneMore ==
    ASSUME TypeInv, NEW t \in Tree, NEW parent \in DOMAIN commits,
           commits' = Append(commits, [tree |-> t, parent |-> parent])
    PROVE  /\ commits' \in Seq(CommitRecord) /\ Len(commits') = Len(commits) + 1
           /\ DOMAIN commits' = DOMAIN commits \union {Len(commits) + 1}
           /\ \A c \in DOMAIN commits : commits'[c] = commits[c]
           /\ commits'[Len(commits) + 1] = [tree |-> t, parent |-> parent]
           /\ \A c \in DOMAIN commits' : commits'[c].parent < c
<1>1. parent \in Nat /\ parent < Len(commits) + 1
  BY CommitsTyped
<1>2. [tree |-> t, parent |-> parent] \in CommitRecord
  BY <1>1 DEF CommitRecord
<1>3. /\ commits' \in Seq(CommitRecord) /\ Len(commits') = Len(commits) + 1
      /\ DOMAIN commits' = DOMAIN commits \union {Len(commits) + 1}
      /\ \A c \in DOMAIN commits : commits'[c] = commits[c]
      /\ commits'[Len(commits) + 1] = [tree |-> t, parent |-> parent]
  BY <1>2 DEF TypeInv
<1> QED BY <1>1, <1>3 DEF TypeInv

\* A step that leaves the commits and what names them alone.
LEMMA LocalType ==
    ASSUME TypeInv, tree' \in Tree, lock' \in {"absent", "generated", "irregular"},
           work' \in {Idle} \union Underway,
           last' \in [command : {"none", "prepare", "check", "activate"}, ok : BOOLEAN],
           UNCHANGED <<commits, head, tips, tags, proposal>>,
           vetted' \subseteq [commit : DOMAIN commits, line : ReleaseLines]
    PROVE  TypeInv'
BY DEF TypeInv

LEMMA Begun ==
    ASSUME TypeInv, NEW command \in {"prepare", "check", "activate"}, NEW version \in Version,
           NEW line \in ReleaseLines, NEW step \in CommandSteps, Begin(command, version, line, step)
    PROVE  work' \in Underway
BY CommitsTyped DEF Begin, Underway

LEMMA Going ==
    ASSUME work \in Underway, NEW step \in CommandSteps
    PROVE  [work EXCEPT !.step = step] \in Underway
BY DEF Underway

LEMMA Stopping ==
    ASSUME work \in Underway, StopCommand
    PROVE  /\ work' = Idle /\ last'.ok = FALSE
           /\ last' \in [command : {"none", "prepare", "check", "activate"}, ok : BOOLEAN]
BY DEF StopCommand, Underway

\* Each step of a command, and the maintainer's, keeps the types.
LEMMA ToolType ==
    ASSUME TypeInv, NEW step \in CommandSteps, NEW next \in CommandSteps, NEW effects,
           \A e \in effects : e.tree \in Tree /\ e.ok \in BOOLEAN,
           Tool(step, next, effects)
    PROVE  TypeInv'
<1>1. work \in Underway
  BY Busy DEF Tool, CommandSteps
<1>2. CASE LockAbsent
  <2>1. PICK e \in effects : tree' = e.tree /\ work' = [work EXCEPT !.step = next, !.failed = ~e.ok]
    BY <1>2 DEF Tool
  <2>2. work' \in Underway
    BY <1>1, <2>1 DEF Underway
  <2>3. tree' \in Tree
    BY <2>1
  <2> QED BY <1>2, <2>2, <2>3, LocalType DEF Tool, repository, TypeInv
<1>3. CASE ~LockAbsent
  <2>1. StopCommand /\ UNCHANGED <<tree, lock>>
    BY <1>3 DEF Tool
  <2> QED BY <1>1, <2>1, Stopping, LocalType DEF Tool, repository, TypeInv
<1> QED BY <1>2, <1>3

LEMMA CleanUpType ==
    ASSUME TypeInv, NEW step \in CommandSteps, NEW next \in CommandSteps, CleanUp(step, next)
    PROVE  TypeInv'
<1>1. work \in Underway
  BY Busy DEF CleanUp, CommandSteps
<1>2. lock' \in {"absent", "generated", "irregular"}
  BY DEF CleanUp, TypeInv
<1>3. Goto(next) \/ StopCommand
  BY DEF CleanUp, Require
<1>4. CASE Goto(next)
  BY <1>1, <1>2, <1>4, Going, LocalType DEF CleanUp, Goto, repository, TypeInv
<1>5. CASE StopCommand
  BY <1>1, <1>2, <1>5, Stopping, LocalType DEF CleanUp, repository, TypeInv
<1> QED BY <1>3, <1>4, <1>5

LEMMA StartType == ASSUME TypeInv, StartCommand PROVE TypeInv'
<1>1. PICK v \in Requests, command \in {"prepare", "check", "activate"} :
        \/ /\ \/ command = "activate" /\ Activate(v)
              \/ \E named \in {{}} \union {{line} : line \in ReleaseLines}, line \in ReleaseLines :
                    /\ Resolves(named, line)
                    /\ \/ command = "prepare" /\ Prepare(v, line)
                       \/ command = "check" /\ Check(v, line)
           /\ UNCHANGED last
        \/ work' = Idle /\ last' = [command |-> command, ok |-> FALSE]
  BY DEF StartCommand
<1>2. v \in Version /\ Activated(v) \in Version /\ Main \in ReleaseLines
  BY RequestAssumption, Bounds DEF Version, StableOrdinal, Activated, ReleaseLines
<1>3. CASE work' = Idle /\ last' = [command |-> command, ok |-> FALSE]
  BY <1>3, LocalType DEF StartCommand, repository, TypeInv
<1>4. CASE Activate(v) /\ UNCHANGED last
  <2>1. work' \in Underway
    BY <1>2, <1>4, Begun DEF Activate, CommandSteps
  <2> QED BY <1>4, <2>1, LocalType DEF StartCommand, repository, TypeInv
<1>5. ASSUME NEW line \in ReleaseLines, Prepare(v, line) \/ Check(v, line), UNCHANGED last PROVE TypeInv'
  <2>1. work' \in Underway
    BY <1>2, <1>5, Begun DEF Prepare, Check, CommandSteps
  <2> QED BY <1>5, <2>1, LocalType DEF StartCommand, repository, TypeInv
<1> QED BY <1>1, <1>3, <1>4, <1>5

LEMMA AdvanceType == ASSUME TypeInv, Advance PROVE TypeInv'
<1>1. CASE Update
  <2>1. \A e \in UpdateEffects : e.tree \in Tree /\ e.ok \in BOOLEAN
    BY Updates DEF TypeInv
  <2> QED BY <1>1, <2>1, ToolType DEF Update, CommandSteps
<1>2. CASE SetVersion
  <2>1. work \in Underway
    BY <1>2, Busy DEF SetVersion, Tool
  <2>2. \A e \in SetVersionEffects : e.tree \in Tree /\ e.ok \in BOOLEAN
    BY <2>1, Settings DEF TypeInv
  <2> QED BY <1>2, <2>2, ToolType DEF SetVersion, CommandSteps
<1>3. CASE Agree
  <2>1. \A e \in AgreeEffects : e.tree \in Tree /\ e.ok \in BOOLEAN
    BY Agreements DEF TypeInv
  <2> QED BY <1>3, <2>1, ToolType DEF Agree, CommandSteps
<1>4. CASE Validate
  <2>1. PICK ok \in BOOLEAN : ok = Validates(tree, work.version)
    BY Zenon DEF Validates
  <2>2. Tool("validate", "validated", Verdicts(tree, ok))
    BY <1>4, <2>1, Zenon DEF Validate
  <2>3. ASSUME NEW e \in Verdicts(tree, ok) PROVE e.tree \in Tree /\ e.ok \in BOOLEAN
    <3>1. e = [tree |-> tree, ok |-> ok] \/ e = [tree |-> tree, ok |-> FALSE]
      BY DEF Verdicts
    <3>2. e.tree = tree /\ (e.ok = ok \/ e.ok = FALSE)
      BY <3>1
    <3> QED BY <2>1, <3>2 DEF TypeInv
  <2> QED BY <2>2, <2>3, ToolType DEF CommandSteps
<1>5. CASE Updated \/ Written \/ Agreed \/ Validated
  BY <1>5, CleanUpType DEF Updated, Written, Agreed, Validated, CommandSteps
<1>6. CASE Derive
  <2>1. work \in Underway
    BY <1>6, Busy DEF Derive
  <2>2. \/ Goto("validate") \/ StopCommand
        \/ work' = [work EXCEPT !.step = "set", !.derived = tree.version] /\ UNCHANGED last
    BY <1>6 DEF Derive
  <2>3. work' \in {Idle} \union Underway /\ (UNCHANGED last \/ StopCommand)
    BY <2>1, <2>2, Stopping, CommitsTyped DEF Goto, Underway, CommandSteps
  <2> QED BY <1>6, <2>1, <2>3, Stopping, LocalType DEF Derive, repository, TypeInv
<1>7. CASE Managed
  <2>1. work \in Underway
    BY <1>7, Busy DEF Managed
  <2>2. Goto("compare") \/ StopCommand
    BY <1>7 DEF Managed, Require
  <2>3. work' \in {Idle} \union Underway /\ (UNCHANGED last \/ StopCommand)
    BY <2>1, <2>2, Stopping, Going DEF Goto, CommandSteps
  <2> QED BY <1>7, <2>1, <2>3, Stopping, LocalType DEF Managed, repository, TypeInv
<1>8. CASE Compare
  <2>1. work \in Underway
    BY <1>8, Busy DEF Compare
  <2>2. \/ StopCommand
        \/ /\ work' = [work EXCEPT !.step = "restore", !.pending = Family(work.derived)]
           /\ UNCHANGED last
    BY <1>8 DEF Compare
  <2>3. Family(work.derived) \in SUBSET AllPackages
    BY DEF Family, AllPackages
  <2>4. work' \in {Idle} \union Underway /\ (UNCHANGED last \/ StopCommand)
    BY <2>1, <2>2, <2>3, Stopping DEF Underway, CommandSteps
  <2> QED BY <1>8, <2>1, <2>4, Stopping, LocalType DEF Compare, repository, TypeInv
<1>9. CASE Restore
  <2>1. work \in Underway
    BY <1>9, Busy DEF Restore
  <2>2. work' \in Underway /\ tree' \in Tree
    <3>1. ASSUME NEW p \in work.pending, tree' = [tree EXCEPT !.manifests[p] = Inherited],
                 work' = [work EXCEPT !.pending = @ \ {p}]
          PROVE  work' \in Underway /\ tree' \in Tree
      BY <2>1, <3>1 DEF Underway, TypeInv, Tree, Manifest
    <3>2. CASE work' = [work EXCEPT !.step = "select"] /\ UNCHANGED tree
      BY <2>1, <3>2, Going DEF CommandSteps, TypeInv
    <3> QED BY <1>9, <3>1, <3>2 DEF Restore
  <2> QED BY <1>9, <2>2, LocalType DEF Restore, repository, TypeInv
<1>10. CASE Select
  <2>1. work \in Underway /\ work.version \in Version
    BY <1>10, Busy DEF Select, Underway
  <2>2. CASE tree.version = work.derived
    <3>1. tree' \in Tree
      BY <1>10, <2>1, <2>2 DEF Select, TypeInv, Tree
    <3>2. work' \in Underway
      BY <1>10, <2>1, <2>2, Going DEF Select, Goto, CommandSteps
    <3> QED BY <1>10, <2>2, <3>1, <3>2, LocalType DEF Select, Goto, repository, TypeInv
  <2>3. CASE tree.version # work.derived
    BY <1>10, <2>1, <2>3, Stopping, LocalType DEF Select, repository, TypeInv
  <2> QED BY <2>2, <2>3
<1>11. CASE FinishCommand
  <2>1. work \in Underway
    BY <1>11, Busy DEF FinishCommand
  <2>2. work' = Idle /\ UNCHANGED <<tree, lock, commits, head, tips, tags, proposal>>
    BY <1>11 DEF FinishCommand
  <2>3. PICK ok \in BOOLEAN :
            /\ last' = [command |-> work.command, ok |-> ok]
            /\ vetted' \subseteq vetted \union {[commit |-> head, line |-> work.line]}
    <3>1. PICK ok \in BOOLEAN : ok = ( /\ LockAbsent
                 /\ CASE work.command = "prepare" -> ManagedDiff
                      [] work.command = "check" -> Clean
                      [] work.command = "activate" -> OnlyRootChanged /\ tree.version = work.version)
      <4>1. work.command \in {"prepare", "check", "activate"}
        BY <2>1 DEF Underway
      <4> QED BY <4>1, Zenon DEF ManagedDiff, Clean, OnlyRootChanged
    <3>2. /\ last' = [command |-> work.command, ok |-> ok]
          /\ vetted' = vetted \union {r \in {[commit |-> head, line |-> work.line]} :
                                        ok /\ work.command = "check"}
      BY <1>11, <3>1, Zenon DEF FinishCommand
    <3> QED BY <3>2
  <2>4. /\ last' \in [command : {"none", "prepare", "check", "activate"}, ok : BOOLEAN]
        /\ vetted' \subseteq [commit : DOMAIN commits, line : ReleaseLines]
    BY <2>1, <2>3 DEF Underway, TypeInv
  <2> QED BY <2>2, <2>4, LocalType DEF TypeInv
<1> QED BY <1>1, <1>2, <1>3, <1>4, <1>5, <1>6, <1>7, <1>8, <1>9, <1>10, <1>11 DEF Advance

LEMMA RestType ==
    ASSUME TypeInv, [CommandsNext]_commandsVars, ~StartCommand, ~Advance
    PROVE  TypeInv'
<1>1. CASE InterruptCommand
  <2>1. work \in Underway
    BY <1>1, Busy DEF InterruptCommand
  <2>2. tree' \in Tree
    <3>1. tree' = tree \/ tree' = [tree EXCEPT !.stray = TRUE]
      BY <1>1 DEF InterruptCommand
    <3> QED BY <3>1 DEF TypeInv, Tree
  <2> QED BY <1>1, <2>1, <2>2, Stopping, LocalType DEF InterruptCommand, repository, TypeInv
<1>2. CASE Discard \/ RemoveLock
  BY <1>2, CommitsTyped, LocalType DEF Discard, RemoveLock, repository, TypeInv
<1>3. CASE Checkout
  <2>1. PICK line \in ReleaseLines : /\ tips[line] # 0 /\ head' = tips[line]
                                     /\ tree' = commits[head'].tree
    BY <1>3 DEF Checkout
  <2>2. head' \in DOMAIN commits
    BY <2>1 DEF TypeInv
  <2>3. tree' \in Tree
    BY <2>1, <2>2, CommitsTyped
  <2> QED BY <1>3, <2>2, <2>3 DEF Checkout, TypeInv
<1>4. CASE MakeCommit
  <2>1. /\ commits' = Append(commits, [tree |-> tree, parent |-> head])
        /\ head' = Len(commits) + 1
        /\ vetted' \subseteq vetted \union {[commit |-> Len(commits) + 1, line |-> Main]}
    BY <1>4 DEF MakeCommit
  <2>2. Main \in ReleaseLines /\ tree \in Tree /\ head \in DOMAIN commits
    BY DEF ReleaseLines, TypeInv
  <2>3. /\ commits' \in Seq(CommitRecord) /\ Len(commits') = Len(commits) + 1
        /\ DOMAIN commits' = DOMAIN commits \union {Len(commits) + 1}
        /\ \A c \in DOMAIN commits' : commits'[c].parent < c
    BY <2>1, <2>2, OneMore
  <2>4. vetted' \subseteq [commit : DOMAIN commits', line : ReleaseLines]
    BY <2>1, <2>2, <2>3 DEF TypeInv
  <2>5. /\ tips' \in [ReleaseLines -> 0 .. Len(commits')]
        /\ tags' \subseteq [version : Version, commit : DOMAIN commits']
        /\ proposal' \subseteq [commit : DOMAIN commits', line : ReleaseLines]
    BY <1>4, <2>3, CommitsTyped DEF MakeCommit, TypeInv
  <2> QED BY <1>4, <2>1, <2>3, <2>4, <2>5 DEF MakeCommit, TypeInv
<1>5. CASE OthersMerge
  <2>1. PICK line \in ReleaseLines :
            /\ tips[line] # 0
            /\ commits' = Append(commits, [tree |-> commits[tips[line]].tree, parent |-> tips[line]])
            /\ tips' = [tips EXCEPT ![line] = Len(commits) + 1]
    BY <1>5 DEF OthersMerge
  <2>2. tips[line] \in DOMAIN commits /\ commits[tips[line]].tree \in Tree
    BY <2>1, CommitsTyped DEF TypeInv
  <2>3. /\ commits' \in Seq(CommitRecord) /\ Len(commits') = Len(commits) + 1
        /\ DOMAIN commits' = DOMAIN commits \union {Len(commits) + 1}
        /\ \A c \in DOMAIN commits' : commits'[c].parent < c
    BY <2>1, <2>2, OneMore
  <2>4. /\ tips' \in [ReleaseLines -> 0 .. Len(commits')]
        /\ vetted' \subseteq [commit : DOMAIN commits', line : ReleaseLines]
        /\ tags' \subseteq [version : Version, commit : DOMAIN commits']
        /\ proposal' \subseteq [commit : DOMAIN commits', line : ReleaseLines]
    BY <1>5, <2>1, <2>3, CommitsTyped DEF OthersMerge, TypeInv
  <2> QED BY <1>5, <2>3, <2>4 DEF OthersMerge, TypeInv
<1>6. CASE Merge
  <2>1. tips' \in [ReleaseLines -> 0 .. Len(commits)]
    <3>1. PICK r \in vetted : tips' = [tips EXCEPT ![r.line] = r.commit]
      BY <1>6 DEF Merge
    <3>2. r.commit \in 0 .. Len(commits)
      BY CommitsTyped DEF TypeInv
    <3> QED BY <3>1, <3>2 DEF TypeInv
  <2> QED BY <1>6, <2>1 DEF Merge, TypeInv
<1>7. CASE StartSupport
  <2>1. PICK line \in ReleaseLines, anchor \in tags : proposal' = {[commit |-> anchor.commit, line |-> line]}
    BY <1>7 DEF StartSupport
  <2>2. proposal' \subseteq [commit : DOMAIN commits, line : ReleaseLines]
    BY <2>1 DEF TypeInv
  <2> QED BY <1>7, <2>2 DEF StartSupport, TypeInv
<1>8. CASE PushSupport
  <2>1. tips' \in [ReleaseLines -> 0 .. Len(commits)]
    <3>1. PICK r \in proposal : tips' = [tips EXCEPT ![r.line] = r.commit]
      BY <1>8 DEF PushSupport
    <3>2. r.commit \in 0 .. Len(commits)
      BY CommitsTyped DEF TypeInv
    <3> QED BY <3>1, <3>2 DEF TypeInv
  <2> QED BY <1>8, <2>1 DEF PushSupport, TypeInv
<1>9. CASE Publish
  <2>1. PICK line \in ReleaseLines :
            /\ [commit |-> tips[line], line |-> line] \in vetted
            /\ tags' = tags \union {[version |-> commits[tips[line]].tree.version,
                                     commit |-> tips[line]]}
    BY <1>9 DEF Publish
  <2>2. tips[line] \in DOMAIN commits
    BY <2>1 DEF TypeInv
  <2>3. tags' \subseteq [version : Version, commit : DOMAIN commits]
    BY <2>1, <2>2, CommitsTyped DEF TypeInv
  <2> QED BY <1>9, <2>3 DEF Publish, TypeInv
<1>10. CASE UNCHANGED commandsVars
  BY <1>10 DEF commandsVars, TypeInv
<1> QED BY <1>1, <1>2, <1>3, <1>4, <1>5, <1>6, <1>7, <1>8, <1>9, <1>10 DEF CommandsNext

LEMMA CommandsType == ASSUME TypeInv, [CommandsNext]_commandsVars PROVE TypeInv'
BY StartType, AdvanceType, RestType

-----------------------------------------------------------------------------
(* Locks.                                                                  *)

LEMMA LockStep == ASSUME TypeInv, LockInv, [CommandsNext]_commandsVars PROVE LockInv'
<1> USE DEF Cleaning
<1>1. CASE StartCommand
  <2>1. UNCHANGED lock
    BY <1>1 DEF StartCommand
  <2>2. CASE LockAbsent
    BY <2>1, <2>2 DEF LockAbsent, LockInv
  <2>3. CASE ~LockAbsent
    <3>1. work' = Idle /\ last'.ok = FALSE
      BY <1>1, <2>3 DEF StartCommand, Activate, Prepare, MayPrepare, Check
    <3> QED BY <3>1 DEF LockInv
  <2> QED BY <2>2, <2>3
<1>2. ASSUME NEW step \in CommandSteps, NEW next \in Cleaning, NEW effects, Tool(step, next, effects)
      PROVE  LockInv'
  <2>1. work \in Underway
    BY <1>2, Busy DEF Tool, CommandSteps
  <2>2. CASE LockAbsent
    <3>1. PICK e \in effects : work' = [work EXCEPT !.step = next, !.failed = ~e.ok]
      BY <1>2, <2>2 DEF Tool
    <3>2. work' # Idle /\ work'.step = next
      BY <1>2, <2>1, <3>1 DEF Underway, Idle
    <3> QED BY <3>2 DEF LockInv
  <2>3. CASE ~LockAbsent
    BY <1>2, <2>1, <2>3, Stopping DEF Tool, LockInv
  <2> QED BY <2>2, <2>3
<1>3. ASSUME NEW step \in CommandSteps, NEW next, CleanUp(step, next) PROVE LockInv'
  <2>1. work \in Underway
    BY <1>3, Busy DEF CleanUp, CommandSteps
  <2>2. CASE lock = "irregular" \/ work.failed
    BY <1>3, <2>1, <2>2, Stopping DEF CleanUp, Require, LockInv
  <2>3. CASE ~(lock = "irregular" \/ work.failed)
    BY <1>3, <2>3 DEF CleanUp, LockInv, TypeInv
  <2> QED BY <2>2, <2>3
<1>4. ASSUME work \in Underway, work.step \notin Cleaning, UNCHANGED lock
      PROVE  LockInv'
  BY <1>4, Busy DEF LockInv
<1>5. CASE Advance
  <2>1. CASE Update \/ SetVersion \/ Agree \/ Validate
    BY <1>2, <2>1 DEF Update, SetVersion, Agree, Validate, CommandSteps
  <2>2. CASE Updated \/ Written \/ Agreed \/ Validated
    BY <1>3, <2>2 DEF Updated, Written, Agreed, Validated, CommandSteps
  <2>3. CASE Derive \/ Managed \/ Compare \/ Restore \/ Select \/ FinishCommand
    <3>1. work.step \in {"derive", "managed", "compare", "restore", "select", "finish"} /\ UNCHANGED lock
      BY <2>3 DEF Derive, Managed, Compare, Restore, Select, FinishCommand
    <3> QED BY <1>4, <3>1, Busy
  <2> QED BY <1>5, <2>1, <2>2, <2>3 DEF Advance
<1>6. CASE InterruptCommand
  BY <1>6, Busy, Stopping DEF InterruptCommand, LockInv
<1>7. CASE RemoveLock
  BY <1>7 DEF RemoveLock, LockInv
<1>8. CASE UNCHANGED <<lock, work, last>>
  BY <1>8 DEF LockInv
<1> QED BY <1>1, <1>5, <1>6, <1>7, <1>8
        DEF CommandsNext, MakeCommit, Discard, Checkout, Merge, OthersMerge, StartSupport,
            PushSupport,
            Publish, commandsVars

-----------------------------------------------------------------------------
(* The command in progress.                                                *)

\* A tree at the tip of a line is coherent: every package inherits.
LEMMA TipsInherit ==
    ASSUME TypeInv, VettedInv, NEW line \in ReleaseLines, AtTip(line), Clean
    PROVE  Inherits(tree) /\ Coherent(tree, tree.version)
<1>1. tips[line] # 0 /\ tips[line] = head
  BY CommitsTyped DEF TypeInv, AtTip
<1>2. CoherentAt(head)
  BY <1>1 DEF VettedInv
<1> QED BY <1>2 DEF CoherentAt, Coherent, Inherits, Clean, Committed

LEMMA WorkStart == ASSUME TypeInv, VettedInv, StartCommand PROVE WorkInv'
<1>1. PICK v \in Requests, command \in {"prepare", "check", "activate"} :
        \/ command = "activate" /\ Activate(v)
        \/ \E line \in ReleaseLines : \/ command = "prepare" /\ Prepare(v, line)
                                      \/ command = "check" /\ Check(v, line)
        \/ work' = Idle
  BY DEF StartCommand
<1>2. UNCHANGED <<tree, commits, head, tips>> /\ Committed' = Committed
  BY DEF StartCommand, repository, Committed
<1>3. CASE work' = Idle
  BY <1>3 DEF WorkInv
<1>4. CASE Activate(v)
  <2>1. /\ work' = [step |-> "select", command |-> "activate", version |-> Activated(v), line |-> Main,
                    original |-> tree.version, derived |-> tree.version, pending |-> {},
                    failed |-> FALSE]
        /\ Precedes(tree.version, Activated(v)) /\ Clean /\ AtTip(Main) /\ Main \in ReleaseLines
    BY <1>4 DEF Activate, MayActivate, Begin, ReleaseLines
  <2>2. Inherits(tree)
    BY <2>1, TipsInherit
  <2>3. /\ work'.step = "select" /\ work'.command = "activate" /\ work'.version = Activated(v)
    BY <2>1
  <2>4. FromTip'
    BY <1>2, <2>1, <2>3 DEF FromTip, Clean, AtTip
  <2>5. Inheriting'
    BY <1>2, <2>2 DEF Inheriting, Inherits
  <2> QED BY <2>3, <2>4, <2>5
          DEF WorkInv, InOrder, StepsOf, Adjusting, Restoring, Selected, Passed, Literally
<1>5. ASSUME NEW line \in ReleaseLines, Prepare(v, line) PROVE WorkInv'
  <2>1. /\ work' = [step |-> "update", command |-> "prepare", version |-> v, line |-> line,
                    original |-> tree.version, derived |-> tree.version, pending |-> {},
                    failed |-> FALSE]
        /\ Precedes(tree.version, v) /\ Clean /\ AtTip(line)
    BY <1>5 DEF Prepare, MayPrepare, Begin
  <2>2. Inherits(tree)
    BY <2>1, TipsInherit
  <2>3. /\ work'.step = "update" /\ work'.command = "prepare" /\ work'.version = v
    BY <2>1
  <2>4. FromTip'
    BY <1>2, <2>1, <2>3 DEF FromTip, Clean, AtTip
  <2>5. Inheriting'
    BY <1>2, <2>2 DEF Inheriting, Inherits
  <2> QED BY <2>3, <2>4, <2>5
          DEF WorkInv, InOrder, StepsOf, CommandSteps, Adjusting, Restoring, Selected, Passed,
              Literally
<1>6. ASSUME NEW line \in ReleaseLines, Check(v, line) PROVE WorkInv'
  <2>1. work'.step = "agree" /\ work'.command = "check"
    BY <1>6 DEF Check, Begin
  <2> QED BY <2>1 DEF WorkInv, InOrder, StepsOf, FromTip, Inheriting, Adjusting, Restoring,
                      Selected,
                      Passed, Literally
<1> QED BY <1>1, <1>3, <1>4, <1>5, <1>6

LEMMA FromTipKept ==
    ASSUME FromTip, UNCHANGED <<commits, head, tips>>,
           work'.command = work.command, work'.version = work.version
    PROVE  FromTip'
BY DEF FromTip, Committed

\* What a step of the command in progress may rely on.
LEMMA Underneath ==
    ASSUME TypeInv, WorkInv, work.step # "idle"
    PROVE  /\ work \in Underway /\ work # Idle
           /\ InOrder /\ FromTip /\ Inheriting /\ Adjusting /\ Restoring /\ Selected /\ Passed
BY Busy DEF WorkInv

\* A step that stops the command.
LEMMA Halts == ASSUME work' = Idle PROVE WorkInv'
BY DEF WorkInv

\* The command goes on: only its step and the verdict on its last tool change.
Carried == /\ work'.command = work.command /\ work'.version = work.version
           /\ work'.derived = work.derived /\ work'.pending = work.pending

\* A tool leaves one of its effects, and the command goes on to clean up.
LEMMA ToolMoves ==
    ASSUME TypeInv, NEW step \in CommandSteps, NEW next, NEW effects, Tool(step, next, effects)
    PROVE  \/ work' = Idle
           \/ /\ \E e \in effects :
                    tree' = e.tree /\ work'.step = next /\ work'.failed = ~e.ok
              /\ Carried /\ UNCHANGED <<commits, head, tips>>
<1>1. work \in Underway
  BY Busy DEF Tool, CommandSteps
<1>2. CASE LockAbsent
  <2>1. PICK e \in effects : tree' = e.tree /\ work' = [work EXCEPT !.step = next, !.failed = ~e.ok]
    BY <1>2 DEF Tool
  <2>2. work'.step = next /\ work'.failed = ~e.ok /\ Carried
    BY <1>1, <2>1 DEF Underway, Carried
  <2> QED BY <2>1, <2>2 DEF Tool, repository
<1>3. CASE ~LockAbsent
  BY <1>3 DEF Tool, StopCommand
<1> QED BY <1>2, <1>3

LEMMA CleanUpMoves ==
    ASSUME TypeInv, NEW step \in CommandSteps, NEW next, CleanUp(step, next)
    PROVE  \/ work' = Idle
           \/ /\ ~work.failed /\ work'.step = next /\ Carried
              /\ UNCHANGED <<tree, commits, head, tips>>
<1>1. work \in Underway
  BY Busy DEF CleanUp, CommandSteps
<1>2. \/ work' = Idle
      \/ ~work.failed /\ work' = [work EXCEPT !.step = next]
  BY DEF CleanUp, Require, Goto, StopCommand
<1> QED BY <1>1, <1>2 DEF Underway, Carried, CleanUp, repository

LEMMA WorkTools ==
    ASSUME TypeInv, WorkInv, Update \/ SetVersion \/ Agree \/ Validate, work' # Idle
    PROVE  WorkInv'
<1> USE DEF Literally
<1>1. /\ tree \in Tree
      /\ work \in Underway /\ work # Idle /\ InOrder /\ FromTip /\ Inheriting /\ Adjusting /\ Restoring
      /\ Selected /\ Passed
  BY Underneath DEF Update, SetVersion, Agree, Validate, Tool, TypeInv
<1>2. CASE Update
  <2>1. PICK e \in UpdateEffects : /\ tree' = e.tree /\ work'.step = "updated" /\ Carried
                                   /\ UNCHANGED <<commits, head, tips>>
    BY <1>2, ToolMoves DEF Update, CommandSteps
  <2>2. work.step = "update" /\ work.command = "prepare"
    BY <1>1, <1>2 DEF Update, Tool, InOrder, StepsOf, Underway
  <2>3. Inherits(tree')
    BY <1>1, <2>1, <2>2, Updates DEF Inheriting, Inherits
  <2>4. FromTip'
    BY <1>1, <2>1, FromTipKept DEF Carried
  <2> QED BY <2>1, <2>2, <2>3, <2>4
          DEF WorkInv, InOrder, StepsOf, CommandSteps, Inheriting, Inherits, Adjusting, Restoring,
              Selected, Passed,
              Carried
<1>3. CASE SetVersion
  <2>1. PICK e \in SetVersionEffects : /\ tree' = e.tree /\ work'.step = "written" /\ Carried
                                       /\ UNCHANGED <<commits, head, tips>>
    BY <1>3, ToolMoves DEF SetVersion, CommandSteps
  <2>2. work.step = "set" /\ work.command = "prepare"
    BY <1>1, <1>3 DEF SetVersion, Tool, InOrder, StepsOf, Underway
  <2>3. Adjusting'
    BY <1>1, <2>1, <2>2, Settings DEF Adjusting, Carried
  <2>4. FromTip'
    BY <1>1, <2>1, FromTipKept DEF Carried
  <2> QED BY <2>1, <2>2, <2>3, <2>4
          DEF WorkInv, InOrder, StepsOf, CommandSteps, Inheriting, Restoring, Selected, Passed,
              Carried
<1>4. CASE Agree
  <2>1. PICK e \in AgreeEffects : /\ tree' = e.tree /\ work'.step = "agreed" /\ work'.failed = ~e.ok
                                  /\ Carried /\ UNCHANGED <<commits, head, tips>>
    BY <1>4, ToolMoves DEF Agree, CommandSteps
  <2>2. work.step = "agree"
    BY <1>4 DEF Agree, Tool
  <2>3. /\ e.ok \in BOOLEAN /\ e.tree.version = tree.version /\ e.tree.manifests = tree.manifests
        /\ e.ok => Validates(e.tree, e.tree.version)
    BY <1>1, Agreements
  <2>4. Inheriting' /\ Selected'
    BY <1>1, <2>1, <2>2, <2>3 DEF Inheriting, Inherits, Selected, Carried
  <2>5. Passed'
    BY <2>1, <2>3 DEF Passed
  <2>6. FromTip'
    BY <1>1, <2>1, FromTipKept DEF Carried
  <2>7. InOrder'
    BY <2>1, <2>2 DEF InOrder, StepsOf, CommandSteps, Carried
  <2> QED BY <2>1, <2>4, <2>5, <2>6, <2>7 DEF WorkInv, Adjusting, Restoring
<1>5. CASE Validate
  <2>1. PICK ok \in BOOLEAN : ok = Validates(tree, work.version)
    BY Zenon DEF Validates
  <2>2. Tool("validate", "validated", Verdicts(tree, ok))
    BY <1>5, <2>1, Zenon DEF Validate
  <2>3. PICK e \in Verdicts(tree, ok) :
            /\ tree' = e.tree /\ work'.step = "validated" /\ work'.failed = ~e.ok
            /\ Carried /\ UNCHANGED <<commits, head, tips>>
    BY <2>2, ToolMoves DEF CommandSteps
  <2>4. work.step = "validate" /\ work.command = "prepare"
    BY <1>1, <2>2 DEF Tool, InOrder, StepsOf, Underway
  <2>5. e = [tree |-> tree, ok |-> ok] \/ e = [tree |-> tree, ok |-> FALSE]
    BY DEF Verdicts
  <2>6. tree' = tree /\ (~work'.failed => Validates(tree, work.version))
    <3>1. e.tree = tree /\ (e.ok = ok \/ e.ok = FALSE)
      BY <2>5
    <3>2. ~work'.failed => ok = TRUE
      BY <2>3, <3>1
    <3> QED BY <2>1, <2>3, <3>1, <3>2, Zenon
  <2>7. Inheriting' /\ Selected'
    BY <1>1, <2>3, <2>4, <2>6 DEF Inheriting, Inherits, Selected, Carried
  <2>8. Passed'
    BY <1>1, <2>3, <2>4, <2>6 DEF Passed, Selected
  <2>9. FromTip'
    BY <1>1, <2>3, FromTipKept DEF Carried
  <2>10. InOrder'
    BY <2>3, <2>4 DEF InOrder, StepsOf, CommandSteps, Carried
  <2> QED BY <2>3, <2>7, <2>8, <2>9, <2>10 DEF WorkInv, Adjusting, Restoring
<1> QED BY <1>2, <1>3, <1>4, <1>5

LEMMA WorkCleanUps ==
    ASSUME TypeInv, WorkInv, Updated \/ Written \/ Agreed \/ Validated, work' # Idle
    PROVE  WorkInv'
<1> USE DEF Literally
<1>1. /\ work \in Underway /\ work # Idle /\ InOrder /\ FromTip /\ Inheriting /\ Adjusting /\ Restoring
      /\ Selected /\ Passed
  BY Underneath DEF Updated, Written, Agreed, Validated, CleanUp
<1>2. /\ ~work.failed /\ Carried /\ UNCHANGED <<tree, commits, head, tips>>
      /\ \/ work.step = "updated" /\ work'.step = "derive"
         \/ work.step = "written" /\ work'.step = "managed"
         \/ work.step = "agreed" /\ work.command = "prepare" /\ work'.step = "validate"
         \/ work.step = "agreed" /\ work.command # "prepare" /\ work'.step = "finish"
         \/ work.step = "validated" /\ work'.step = "finish"
  <2>1. CASE Updated
    BY <2>1, CleanUpMoves DEF Updated, CleanUp, CommandSteps
  <2>2. CASE Written
    BY <2>2, CleanUpMoves DEF Written, CleanUp, CommandSteps
  <2>3. CASE Agreed
    BY <2>3, CleanUpMoves DEF Agreed, CleanUp, CommandSteps
  <2>4. CASE Validated
    BY <2>4, CleanUpMoves DEF Validated, CleanUp, CommandSteps
  <2> QED BY <2>1, <2>2, <2>3, <2>4
<1>3. FromTip'
  BY <1>1, <1>2, FromTipKept DEF Carried
<1>4. InOrder'
  BY <1>1, <1>2 DEF InOrder, StepsOf, CommandSteps, Carried, Underway
<1>5. Inheriting'
  BY <1>1, <1>2 DEF Inheriting, Inherits, Carried
<1>6. Adjusting' /\ Restoring'
  BY <1>1, <1>2 DEF Adjusting, Restoring, Carried
<1>7. Selected' /\ Passed'
  BY <1>1, <1>2 DEF Selected, Passed, Carried, InOrder, StepsOf
<1> QED BY <1>3, <1>4, <1>5, <1>6, <1>7 DEF WorkInv

\* The adjustment that was accepted stays in the family it started from.
LEMMA AdjustsInFamily ==
    ASSUME NEW original, NEW derived, NEW selected, MayAdjust(original, derived, selected)
    PROVE  Family(selected) = Family(derived)
BY DEF MayAdjust, SameCore, Family

LEMMA WorkChoices ==
    ASSUME TypeInv, TreesInv, WorkInv,
           Derive \/ Managed \/ Compare \/ Restore \/ Select, work' # Idle
    PROVE  WorkInv'
<1> USE DEF Literally
<1>1. /\ work \in Underway /\ work # Idle /\ InOrder /\ FromTip /\ Inheriting /\ Adjusting /\ Restoring
      /\ Selected /\ Passed
  BY Underneath DEF Derive, Managed, Compare, Restore, Select
<1>2. UNCHANGED <<commits, head, tips>>
  BY DEF Derive, Managed, Compare, Restore, Select, repository
<1>3. CASE Derive
  <2>1. work.step = "derive" /\ work.command = "prepare" /\ UNCHANGED tree /\ Inherits(tree)
    BY <1>1, <1>3 DEF Derive, InOrder, StepsOf, Underway, Inheriting
  <2>2. CASE tree.version = work.version
    <3>1. work' = [work EXCEPT !.step = "validate"]
      BY <1>3, <2>2 DEF Derive, Goto
    <3>2. work'.step = "validate" /\ Carried
      BY <1>1, <3>1 DEF Carried, Underway
    <3>3. FromTip'
      BY <1>1, <1>2, <3>2, FromTipKept DEF Carried
    <3> QED BY <2>1, <2>2, <3>2, <3>3
            DEF WorkInv, InOrder, StepsOf, CommandSteps, Inheriting, Inherits, Adjusting,
                Restoring, Selected,
                Passed, Carried
  <2>3. CASE tree.version # work.version
    <3>1. /\ MayAdjust(work.original, tree.version, work.version)
          /\ work' = [work EXCEPT !.step = "set", !.derived = tree.version]
      BY <1>3, <2>3 DEF Derive, StopCommand
    <3>2. /\ work'.step = "set" /\ work'.derived = tree.version
          /\ work'.command = work.command /\ work'.version = work.version
      BY <1>1, <3>1 DEF Underway
    <3>3. FromTip'
      BY <1>1, <1>2, <3>2, FromTipKept
    <3>4. Family(work.version) = Family(tree.version)
      BY <3>1, AdjustsInFamily
    <3>5. Adjusting'
      BY <2>1, <2>3, <3>2, <3>4 DEF Adjusting
    <3> QED BY <2>1, <3>2, <3>3, <3>5
            DEF WorkInv, InOrder, StepsOf, CommandSteps, Inheriting, Inherits, Restoring, Selected,
                Passed
  <2> QED BY <2>2, <2>3
<1>4. CASE Managed
  <2>1. work.step = "managed" /\ work.command = "prepare" /\ UNCHANGED tree
    BY <1>1, <1>4 DEF Managed, InOrder, StepsOf, Underway
  <2>2. work' = [work EXCEPT !.step = "compare"]
    BY <1>4 DEF Managed, Require, Goto, StopCommand
  <2>3. work'.step = "compare" /\ Carried
    BY <1>1, <2>2 DEF Carried, Underway
  <2>4. FromTip'
    BY <1>1, <1>2, <2>3, FromTipKept DEF Carried
  <2>5. Adjusting'
    BY <1>1, <2>1, <2>3 DEF Adjusting, Carried
  <2> QED BY <2>1, <2>3, <2>4, <2>5
          DEF WorkInv, InOrder, StepsOf, CommandSteps, Inheriting, Restoring, Selected, Passed,
              Carried
<1>5. CASE Compare
  <2>1. work.step = "compare" /\ work.command = "prepare" /\ UNCHANGED tree
    <3>1. UNCHANGED tree
      BY <1>5 DEF Compare
    <3> QED BY <1>1, <1>5, <3>1 DEF Compare, InOrder, StepsOf, Underway
  <2>2. work' = [work EXCEPT !.step = "restore", !.pending = Family(work.derived)]
    BY <1>5 DEF Compare, StopCommand
  <2>3. /\ work'.step = "restore" /\ work'.pending = Family(work.derived)
        /\ work'.command = work.command /\ work'.version = work.version
        /\ work'.derived = work.derived
    BY <1>1, <2>2 DEF Underway
  <2>4. FromTip'
    BY <1>1, <1>2, <2>3, FromTipKept
  <2>5. Adjusting'
    BY <1>1, <2>1, <2>3 DEF Adjusting
  <2>6. Restoring'
    BY <1>1, <2>1, <2>3 DEF Restoring, Adjusting, TreesInv, Telling
  <2> QED BY <2>1, <2>3, <2>4, <2>5, <2>6
          DEF WorkInv, InOrder, StepsOf, CommandSteps, Inheriting, Selected, Passed
<1>6. CASE Restore
  <2>1. work.step = "restore" /\ work.command = "prepare"
    BY <1>1, <1>6 DEF Restore, InOrder, StepsOf, Underway
  <2>2. ASSUME NEW p \in work.pending, tree' = [tree EXCEPT !.manifests[p] = Inherited],
               work' = [work EXCEPT !.pending = @ \ {p}]
        PROVE  WorkInv'
    <3>1. /\ work'.step = "restore" /\ work'.pending = work.pending \ {p}
          /\ work'.command = work.command /\ work'.version = work.version
          /\ work'.derived = work.derived
      BY <1>1, <2>1, <2>2 DEF Underway
    <3>2. /\ tree'.version = tree.version
          /\ \A q \in AllPackages :
                tree'.manifests[q] = IF q = p THEN Inherited ELSE tree.manifests[q]
      BY <2>2 DEF TypeInv, Tree
    <3>3. FromTip'
      BY <1>1, <1>2, <3>1, FromTipKept
    <3>4. Adjusting'
      BY <1>1, <2>1, <3>1, <3>2 DEF Adjusting
    <3>5. Restoring'
      BY <1>1, <2>1, <3>1, <3>2 DEF Restoring
    <3> QED BY <2>1, <3>1, <3>3, <3>4, <3>5
            DEF WorkInv, InOrder, StepsOf, CommandSteps, Inheriting, Selected, Passed
  <2>3. CASE work.pending = {} /\ work' = [work EXCEPT !.step = "select"] /\ UNCHANGED tree
    <3>1. work'.step = "select" /\ Carried
      BY <1>1, <2>3 DEF Carried, Underway
    <3>2. FromTip'
      BY <1>1, <1>2, <3>1, FromTipKept DEF Carried
    <3>3. Inherits(tree')
      BY <1>1, <2>1, <2>3 DEF Restoring, Inherits
    <3> QED BY <2>1, <3>1, <3>2, <3>3
            DEF WorkInv, InOrder, StepsOf, CommandSteps, Inheriting, Inherits, Adjusting,
                Restoring, Selected,
                Passed, Carried
  <2> QED BY <1>6, <2>2, <2>3 DEF Restore
<1>7. CASE Select
  <2>1. work.step = "select" /\ work.command # "check"
    BY <1>1, <1>7 DEF Select, InOrder, StepsOf, Underway
  <2>2. /\ tree' = [tree EXCEPT !.version = work.version]
        /\ work' = [work EXCEPT !.step = "agree"]
    BY <1>7 DEF Select, Goto, StopCommand
  <2>3. work'.step = "agree" /\ Carried
    BY <1>1, <2>2 DEF Carried, Underway
  <2>4. tree'.version = work.version /\ tree'.manifests = tree.manifests
    BY <2>2 DEF TypeInv, Tree
  <2>5. FromTip'
    BY <1>1, <1>2, <2>3, FromTipKept DEF Carried
  <2>6. Inheriting' /\ Selected'
    BY <1>1, <2>1, <2>3, <2>4 DEF Inheriting, Inherits, Selected, Carried
  <2>7. InOrder'
    BY <1>1, <2>1, <2>3 DEF InOrder, StepsOf, CommandSteps, Carried
  <2> QED BY <2>3, <2>5, <2>6, <2>7 DEF WorkInv, Adjusting, Restoring, Passed
<1> QED BY <1>3, <1>4, <1>5, <1>6, <1>7

LEMMA WorkStep ==
    ASSUME TypeInv, TreesInv, VettedInv, WorkInv, [CommandsNext]_commandsVars
    PROVE  WorkInv'
<1>1. CASE work' = Idle
  BY <1>1, Halts
<1>2. CASE Advance /\ work' # Idle
  <2>1. ~FinishCommand
    BY <1>2 DEF FinishCommand
  <2> QED BY <1>2, <2>1, WorkTools, WorkCleanUps, WorkChoices DEF Advance
<1>3. CASE UNCHANGED work /\ work = Idle
  BY <1>3, Halts
<1>4. CASE UNCHANGED commandsVars
  BY <1>4 DEF commandsVars, WorkInv, InOrder, FromTip, Inheriting, Adjusting, Restoring, Selected,
              Passed,
              Inherits, Committed, Validates, PublishesFamily, PackagesAgree,
              RequirementsCanonical, Reported
<1> QED BY <1>1, <1>2, <1>3, <1>4, WorkStart
        DEF CommandsNext, InterruptCommand, StopCommand, MakeCommit, Discard, RemoveLock, Checkout,
            Merge, OthersMerge,
            StartSupport, PushSupport, Publish

-----------------------------------------------------------------------------
(* Trees.                                                                  *)

\* The checkout changes, the commits do not.
LEMMA TreesLocal ==
    ASSUME TreesInv, UNCHANGED <<commits, head>>, Telling(tree'),
           ~Precedes(tree'.version, Committed.version)
    PROVE  TreesInv'
BY DEF TreesInv, Committed

\* One commit more, made from an earlier tree.
LEMMA TreesGrow ==
    ASSUME TypeInv, TreesInv, NEW t \in Tree, NEW parent \in DOMAIN commits,
           commits' = Append(commits, [tree |-> t, parent |-> parent]),
           Telling(t), ~Precedes(t.version, commits[parent].tree.version),
           Telling(tree'), ~Precedes(tree'.version, Committed'.version)
    PROVE  TreesInv'
<1>1. /\ DOMAIN commits' = DOMAIN commits \union {Len(commits) + 1}
      /\ \A c \in DOMAIN commits : commits'[c] = commits[c]
      /\ commits'[Len(commits) + 1].tree = t /\ commits'[Len(commits) + 1].parent = parent
  BY OneMore
<1>2. ASSUME NEW c \in DOMAIN commits'
      PROVE  /\ Telling(commits'[c].tree)
             /\ commits'[c].parent # 0 =>
                    ~Precedes(commits'[c].tree.version, commits'[commits'[c].parent].tree.version)
  <2>1. CASE c \in DOMAIN commits
    <3>1. commits[c].parent # 0 => commits[c].parent \in DOMAIN commits
      BY <2>1, CommitsTyped DEF TypeInv
    <3> QED BY <1>1, <2>1, <3>1 DEF TreesInv
  <2>2. CASE c = Len(commits) + 1
    BY <1>1, <2>2
  <2> QED BY <1>1, <2>1, <2>2
<1> QED BY <1>2 DEF TreesInv

LEMMA TreesAdvance ==
    ASSUME TypeInv, TreesInv, WorkInv, Advance
    PROVE  TreesInv'
<1> USE DEF Literally
<1>1. UNCHANGED <<commits, head>>
  <2>1. CASE Update \/ SetVersion \/ Agree \/ Validate
    BY <2>1 DEF Update, SetVersion, Agree, Validate, Tool, repository
  <2>2. CASE Updated \/ Written \/ Agreed \/ Validated
    BY <2>2 DEF Updated, Written, Agreed, Validated, CleanUp, repository
  <2> QED BY <2>1, <2>2 DEF Advance, Derive, Managed, Compare, Restore, Select, FinishCommand,
                            repository
<1>2. /\ tree \in Tree /\ tree.version \in Version /\ Committed.version \in Version
      /\ Telling(tree) /\ ~Precedes(tree.version, Committed.version)
  BY CommitsTyped DEF TypeInv, TreesInv
<1>3. CASE UNCHANGED tree
  BY <1>1, <1>2, <1>3, TreesLocal
<1>4. CASE Update /\ ~UNCHANGED tree
  <2>1. PICK e \in UpdateEffects : tree' = e.tree
    BY <1>4 DEF Update, Tool
  <2>2. work.step = "update" /\ Inherits(tree)
    BY <1>4, Underneath DEF Update, Tool, Inheriting, InOrder, StepsOf, Underway
  <2>3. /\ tree' \in Tree /\ tree'.manifests = tree.manifests
        /\ ~Precedes(tree'.version, tree.version)
    BY <1>2, <2>1, Updates
  <2>4. tree'.version \in Version
    BY <2>3 DEF Tree
  <2>5. ~Precedes(tree'.version, Committed.version)
    BY <1>2, <2>3, <2>4, Order
  <2>6. Telling(tree')
    BY <2>2, <2>3 DEF Telling, Inherits
  <2> QED BY <1>1, <2>5, <2>6, TreesLocal
<1>5. CASE SetVersion /\ ~UNCHANGED tree
  <2>1. PICK e \in SetVersionEffects : tree' = e.tree
    BY <1>5 DEF SetVersion, Tool
  <2>2. /\ work.step = "set" /\ work \in Underway /\ tree.version = work.derived
        /\ work.derived # work.version /\ Family(work.version) = Family(work.derived)
    BY <1>5, Underneath DEF SetVersion, Tool, Adjusting
  <2>3. /\ tree'.version = tree.version
        /\ \A p \in AllPackages :
            \/ tree'.manifests[p] = tree.manifests[p]
            \/ p \in Family(work.version) /\ tree'.manifests[p].version = work.version
    BY <1>2, <2>1, <2>2, Settings
  <2>4. Telling(tree')
    BY <1>2, <2>2, <2>3 DEF Telling
  <2> QED BY <1>1, <1>2, <2>3, <2>4, TreesLocal
<1>6. CASE Agree /\ ~UNCHANGED tree
  <2>1. PICK e \in AgreeEffects : tree' = e.tree
    BY <1>6 DEF Agree, Tool
  <2>2. tree'.version = tree.version /\ tree'.manifests = tree.manifests
    BY <1>2, <2>1, Agreements
  <2> QED BY <1>1, <1>2, <2>2, TreesLocal DEF Telling
<1>7. CASE Validate /\ ~UNCHANGED tree
  BY <1>3, <1>7 DEF Validate, Tool, Verdicts
<1>8. CASE Restore /\ ~UNCHANGED tree
  <2>1. PICK p \in work.pending : tree' = [tree EXCEPT !.manifests[p] = Inherited]
    BY <1>8 DEF Restore
  <2>2. /\ tree'.version = tree.version
        /\ \A q \in AllPackages :
                tree'.manifests[q] = IF q = p THEN Inherited ELSE tree.manifests[q]
    BY <1>2, <2>1 DEF Tree
  <2>3. Telling(tree')
    BY <1>2, <2>2 DEF Telling
  <2> QED BY <1>1, <1>2, <2>2, <2>3, TreesLocal
<1>9. CASE Select /\ ~UNCHANGED tree
  <2>1. tree' = [tree EXCEPT !.version = work.version]
    BY <1>9 DEF Select
  <2>2. /\ work.step = "select" /\ Inherits(tree) /\ work.version \in Version
        /\ Precedes(Committed.version, work.version)
    BY <1>9, Underneath DEF Select, Inheriting, FromTip, InOrder, StepsOf, Underway
  <2>3. tree'.version = work.version /\ tree'.manifests = tree.manifests
    BY <1>2, <2>1 DEF Tree
  <2>4. ~Precedes(tree'.version, Committed.version)
    BY <1>2, <2>2, <2>3, Order
  <2>5. Telling(tree')
    BY <2>2, <2>3 DEF Telling, Inherits
  <2> QED BY <1>1, <2>4, <2>5, TreesLocal
<1>10. UNCHANGED tree \/ Update \/ SetVersion \/ Agree \/ Validate \/ Restore \/ Select
  BY DEF Advance, Updated, Written, Agreed, Validated, CleanUp, Derive, Managed, Compare,
         FinishCommand
<1> QED BY <1>3, <1>4, <1>5, <1>6, <1>7, <1>8, <1>9, <1>10

LEMMA TreesStep ==
    ASSUME TypeInv, TreesInv, WorkInv, [CommandsNext]_commandsVars
    PROVE  TreesInv'
<1>1. /\ tree \in Tree /\ tree.version \in Version /\ Committed.version \in Version
      /\ Telling(tree) /\ ~Precedes(tree.version, Committed.version) /\ head \in DOMAIN commits
      /\ ~Precedes(tree.version, tree.version) /\ ~Precedes(Committed.version, Committed.version)
  BY CommitsTyped, Order DEF TypeInv, TreesInv
<1>2. CASE UNCHANGED <<tree, commits, head>>
  BY <1>1, <1>2, TreesLocal
<1>3. CASE InterruptCommand
  <2>1. tree' = tree \/ tree' = [tree EXCEPT !.stray = TRUE]
    BY <1>3 DEF InterruptCommand
  <2>2. tree'.version = tree.version /\ tree'.manifests = tree.manifests
    BY <1>1, <2>1 DEF Tree
  <2>3. Telling(tree')
    BY <1>1, <2>2 DEF Telling
  <2> QED BY <1>1, <1>3, <2>2, <2>3, TreesLocal DEF InterruptCommand, repository
<1>4. CASE Discard
  <2>1. Telling(Committed)
    BY <1>1 DEF TreesInv, Committed
  <2> QED BY <1>1, <1>4, <2>1, TreesLocal DEF Discard, repository
<1>5. CASE Checkout
  <2>1. head' \in DOMAIN commits /\ tree' = commits[head'].tree /\ UNCHANGED commits
    BY <1>5, CommitsTyped DEF Checkout, TypeInv
  <2>2. tree' = Committed' /\ tree'.version \in Version
    BY <2>1, CommitsTyped DEF Committed
  <2>3. ~Precedes(tree'.version, tree'.version)
    BY <2>2, Order
  <2> QED BY <2>1, <2>2, <2>3 DEF TreesInv
<1>6. CASE MakeCommit
  <2>1. /\ commits' = Append(commits, [tree |-> tree, parent |-> head]) /\ UNCHANGED tree
        /\ head' = Len(commits) + 1
    BY <1>6 DEF MakeCommit
  <2>2. commits'[Len(commits) + 1].tree = tree
    BY <1>1, <2>1, OneMore
  <2>3. Committed' = tree
    BY <2>1, <2>2 DEF Committed
  <2> QED BY <1>1, <2>1, <2>3, TreesGrow DEF Committed
<1>7. CASE OthersMerge
  <2>1. PICK line \in ReleaseLines :
            /\ tips[line] # 0
            /\ commits' = Append(commits, [tree |-> commits[tips[line]].tree, parent |-> tips[line]])
    BY <1>7 DEF OthersMerge
  <2> DEFINE t == commits[tips[line]].tree
  <2>2. tips[line] \in DOMAIN commits
    BY <2>1, CommitsTyped DEF TypeInv
  <2>3. t \in Tree /\ Telling(t) /\ ~Precedes(t.version, t.version)
    BY <2>2, CommitsTyped, Order DEF TreesInv
  <2>4. UNCHANGED <<tree, head>>
    BY <1>7 DEF OthersMerge
  <2>5. commits'[head] = commits[head]
    BY <1>1, <2>1, <2>2, <2>3, OneMore
  <2>6. Committed' = Committed
    BY <2>4, <2>5 DEF Committed
  <2> QED BY <1>1, <2>1, <2>2, <2>3, <2>4, <2>6, TreesGrow
<1> QED BY <1>2, <1>3, <1>4, <1>5, <1>6, <1>7, TreesAdvance
        DEF CommandsNext, StartCommand, RemoveLock, Merge, StartSupport, PushSupport, Publish,
            commandsVars, repository

-----------------------------------------------------------------------------
(* What is vetted, tagged and at the tips.                                 *)

\* The validation of versions::validate sees what a preparation that stopped
\* halfway leaves.
LEMMA ValidIsCoherent ==
    ASSUME NEW t, Telling(t), Validates(t, t.version)
    PROVE  Coherent(t, t.version)
<1>1. ASSUME NEW p \in AllPackages PROVE t.manifests[p] = Inherited
  <2>1. CASE p \in Family(t.version)
    <3>1. Reported(t, p) = t.version
      BY <2>1 DEF Validates, PackagesAgree
    <3> QED BY <3>1 DEF Reported, Telling
  <2>2. CASE p \notin Family(t.version)
    BY <2>2 DEF Telling
  <2> QED BY <2>1, <2>2
<1> QED BY <1>1 DEF Coherent, Validates, RequirementsCanonical

\* The commits stay; at most one joins them.
LEMMA CoherentStays ==
    ASSUME TypeInv, NEW c \in DOMAIN commits, CoherentAt(c), commits'[c] = commits[c]
    PROVE  CoherentAt(c)'
BY DEF CoherentAt, Coherent

\* A step that leaves commits, tips and tags alone, and vets nothing but a
\* coherent HEAD.
LEMMA VettedLocal ==
    ASSUME TypeInv, VettedInv, UNCHANGED <<commits, head, tips, tags, proposal>>,
           \A r \in vetted' : r \in vetted \/ (r.commit = head /\ CoherentAt(head)),
           work' = Idle /\ last' = [command |-> "activate", ok |-> TRUE] /\ ~Clean'
                => Coherent(tree', tree'.version)
    PROVE  VettedInv'
<1>1. ASSUME NEW c, CoherentAt(c) PROVE CoherentAt(c)'
  BY <1>1 DEF CoherentAt, Coherent
<1>2. \A r \in vetted' : CoherentAt(r.commit)'
  BY <1>1 DEF VettedInv
<1>3. \A r \in tags' : CoherentAt(r.commit)'
  BY <1>1 DEF VettedInv
<1>4. \A r \in proposal' : CoherentAt(r.commit)'
  BY <1>1 DEF VettedInv
<1>5. \A line \in ReleaseLines : tips'[line] # 0 => CoherentAt(tips[line])' /\ tips'[line] = tips[line]
  BY <1>1 DEF VettedInv
<1> QED BY <1>2, <1>3, <1>4, <1>5 DEF VettedInv

LEMMA VettedFinish ==
    ASSUME TypeInv, TreesInv, VettedInv, WorkInv, FinishCommand
    PROVE  VettedInv'
<1>1. /\ work \in Underway /\ work.step = "finish" /\ Telling(tree) /\ Validates(tree, tree.version)
  BY Underneath DEF FinishCommand, Passed, TreesInv
<1>2. Coherent(tree, tree.version)
  BY <1>1, ValidIsCoherent
<1>3. UNCHANGED <<tree, commits, head, tips, tags, proposal>>
  BY DEF FinishCommand
<1>4. PICK ok \in BOOLEAN :
        /\ ok = ( /\ LockAbsent
                  /\ CASE work.command = "prepare" -> ManagedDiff
                       [] work.command = "check" -> Clean
                       [] work.command = "activate" -> OnlyRootChanged /\ tree.version = work.version)
        /\ vetted' = vetted \union {r \in {[commit |-> head, line |-> work.line]} :
                                        ok /\ work.command = "check"}
  <2>1. work.command \in {"prepare", "check", "activate"}
    BY <1>1 DEF Underway
  <2>2. PICK ok \in BOOLEAN : ok = ( /\ LockAbsent
                  /\ CASE work.command = "prepare" -> ManagedDiff
                       [] work.command = "check" -> Clean
                       [] work.command = "activate" -> OnlyRootChanged /\ tree.version = work.version)
    BY <2>1, Zenon DEF ManagedDiff, Clean, OnlyRootChanged
  <2>3. vetted' = vetted \union {r \in {[commit |-> head, line |-> work.line]} :
                                        ok /\ work.command = "check"}
    BY <2>2, Zenon DEF FinishCommand
  <2> QED BY <2>2, <2>3
<1>5. ok /\ work.command = "check" => Clean
  <2>1. ASSUME ok, work.command = "check" PROVE Clean
    BY <1>4, <2>1
  <2> QED BY <2>1
<1>6. ASSUME NEW r \in vetted' PROVE r \in vetted \/ (r.commit = head /\ CoherentAt(head))
  <2>1. CASE r \in vetted
    BY <2>1
  <2>2. CASE r \notin vetted
    <3>1. r = [commit |-> head, line |-> work.line] /\ ok /\ work.command = "check"
      BY <1>4, <2>2
    <3>2. tree = Committed
      BY <1>5, <3>1 DEF Clean
    <3> QED BY <1>2, <3>1, <3>2 DEF CoherentAt, Committed
  <2> QED BY <2>1, <2>2
<1>7. Coherent(tree', tree'.version)
  BY <1>2, <1>3 DEF Coherent
<1> QED BY <1>3, <1>6, <1>7, VettedLocal

\* Only Finish and a failure end a command.
LEMMA OnlyStops ==
    ASSUME TypeInv, Advance, ~FinishCommand, work' = Idle
    PROVE  last'.ok = FALSE
<1>1. ~StopCommand => work \in Underway
  BY Busy DEF Advance, Update, SetVersion, Agree, Validate, Tool, Updated, Written, Agreed,
              Validated,
              CleanUp, Derive, Managed, Compare, Restore, Select
<1>2. work'.step = "idle"
  BY DEF Idle
<1>3. ASSUME work \in Underway, NEW step \in CommandSteps, Goto(step) PROVE FALSE
  BY <1>2, <1>3 DEF Goto, Underway, CommandSteps
<1>4. ASSUME NEW step \in CommandSteps, NEW next \in CommandSteps, NEW effects,
             Tool(step, next, effects)
      PROVE  StopCommand
  <2>1. CASE LockAbsent
    <3>1. work \in Underway
      BY <1>4, Busy DEF Tool, CommandSteps
    <3>2. PICK e \in effects : work' = [work EXCEPT !.step = next, !.failed = ~e.ok]
      BY <1>4, <2>1 DEF Tool
    <3> QED BY <1>2, <3>1, <3>2 DEF Underway, CommandSteps
  <2>2. CASE ~LockAbsent
    BY <1>4, <2>2 DEF Tool
  <2> QED BY <2>1, <2>2
<1>5. CASE Update \/ SetVersion \/ Agree \/ Validate
  <2>1. StopCommand
    BY <1>4, <1>5 DEF Update, SetVersion, Agree, Validate, CommandSteps
  <2> QED BY <2>1 DEF StopCommand
<1>6. CASE Updated \/ Written \/ Agreed \/ Validated
  BY <1>1, <1>3, <1>6 DEF Updated, Written, Agreed, Validated, CleanUp, Require, CommandSteps,
                          StopCommand
<1>7. CASE Derive
  <2>1. work \in Underway
    BY <1>7, Busy DEF Derive
  <2>2. Goto("validate") \/ work' = [work EXCEPT !.step = "set", !.derived = tree.version] \/ StopCommand
    BY <1>7 DEF Derive
  <2>3. work' # [work EXCEPT !.step = "set", !.derived = tree.version]
    BY <1>2, <2>1 DEF Underway
  <2>4. StopCommand
    BY <1>3, <2>1, <2>2, <2>3 DEF CommandSteps
  <2> QED BY <2>4 DEF StopCommand
<1>8. CASE Managed
  BY <1>1, <1>3, <1>8 DEF Managed, Require, StopCommand, CommandSteps
<1>9. CASE Compare
  <2>1. work \in Underway
    BY <1>9, Busy DEF Compare
  <2>2. work' = [work EXCEPT !.step = "restore", !.pending = Family(work.derived)] \/ StopCommand
    BY <1>9 DEF Compare
  <2>3. work' # [work EXCEPT !.step = "restore", !.pending = Family(work.derived)]
    BY <1>2, <2>1 DEF Underway
  <2> QED BY <2>2, <2>3 DEF StopCommand
<1>10. CASE Restore
  <2>1. work \in Underway /\ work.step = "restore"
    BY <1>10, Busy DEF Restore
  <2> QED BY <1>2, <1>10, <2>1 DEF Restore, Underway
<1>11. CASE Select
  BY <1>1, <1>3, <1>11 DEF Select, StopCommand, CommandSteps
<1> QED BY <1>5, <1>6, <1>7, <1>8, <1>9, <1>10, <1>11 DEF Advance

LEMMA VettedCommand ==
    ASSUME TypeInv, TreesInv, VettedInv, WorkInv, StartCommand \/ Advance \/ InterruptCommand
    PROVE  VettedInv'
<1>1. CASE FinishCommand
  BY <1>1, VettedFinish
<1>2. CASE ~FinishCommand
  <2>1. UNCHANGED <<commits, head, tips, tags, proposal, vetted>>
    <3>1. CASE Update \/ SetVersion \/ Agree \/ Validate
      BY <3>1 DEF Update, SetVersion, Agree, Validate, Tool, repository
    <3>2. CASE Updated \/ Written \/ Agreed \/ Validated
      BY <3>2 DEF Updated, Written, Agreed, Validated, CleanUp, repository
    <3> QED BY <1>2, <3>1, <3>2
            DEF StartCommand, InterruptCommand, Advance, Derive, Managed, Compare, Restore, Select,
                repository
  <2>2. ~(work' = Idle /\ last' = [command |-> "activate", ok |-> TRUE])
    <3>1. CASE StartCommand
      <4>1. work' = Idle => last'.ok = FALSE
        <5>1. ASSUME NEW v, NEW line, Activate(v) \/ Prepare(v, line) \/ Check(v, line)
              PROVE  work' # Idle
          BY <5>1 DEF Activate, Prepare, Check, Begin, Idle
        <5> QED BY <3>1, <5>1 DEF StartCommand
      <4> QED BY <4>1
    <3>2. CASE InterruptCommand
      BY <3>2 DEF InterruptCommand, StopCommand
    <3>3. CASE Advance
      <4>1. work' = Idle => last'.ok = FALSE
        BY <1>2, <3>3, OnlyStops
      <4> QED BY <4>1
    <3> QED BY <3>1, <3>2, <3>3
  <2> QED BY <2>1, <2>2, VettedLocal
<1> QED BY <1>1, <1>2

LEMMA VettedStep ==
    ASSUME TypeInv, TreesInv, VettedInv, WorkInv, [CommandsNext]_commandsVars
    PROVE  VettedInv'
<1>1. ASSUME NEW c, CoherentAt(c), UNCHANGED commits PROVE CoherentAt(c)'
  BY <1>1 DEF CoherentAt, Coherent
<1>2. Clean /\ UNCHANGED <<tree, commits, head>> => Clean'
  BY DEF Clean, Committed
<1>3. CASE MakeCommit
  <2>1. /\ commits' = Append(commits, [tree |-> tree, parent |-> head]) /\ head' = Len(commits) + 1
        /\ UNCHANGED <<tree, tips, tags, proposal>>
        /\ vetted' = vetted \union {r \in {[commit |-> Len(commits) + 1, line |-> Main]} :
                                    last = [command |-> "activate", ok |-> TRUE]}
        /\ work = Idle /\ ~Clean
    BY <1>3 DEF MakeCommit
  <2>2. /\ \A c \in DOMAIN commits : commits'[c] = commits[c]
        /\ commits'[Len(commits) + 1].tree = tree
    BY <2>1, OneMore DEF TypeInv
  <2>3. ASSUME NEW c \in DOMAIN commits, CoherentAt(c) PROVE CoherentAt(c)'
    BY <2>2, <2>3, CoherentStays
  <2>4. Clean'
    BY <2>1, <2>2 DEF Clean, Committed
  <2>5. ASSUME NEW r \in vetted' PROVE CoherentAt(r.commit)'
    <3>1. CASE r \in vetted
      <4>1. r.commit \in DOMAIN commits /\ CoherentAt(r.commit)
        BY <3>1 DEF TypeInv, VettedInv
      <4> QED BY <2>3, <4>1
    <3>2. CASE r \notin vetted
      <4>1. r.commit = Len(commits) + 1 /\ last = [command |-> "activate", ok |-> TRUE]
        BY <2>1, <3>2
      <4>2. Coherent(tree, tree.version)
        BY <2>1, <4>1 DEF VettedInv
      <4>3. commits'[r.commit].tree = tree
        BY <2>2, <4>1
      <4> QED BY <4>2, <4>3 DEF CoherentAt, Coherent
    <3> QED BY <3>1, <3>2
  <2>6. ASSUME NEW r \in tags' PROVE CoherentAt(r.commit)'
    BY <2>1, <2>3 DEF TypeInv, VettedInv
  <2>7. ASSUME NEW r \in proposal' PROVE CoherentAt(r.commit)'
    BY <2>1, <2>3 DEF TypeInv, VettedInv
  <2>8. ASSUME NEW line \in ReleaseLines, tips'[line] # 0 PROVE CoherentAt(tips[line])' /\ tips'[line] = tips[line]
    <3>1. tips[line] \in DOMAIN commits
      BY <2>1, <2>8, CommitsTyped DEF TypeInv
    <3> QED BY <2>1, <2>3, <2>8, <3>1 DEF VettedInv
  <2> QED BY <2>4, <2>5, <2>6, <2>7, <2>8 DEF VettedInv
<1>4. CASE OthersMerge
  <2>1. PICK line \in ReleaseLines :
            /\ tips[line] # 0
            /\ commits' = Append(commits, [tree |-> commits[tips[line]].tree, parent |-> tips[line]])
            /\ tips' = [tips EXCEPT ![line] = Len(commits) + 1]
    BY <1>4 DEF OthersMerge
  <2>2. UNCHANGED <<tree, head, tags, vetted, proposal, work, last>>
    BY <1>4 DEF OthersMerge
  <2>3. tips[line] \in DOMAIN commits /\ commits[tips[line]].tree \in Tree
    BY <2>1, CommitsTyped DEF TypeInv
  <2>4. /\ \A c \in DOMAIN commits : commits'[c] = commits[c]
        /\ commits'[Len(commits) + 1].tree = commits[tips[line]].tree
    BY <2>1, <2>3, OneMore
  <2>5. ASSUME NEW c \in DOMAIN commits, CoherentAt(c) PROVE CoherentAt(c)'
    BY <2>4, <2>5, CoherentStays
  <2>6. ASSUME NEW n, n = Len(commits) + 1 PROVE CoherentAt(n)'
    <3>1. Coherent(commits[tips[line]].tree, commits[tips[line]].tree.version)
      BY <2>1 DEF VettedInv, CoherentAt
    <3>2. commits'[n].tree = commits[tips[line]].tree
      BY <2>4, <2>6
    <3> QED BY <3>1, <3>2 DEF CoherentAt, Coherent
  <2>7. \A r \in vetted' : CoherentAt(r.commit)'
    BY <2>2, <2>5 DEF TypeInv, VettedInv
  <2>8. \A r \in tags' : CoherentAt(r.commit)'
    BY <2>2, <2>5 DEF TypeInv, VettedInv
  <2>9. \A r \in proposal' : CoherentAt(r.commit)'
    BY <2>2, <2>5 DEF TypeInv, VettedInv
  <2>10. ASSUME NEW l \in ReleaseLines, tips'[l] # 0 PROVE CoherentAt(tips[l])'
    <3>1. CASE l = line
      <4>1. tips'[l] = Len(commits) + 1
        BY <2>1, <3>1 DEF TypeInv
      <4> QED BY <2>6, <4>1
    <3>2. CASE l # line
      <4>1. tips'[l] = tips[l] /\ tips[l] \in DOMAIN commits
        BY <2>1, <2>10, <3>2, CommitsTyped DEF TypeInv
      <4>2. CoherentAt(tips[l])
        BY <2>10, <4>1 DEF VettedInv
      <4> QED BY <2>5, <4>1, <4>2
    <3> QED BY <3>1, <3>2
  <2>11. Clean => Clean'
    <3>1. commits'[head] = commits[head]
      BY <2>4 DEF TypeInv
    <3> QED BY <2>2, <3>1 DEF Clean, Committed
  <2>12. Coherent(tree, tree.version) => Coherent(tree, tree.version)'
    BY <2>2 DEF Coherent
  <2> QED BY <2>2, <2>7, <2>8, <2>9, <2>10, <2>11, <2>12 DEF VettedInv
<1>5. CASE Merge \/ PushSupport
  <2>1. PICK r \in vetted \union proposal : tips' = [tips EXCEPT ![r.line] = r.commit]
    BY <1>5 DEF Merge, PushSupport
  <2>2. UNCHANGED <<tree, commits, head, tags, vetted, work, last>> /\ proposal' \subseteq proposal
    BY <1>5 DEF Merge, PushSupport
  <2>3. ASSUME NEW line \in ReleaseLines, tips'[line] # 0 PROVE CoherentAt(tips[line])'
    <3>1. CoherentAt(r.commit)
      BY DEF VettedInv
    <3>2. CoherentAt(tips'[line])
      BY <2>1, <2>3, <3>1 DEF VettedInv, TypeInv
    <3> QED BY <1>1, <2>2, <3>2
  <2>4. /\ \A q \in vetted' : CoherentAt(q.commit)'
        /\ \A q \in tags' : CoherentAt(q.commit)'
        /\ \A q \in proposal' : CoherentAt(q.commit)'
    BY <1>1, <2>2 DEF VettedInv
  <2>5. Coherent(tree, tree.version) => Coherent(tree, tree.version)'
    BY <2>2 DEF Coherent
  <2> QED BY <1>2, <2>2, <2>3, <2>4, <2>5 DEF VettedInv
<1>6. CASE StartSupport
  <2>1. PICK line \in ReleaseLines, anchor \in tags : proposal' = {[commit |-> anchor.commit, line |-> line]}
    BY <1>6 DEF StartSupport
  <2>2. UNCHANGED <<tree, commits, head, tips, tags, vetted, work, last>>
    BY <1>6 DEF StartSupport
  <2>3. \A r \in proposal' : CoherentAt(r.commit)'
    BY <1>1, <2>1, <2>2 DEF VettedInv
  <2>4. /\ \A q \in vetted' : CoherentAt(q.commit)'
        /\ \A q \in tags' : CoherentAt(q.commit)'
        /\ \A l \in ReleaseLines : tips'[l] # 0 => CoherentAt(tips[l])'
    BY <1>1, <2>2 DEF VettedInv
  <2>5. Coherent(tree, tree.version) => Coherent(tree, tree.version)'
    BY <2>2 DEF Coherent
  <2> QED BY <1>2, <2>2, <2>3, <2>4, <2>5 DEF VettedInv
<1>7. CASE Publish
  <2>1. PICK line \in ReleaseLines :
            /\ [commit |-> tips[line], line |-> line] \in vetted
            /\ tags' = tags \union {[version |-> commits[tips[line]].tree.version,
                                     commit |-> tips[line]]}
    BY <1>7 DEF Publish
  <2>2. UNCHANGED <<tree, commits, head, tips, vetted, proposal, work, last>>
    BY <1>7 DEF Publish
  <2>3. CoherentAt(tips[line])
    BY <2>1 DEF VettedInv
  <2>4. ASSUME NEW r \in tags' PROVE CoherentAt(r.commit)'
    BY <1>1, <2>1, <2>2, <2>3 DEF VettedInv
  <2>5. /\ \A q \in vetted' : CoherentAt(q.commit)'
        /\ \A q \in proposal' : CoherentAt(q.commit)'
        /\ \A l \in ReleaseLines : tips'[l] # 0 => CoherentAt(tips[l])'
    BY <1>1, <2>2 DEF VettedInv
  <2>6. Coherent(tree, tree.version) => Coherent(tree, tree.version)'
    BY <2>2 DEF Coherent
  <2> QED BY <1>2, <2>2, <2>4, <2>5, <2>6 DEF VettedInv
<1>8. CASE Discard \/ Checkout
  <2>1. UNCHANGED <<commits, tips, tags, vetted, proposal>> /\ tree' = commits[head'].tree
    BY <1>8 DEF Discard, Checkout, repository, Committed
  <2>2. Clean'
    BY <2>1 DEF Clean, Committed
  <2>3. /\ \A q \in vetted' : CoherentAt(q.commit)'
        /\ \A q \in tags' : CoherentAt(q.commit)'
        /\ \A q \in proposal' : CoherentAt(q.commit)'
        /\ \A l \in ReleaseLines : tips'[l] # 0 => CoherentAt(tips[l])'
    BY <1>1, <2>1 DEF VettedInv
  <2> QED BY <2>2, <2>3 DEF VettedInv
<1>9. CASE RemoveLock \/ UNCHANGED commandsVars
  <2>1. UNCHANGED <<tree, commits, head, tips, tags, vetted, proposal, work, last>>
    BY <1>9 DEF RemoveLock, repository, commandsVars
  <2>2. Coherent(tree, tree.version) => Coherent(tree, tree.version)'
    BY <2>1 DEF Coherent
  <2> QED BY <1>2, <2>1, <2>2, VettedLocal DEF VettedInv
<1> QED BY <1>3, <1>4, <1>5, <1>6, <1>7, <1>8, <1>9, VettedCommand DEF CommandsNext

-----------------------------------------------------------------------------
(* The theorems.                                                           *)

LEMMA InitInv == ASSUME CommandsInit PROVE Inv
<1>1. PICK history \in Histories :
        LET n == Len(history) IN
        /\ commits = [i \in 1 .. n |-> [tree |-> history[i], parent |-> i - 1]]
        /\ head = n /\ tree = history[n]
        /\ tips = [line \in ReleaseLines |-> IF line = Main THEN n ELSE 0]
        /\ tags = {[version |-> history[i].version, commit |-> i] : i \in
                    {k \in 1 .. n : /\ RealRelease(history[k].version)
                                    /\ \A b \in 1 .. k - 1 : history[b].version # history[k].version}}
        /\ vetted = [commit : 1 .. n, line : {Main}]
  BY DEF CommandsInit
<1> DEFINE n == Len(history)
<1>2. /\ lock = "absent" /\ proposal = {} /\ work = Idle /\ last = [command |-> "none", ok |-> TRUE]
  BY DEF CommandsInit
<1>3. /\ history \in Seq(Tree) /\ n \in Nat /\ n # 0 /\ DOMAIN history = 1 .. n
      /\ \A i \in 1 .. n : history[i] \in Tree /\ Coherent(history[i], history[i].version)
      /\ \A i, k \in 1 .. n : i < k => ~Precedes(history[k].version, history[i].version)
  BY HistoryAssumption
<1>4. \A i \in 1 .. n : history[i].version \in Version
  BY <1>3 DEF Tree
<1>5. /\ commits = [i \in 1 .. n |-> [tree |-> history[i], parent |-> i - 1]]
      /\ head = n /\ tree = history[n]
      /\ tips = [line \in ReleaseLines |-> IF line = Main THEN n ELSE 0]
      /\ \A r \in tags : \E i \in 1 .. n : r = [version |-> history[i].version, commit |-> i]
      /\ vetted = [commit : 1 .. n, line : {Main}]
  BY <1>1
<1> HIDE DEF n
<1>6. /\ DOMAIN commits = 1 .. n /\ Len(commits) = n
      /\ \A i \in 1 .. n : commits[i] \in CommitRecord /\ commits[i].tree = history[i]
                           /\ commits[i].parent = i - 1
  BY <1>3, <1>5 DEF CommitRecord
<1>7. Main \in ReleaseLines
  BY DEF ReleaseLines
<1>8. TypeInv
  <2>1. commits \in Seq(CommitRecord)
    BY <1>3, <1>5, <1>6
  <2>2. tags \subseteq [version : Version, commit : DOMAIN commits]
    BY <1>4, <1>5, <1>6
  <2>3. tree \in Tree /\ head \in DOMAIN commits /\ tips \in [ReleaseLines -> 0 .. Len(commits)]
    BY <1>3, <1>5, <1>6
  <2>4. \A c \in DOMAIN commits : commits[c].parent < c
    BY <1>3, <1>6
  <2> QED BY <1>2, <1>5, <1>6, <1>7, <2>1, <2>2, <2>3, <2>4 DEF TypeInv
<1>9. \A i \in 1 .. n : CoherentAt(i) /\ Telling(commits[i].tree)
  BY <1>3, <1>6 DEF CoherentAt, Coherent, Telling
<1>10. TreesInv
  <2>1. Committed = tree
    BY <1>3, <1>5, <1>6 DEF Committed
  <2>2. tree.version \in Version /\ Telling(tree)
    BY <1>3, <1>4, <1>5, <1>6, <1>9
  <2>3. ASSUME NEW c \in 1 .. n, commits[c].parent # 0
        PROVE  ~Precedes(commits[c].tree.version, commits[commits[c].parent].tree.version)
    <3>1. commits[c].parent \in 1 .. n /\ commits[c].parent < c
      BY <1>3, <1>6, <2>3
    <3> QED BY <1>3, <1>6, <3>1
  <2> QED BY <1>6, <1>9, <2>1, <2>2, <2>3, Order DEF TreesInv
<1>11. VettedInv
  <2>1. \A r \in tags : CoherentAt(r.commit)
    BY <1>5, <1>9
  <2>2. \A line \in ReleaseLines : tips[line] # 0 => CoherentAt(tips[line])
    BY <1>3, <1>5, <1>9
  <2>3. \A r \in vetted : CoherentAt(r.commit)
    BY <1>5, <1>9
  <2> QED BY <1>2, <2>1, <2>2, <2>3 DEF VettedInv
<1> QED BY <1>2, <1>8, <1>10, <1>11 DEF Inv, WorkInv, LockInv

LEMMA InvStep == ASSUME Inv, [CommandsNext]_commandsVars PROVE Inv'
BY CommandsType, TreesStep, VettedStep, WorkStep, LockStep DEF Inv

\* The invariant of the local release commands: on every checkout, whatever
\* tools, interruptions and maintainers do, what is prepared, vetted, tagged and
\* merged is what the commands left coherent.
THEOREM CommandsInv == CommandsSpec => []Inv
<1>1. CommandsInit => Inv
  BY InitInv
<1>2. Inv /\ [CommandsNext]_commandsVars => Inv'
  BY InvStep
<1> QED BY <1>1, <1>2, PTL DEF CommandsSpec

\* Commits that check accepted, or that hold a finished activation, have one
\* version everywhere.
THEOREM OnlyCoherentVetted == CommandsSpec => []VettedIsCoherent
<1>1. Inv => VettedIsCoherent
  BY DEF Inv, VettedInv, VettedIsCoherent, CoherentAt
<1> QED BY <1>1, CommandsInv, PTL

LEMMA FaultsCounted == CommandsSpec => [](faults \in Nat)
<1>1. CommandsInit => faults \in Nat
  BY DEF CommandsInit
<1>2. ASSUME faults \in Nat, [CommandsNext]_commandsVars PROVE faults' \in Nat
  <2>1. faults' \in {faults, faults + 1}
    BY <1>2 DEF CommandsNext, StartCommand, Advance, InterruptCommand, MakeCommit, Discard, RemoveLock,
          Checkout, Merge, OthersMerge, StartSupport, PushSupport, Publish, commandsVars, Update, Updated,
          Derive, SetVersion, Written, Managed, Compare, Restore, Select, Agree, Agreed, Validate,
          Validated, FinishCommand, Tool, CleanUp
  <2> QED BY <1>2, <2>1
<1>3. faults \in Nat /\ [CommandsNext]_commandsVars => (faults \in Nat)'
  BY <1>2
<1> QED BY <1>1, <1>3, PTL DEF CommandsSpec

\* The root lock a tool leaves never outlives the tool's own cleanup, whatever
\* the tool's verdict (without_persisted_root_lock).
THEOREM LocksAreRemoved == CommandsSpec => NoLockSurvives
<1> DEFINE Step == /\ work' # Idle /\ work'.step \notin Cleaning => lock' = "absent"
                   /\ work # Idle /\ work' = Idle =>
                        /\ last'.ok => lock' = "absent"
                        /\ faults' = faults => lock' # "generated"
<1>1. ASSUME Inv, faults \in Nat, [CommandsNext]_commandsVars PROVE [Step]_commandsVars
  <2>1. LockInv'
    BY <1>1, InvStep DEF Inv
  <2>2. /\ work' # Idle /\ work'.step \notin Cleaning => lock' = "absent"
        /\ work' = Idle /\ last'.ok => lock' = "absent"
    BY <2>1 DEF LockInv
  <2>3. ASSUME work # Idle, work' = Idle, faults' = faults, CommandsNext PROVE lock' # "generated"
    <3>1. TypeInv /\ LockInv /\ work \in Underway
      BY <1>1, <2>3, Busy DEF Inv
    <3>2. Advance
      <4>1. ~InterruptCommand
        BY <1>1, <2>3 DEF InterruptCommand
      <4> QED BY <2>3, <4>1 DEF CommandsNext, StartCommand, MakeCommit, Discard, RemoveLock, Checkout,
                                Merge, OthersMerge, StartSupport, PushSupport, Publish
    <3>3. ASSUME NEW step, NEW next, CleanUp(step, next) PROVE lock' # "generated"
      BY <3>3 DEF CleanUp
    <3>4. CASE Updated \/ Written \/ Agreed \/ Validated
      BY <3>3, <3>4 DEF Updated, Written, Agreed, Validated
    <3>5. CASE ~(Updated \/ Written \/ Agreed \/ Validated)
      <4>1. LockAbsent
        BY <2>3, <3>1, <3>2, <3>5 DEF Advance, LockInv, LockAbsent, Cleaning, Update, SetVersion, Agree,
              Validate, Tool, Derive, Managed, Compare, Restore, Select, FinishCommand
      <4>2. ASSUME NEW step, NEW next \in Cleaning, NEW effects, Tool(step, next, effects) PROVE FALSE
        <5>1. PICK e \in effects : work' = [work EXCEPT !.step = next, !.failed = ~e.ok]
          BY <4>1, <4>2 DEF Tool
        <5>2. work'.step = next
          BY <3>1, <5>1 DEF Underway
        <5> QED BY <2>3, <4>2, <5>2 DEF Idle, Cleaning
      <4>3. Derive \/ Managed \/ Compare \/ Restore \/ Select \/ FinishCommand
        BY <3>2, <3>5, <4>2 DEF Advance, Update, SetVersion, Agree, Validate, Cleaning
      <4>4. UNCHANGED lock
        BY <4>3 DEF Derive, Managed, Compare, Restore, Select, FinishCommand
      <4> QED BY <4>1, <4>4 DEF LockAbsent
    <3> QED BY <3>4, <3>5
  <2> QED BY <1>1, <2>2, <2>3
<1>2. Inv /\ faults \in Nat /\ [CommandsNext]_commandsVars => [Step]_commandsVars
  BY <1>1
<1> QED BY <1>2, CommandsInv, FaultsCounted, PTL DEF CommandsSpec, NoLockSurvives

\* A preparation that reports success has left a coherent source of the version
\* asked for, made from the tip of a line (prepare).
THEOREM PreparationSucceeds == CommandsSpec => PreparedIsCoherent
<1> DEFINE Step == work # Idle /\ work.command = "prepare" /\ work' = Idle /\ last'.ok
                    => /\ Coherent(tree', work.version) /\ lock' = "absent"
                       /\ Precedes(Committed.version, work.version)
                       /\ tree'.stray = Committed.stray /\ head \in {tips[line] : line \in ReleaseLines}
<1>1. ASSUME Inv, [CommandsNext]_commandsVars PROVE [Step]_commandsVars
  <2>1. SUFFICES ASSUME work # Idle, work.command = "prepare", work' = Idle, last'.ok, CommandsNext
                 PROVE  Step
    BY <1>1
  <2>2. TypeInv /\ TreesInv /\ work \in Underway /\ WorkInv
    BY <1>1, <2>1, Busy DEF Inv
  <2>3. FinishCommand
    BY <2>1, <2>2, OnlyStops
       DEF CommandsNext, StartCommand, InterruptCommand, StopCommand, MakeCommit, Discard,
           RemoveLock, Checkout, Merge,
           OthersMerge, StartSupport, PushSupport, Publish
  <2>4. work.step = "finish" /\ last'.ok = (LockAbsent /\ ManagedDiff)
        /\ UNCHANGED <<tree, lock>>
    BY <2>1, <2>3, Zenon DEF FinishCommand
  <2>5. LockAbsent /\ ManagedDiff
    BY <2>1, <2>4
  <2>6. /\ FromTip /\ tree.version = work.version /\ Validates(tree, tree.version)
        /\ Telling(tree)
    BY <2>1, <2>2, <2>4 DEF WorkInv, Selected, Passed, TreesInv
  <2>7. Coherent(tree, tree.version)
    BY <2>6, ValidIsCoherent
  <2> QED BY <2>1, <2>4, <2>5, <2>6, <2>7 DEF LockAbsent, ManagedDiff, FromTip, Coherent
<1>2. Inv /\ [CommandsNext]_commandsVars => [Step]_commandsVars
  BY <1>1
<1> QED BY <1>2, CommandsInv, PTL DEF CommandsSpec, PreparedIsCoherent

\* The version at the tip of a line never goes back, on main and on every
\* support line.
THEOREM NoLineGoesBack == CommandsSpec => LinesAdvance
<1> DEFINE Step == \A line \in ReleaseLines : tips[line] # 0 =>
                    ~Precedes(commits'[tips'[line]].tree.version, commits[tips[line]].tree.version)
<1>1. ASSUME Inv, CommandsNext PROVE Step
  <2> SUFFICES ASSUME NEW line \in ReleaseLines, tips[line] # 0
               PROVE  ~Precedes(commits'[tips'[line]].tree.version, commits[tips[line]].tree.version)
    OBVIOUS
  <2>1. TypeInv /\ TreesInv /\ tips[line] \in DOMAIN commits
    BY <1>1, CommitsTyped DEF Inv, TypeInv
  <2>2. ~Precedes(commits[tips[line]].tree.version, commits[tips[line]].tree.version)
    BY <2>1, CommitsTyped, Order
  <2>3. CASE UNCHANGED <<commits, tips>>
    BY <2>2, <2>3
  <2>4. CASE MakeCommit
    <3>1. commits' = Append(commits, [tree |-> tree, parent |-> head]) /\ UNCHANGED tips
      BY <2>4 DEF MakeCommit
    <3>2. commits'[tips[line]] = commits[tips[line]]
      BY <2>1, <3>1, OneMore DEF TypeInv
    <3> QED BY <2>2, <3>1, <3>2
  <2>5. CASE OthersMerge
    <3>1. PICK l \in ReleaseLines :
            /\ tips[l] # 0
            /\ commits' = Append(commits, [tree |-> commits[tips[l]].tree, parent |-> tips[l]])
            /\ tips' = [tips EXCEPT ![l] = Len(commits) + 1]
      BY <2>5 DEF OthersMerge
    <3>2. tips[l] \in DOMAIN commits /\ commits[tips[l]].tree \in Tree
      BY <2>1, <3>1, CommitsTyped DEF TypeInv
    <3>3. /\ commits'[tips[line]] = commits[tips[line]]
          /\ commits'[Len(commits) + 1].tree = commits[tips[l]].tree
      BY <2>1, <3>1, <3>2, OneMore
    <3>4. tips'[line] = IF line = l THEN Len(commits) + 1 ELSE tips[line]
      BY <2>1, <3>1 DEF TypeInv
    <3> QED BY <2>2, <3>3, <3>4
  <2>6. CASE Merge
    <3>1. PICK r \in vetted : /\ commits[r.commit].parent = tips[r.line]
                              /\ tips' = [tips EXCEPT ![r.line] = r.commit] /\ UNCHANGED commits
      BY <2>6 DEF Merge
    <3>2. tips'[line] = IF line = r.line THEN r.commit ELSE tips[line]
      BY <2>1, <3>1 DEF TypeInv
    <3>3. r.commit \in DOMAIN commits
      BY <2>1 DEF TypeInv
    <3> QED BY <2>1, <2>2, <3>1, <3>2, <3>3 DEF TreesInv
  <2>7. CASE PushSupport
    <3>1. PICK r \in proposal : tips[r.line] = 0 /\ tips' = [tips EXCEPT ![r.line] = r.commit]
      BY <2>7 DEF PushSupport
    <3>2. tips'[line] = tips[line] /\ UNCHANGED commits
      BY <2>1, <2>7, <3>1 DEF TypeInv, PushSupport
    <3> QED BY <2>2, <3>2
  <2>8. CASE Advance
    <3>1. CASE Update \/ SetVersion \/ Agree \/ Validate
      BY <2>3, <3>1 DEF Update, SetVersion, Agree, Validate, Tool, repository
    <3>2. CASE Updated \/ Written \/ Agreed \/ Validated
      BY <2>3, <3>2 DEF Updated, Written, Agreed, Validated, CleanUp, repository
    <3> QED BY <2>3, <2>8, <3>1, <3>2
            DEF Advance, Derive, Managed, Compare, Restore, Select, FinishCommand, repository
  <2> QED BY <1>1, <2>3, <2>4, <2>5, <2>6, <2>7, <2>8
          DEF CommandsNext, StartCommand, InterruptCommand, Discard, RemoveLock, Checkout,
              StartSupport, Publish, repository
<1>2. Inv /\ [CommandsNext]_commandsVars => [Step]_commandsVars
  BY <1>1
<1> QED BY <1>2, CommandsInv, PTL DEF CommandsSpec, LinesAdvance

-----------------------------------------------------------------------------
(* Commits and those before them.                                          *)

\* A commit is before itself, and whatever is before its parent is before it.
LEMMA BeforeItself ==
    ASSUME TypeInv, NEW c \in DOMAIN commits
    PROVE  /\ c \in Ancestors(c)
           /\ commits[c].parent # 0 => Ancestors(commits[c].parent) \subseteq Ancestors(c)
<1>1. c # 0
  BY CommitsTyped
<1>2. c \in Ancestors(c)
  BY <1>1 DEF Ancestors
<1>3. ASSUME commits[c].parent # 0, NEW a \in Ancestors(commits[c].parent) PROVE a \in Ancestors(c)
  <2>1. a \in DOMAIN commits
    BY <1>3 DEF Ancestors
  <2>2. ASSUME NEW past \in SUBSET DOMAIN commits, c \in past \union {0},
               \A d \in past : commits[d].parent \in past \union {0}
        PROVE  a \in past
    <3>1. commits[c].parent \in past \union {0}
      BY <1>1, <2>2
    <3> QED BY <1>3, <2>2, <3>1 DEF Ancestors
  <2> QED BY <2>1, <2>2 DEF Ancestors
<1> QED BY <1>2, <1>3

\* A new commit changes nobody's past.
LEMMA PastStays ==
    ASSUME TypeInv, NEW c \in DOMAIN commits, NEW n,
           DOMAIN commits' = DOMAIN commits \union {n},
           \A d \in DOMAIN commits : commits'[d] = commits[d]
    PROVE  Ancestors(c)' = Ancestors(c)
<1>1. \A d \in DOMAIN commits : commits[d].parent \in DOMAIN commits \union {0}
  BY CommitsTyped DEF TypeInv
<1>2. ASSUME NEW a \in Ancestors(c) PROVE a \in Ancestors(c)'
  <2>1. a \in DOMAIN commits
    BY <1>2 DEF Ancestors
  <2>2. ASSUME NEW past \in SUBSET DOMAIN commits', c \in past \union {0},
               \A d \in past : commits'[d].parent \in past \union {0}
        PROVE  a \in past
    <3> DEFINE old == past \intersect DOMAIN commits
    <3>1. c \in old \union {0} /\ \A d \in old : commits[d].parent \in old \union {0}
      BY <1>1, <2>2
    <3> QED BY <1>2, <3>1 DEF Ancestors
  <2> QED BY <2>1, <2>2 DEF Ancestors
<1>3. ASSUME NEW a \in Ancestors(c)' PROVE a \in Ancestors(c)
  <2>1. ASSUME NEW past \in SUBSET DOMAIN commits, c \in past \union {0},
               \A d \in past : commits[d].parent \in past \union {0}
        PROVE  a \in past
    <3>1. past \in SUBSET DOMAIN commits' /\ \A d \in past : commits'[d].parent \in past \union {0}
      BY <2>1
    <3> QED BY <1>3, <2>1, <3>1 DEF Ancestors
  <2>2. a \in DOMAIN commits
    BY <1>1, <2>1
  <2> QED BY <2>1, <2>2 DEF Ancestors
<1> QED BY <1>2, <1>3

\* No version before a commit comes after its own.
LEMMA PastIsBefore ==
    ASSUME TypeInv, TreesInv, NEW c \in DOMAIN commits, NEW a \in Ancestors(c)
    PROVE  ~Precedes(commits[c].tree.version, commits[a].tree.version)
<1> DEFINE past == {d \in DOMAIN commits : ~Precedes(commits[c].tree.version, commits[d].tree.version)}
<1>1. c \in past
  BY Order, CommitsTyped
<1>2. ASSUME NEW d \in past PROVE commits[d].parent \in past \union {0}
  <2>1. CASE commits[d].parent # 0
    <3>1. commits[d].parent \in DOMAIN commits
      BY <2>1, CommitsTyped DEF TypeInv
    <3>2. ~Precedes(commits[d].tree.version, commits[commits[d].parent].tree.version)
      BY <2>1 DEF TreesInv
    <3>3. ~Precedes(commits[c].tree.version, commits[commits[d].parent].tree.version)
      BY <3>1, <3>2, Order, CommitsTyped
    <3> QED BY <3>1, <3>3
  <2> QED BY <2>1
<1>3. past \in SUBSET DOMAIN commits
  OBVIOUS
<1> HIDE DEF past
<1>4. a \in past
  BY <1>1, <1>2, <1>3 DEF Ancestors
<1> QED BY <1>4 DEF past

\* A set of natural numbers has a least element.
LEMMA LeastOfAll ==
    ASSUME NEW S \in SUBSET Nat, S # {}
    PROVE  \E n \in S : \A m \in S : n <= m
<1>1. PICK n \in S : \A m \in S : ~(<<m, n>> \in OpToRel(<, Nat))
  BY NatLessThanWellFounded, WFMin
<1>2. \A m \in S : ~(m < n)
  BY <1>1 DEF OpToRel
<1> QED BY <1>2

\* The candidates of one version that are published have a last one.
LEMMA LastCandidate ==
    ASSUME TypeInv, NEW v, NEW q \in PublishedVersions, SameCore(q, v)
    PROVE  \E p \in PublishedVersions : /\ SameCore(p, v) /\ q.pre <= p.pre
                                        /\ \A o \in PublishedVersions : SameCore(o, v) => o.pre <= p.pre
<1>1. \A o \in PublishedVersions : o \in Version /\ o.pre \in 0 .. StableOrdinal
  BY DEF PublishedVersions, TypeInv, Version
<1>2. StableOrdinal \in Nat
  BY Bounds DEF StableOrdinal
<1> DEFINE T == {k \in Nat : \E o \in PublishedVersions : SameCore(o, v) /\ k = StableOrdinal - o.pre}
<1>3. StableOrdinal - q.pre \in T
  BY <1>1, <1>2
<1>4. T \in SUBSET Nat /\ T # {}
  BY <1>3
<1>5. PICK k \in T : \A l \in T : k <= l
  <2> HIDE DEF T
  <2> QED BY <1>4, LeastOfAll
<1>6. PICK p \in PublishedVersions : SameCore(p, v) /\ k = StableOrdinal - p.pre
  OBVIOUS
<1>7. ASSUME NEW o \in PublishedVersions, SameCore(o, v) PROVE o.pre <= p.pre
  <2>1. o.pre \in Int /\ p.pre \in Int /\ o.pre <= StableOrdinal /\ StableOrdinal - o.pre \in Nat
    BY <1>1, <1>2
  <2>2. StableOrdinal - o.pre \in T
    BY <1>7, <2>1
  <2>3. StableOrdinal - p.pre <= StableOrdinal - o.pre
    BY <1>5, <1>6, <2>2
  <2> QED BY <1>2, <2>1, <2>3
<1> QED BY <1>6, <1>7

\* What is before a commit is before its children.
LEMMA PastGrows ==
    ASSUME TypeInv, NEW c \in DOMAIN commits, NEW n, n # 0,
           DOMAIN commits' = DOMAIN commits \union {n},
           \A d \in DOMAIN commits : commits'[d] = commits[d],
           commits'[n].parent = c, NEW a \in Ancestors(c)
    PROVE  a \in Ancestors(n)'
<1>1. /\ \A d \in DOMAIN commits : commits[d].parent \in DOMAIN commits \union {0}
      /\ a \in DOMAIN commits /\ c # 0
  BY CommitsTyped DEF TypeInv, Ancestors
<1>2. ASSUME NEW past \in SUBSET DOMAIN commits', n \in past \union {0},
             \A d \in past : commits'[d].parent \in past \union {0}
      PROVE  a \in past
  <2> DEFINE old == past \intersect DOMAIN commits
  <2>1. c \in old
    BY <1>1, <1>2
  <2>2. \A d \in old : commits[d].parent \in old \union {0}
    BY <1>1, <1>2
  <2> QED BY <2>1, <2>2 DEF Ancestors
<1> QED BY <1>1, <1>2 DEF Ancestors

-----------------------------------------------------------------------------
(* Support lines.                                                          *)

\* What follows on a line keeps following when a version is published that is
\* no candidate before it.
LEMMA FollowsStays ==
    ASSUME TypeInv, NEW line, NEW v, NEW w, Follows(line, v),
           \A u : u \in PublishedVersions' => u \in PublishedVersions \/ u = w,
           \A u : u \in PublishedVersions => u \in PublishedVersions',
           SameCore(w, v) /\ w.pre < v.pre /\ ~IsStable(v)
                => \E q \in PublishedVersions : SameCore(q, v) /\ q.pre < v.pre
    PROVE  Follows(line, v)'
BY DEF Follows

\* A version that advances a support line follows, and comes before none of
\* the candidates that are published.
LEMMA AdvanceFollows ==
    ASSUME TypeInv, NEW line \in ReleaseLines \ {Main}, NEW v \in Version,
           AdvancesLine(line, v, PublishedVersions), RealRelease(v),
           \A u : u \in PublishedVersions' => u \in PublishedVersions \/ u = v,
           \A u : u \in PublishedVersions => u \in PublishedVersions'
    PROVE  /\ Follows(line, v)'
           /\ \A o \in PublishedVersions : SameCore(o, v) /\ ~IsStable(o) => ~(v.pre < o.pre)
<1>1. line.support /\ v.minor = line.minor
  BY DEF ReleaseLines, Main, SupportLine, AdvancesLine, Admits
<1>2. \A o \in PublishedVersions : o \in Version /\ o.pre \in 0 .. StableOrdinal
  BY DEF PublishedVersions, TypeInv, Version
<1>3. StableOrdinal \in Nat /\ v.pre \in 0 .. StableOrdinal
  BY Bounds DEF StableOrdinal, Version
<1>4. \E s \in PublishedVersions : s.minor = line.minor /\ IsStable(s) /\ v.patch = s.patch + 1
  BY <1>1 DEF AdvancesLine, Admits
<1>5. [v EXCEPT !.patch = @ - 1, !.pre = StableOrdinal] \in PublishedVersions
  <2>1. PICK s \in PublishedVersions : s.minor = line.minor /\ IsStable(s) /\ v.patch = s.patch + 1
    BY <1>4
  <2>2. s \in Version /\ s.pre = StableOrdinal /\ s.patch = v.patch - 1 /\ s.minor = v.minor
    BY <1>1, <1>2, <2>1 DEF IsStable, Version
  <2>3. s = [v EXCEPT !.patch = @ - 1, !.pre = StableOrdinal]
    BY <2>2 DEF Version
  <2> QED BY <2>1, <2>3
<1>6. ASSUME ~IsStable(v), NEW p \in PublishedVersions, SameCore(p, v),
             \A o \in PublishedVersions : SameCore(o, v) => o.pre <= p.pre
      PROVE  ~IsStable(p) /\ v.pre = p.pre + 1
  BY <1>1, <1>6 DEF AdvancesLine
<1>7. ASSUME ~IsStable(v), NEW q \in PublishedVersions, SameCore(q, v)
      PROVE  [v EXCEPT !.pre = @ - 1] \in PublishedVersions /\ q.pre < v.pre
  <2>1. PICK p \in PublishedVersions : /\ SameCore(p, v) /\ q.pre <= p.pre
                                       /\ \A o \in PublishedVersions : SameCore(o, v) => o.pre <= p.pre
    BY <1>7, LastCandidate
  <2>2. v.pre = p.pre + 1 /\ p \in Version /\ p.pre \in 0 .. StableOrdinal /\ q.pre \in 0 .. StableOrdinal
    BY <1>2, <1>6, <1>7, <2>1
  <2>3. p.minor = v.minor /\ p.patch = v.patch /\ p.pre = v.pre - 1
    BY <1>3, <2>1, <2>2 DEF SameCore
  <2>4. p = [v EXCEPT !.pre = @ - 1]
    BY <2>2, <2>3 DEF Version
  <2> QED BY <2>1, <2>2, <2>4
<1>8. Follows(line, v)'
  <2>1. ASSUME NEW q \in PublishedVersions', SameCore(q, v), q.pre < v.pre, ~IsStable(v)
        PROVE  [v EXCEPT !.pre = @ - 1] \in PublishedVersions'
    <3>1. q \in PublishedVersions
      BY <1>3, <2>1
    <3> QED BY <1>7, <2>1, <3>1
  <2> QED BY <1>1, <1>5, <2>1 DEF Follows, Admits
<1>9. ASSUME NEW o \in PublishedVersions, SameCore(o, v), ~IsStable(o) PROVE ~(v.pre < o.pre)
  <2>1. o.pre \in 0 .. StableOrdinal /\ o.pre # StableOrdinal
    BY <1>2, <1>9 DEF IsStable
  <2>2. CASE IsStable(v)
    BY <1>3, <2>1, <2>2 DEF IsStable
  <2>3. CASE ~IsStable(v)
    <3>1. o.pre < v.pre
      BY <1>7, <1>9, <2>3
    <3> QED BY <1>3, <2>1, <3>1
  <2> QED BY <2>2, <2>3
<1> QED BY <1>8, <1>9

\* Main as it is found is one history up to its tip.
LEMMA LineInit == ASSUME CommandsInit PROVE LineInv
<1>1. PICK history \in Histories :
        LET n == Len(history) IN
        /\ commits = [i \in 1 .. n |-> [tree |-> history[i], parent |-> i - 1]]
        /\ head = n /\ tree = history[n]
        /\ tips = [line \in ReleaseLines |-> IF line = Main THEN n ELSE 0]
        /\ tags = {[version |-> history[i].version, commit |-> i] : i \in
                    {k \in 1 .. n : /\ RealRelease(history[k].version)
                                    /\ \A b \in 1 .. k - 1 : history[b].version # history[k].version}}
        /\ vetted = [commit : 1 .. n, line : {Main}]
  BY DEF CommandsInit
<1> DEFINE n == Len(history)
<1>2. history \in Seq(Tree) /\ n \in Nat /\ n # 0 /\ proposal = {}
  BY HistoryAssumption DEF CommandsInit
<1>3. /\ commits = [i \in 1 .. n |-> [tree |-> history[i], parent |-> i - 1]]
      /\ tips = [line \in ReleaseLines |-> IF line = Main THEN n ELSE 0]
      /\ \A r \in tags : \E i \in 1 .. n : r = [version |-> history[i].version, commit |-> i]
  BY <1>1
<1> HIDE DEF n
<1>4. /\ DOMAIN commits = 1 .. n
      /\ \A i \in 1 .. n : commits[i].tree = history[i] /\ commits[i].parent = i - 1
  BY <1>3
<1>5. Main \in ReleaseLines
  BY DEF ReleaseLines
<1>6. tips[Main] = n /\ \A line \in ReleaseLines \ {Main} : tips[line] = 0
  BY <1>3, <1>5
<1>7. ASSUME NEW a \in 1 .. n PROVE a \in Ancestors(n)
  <2>1. ASSUME NEW past \in SUBSET DOMAIN commits, n \in past \union {0},
               \A d \in past : commits[d].parent \in past \union {0}, a \notin past
        PROVE  FALSE
    <3> DEFINE T == {k \in Nat : k < n /\ n - k \notin past}
    <3>1. n - a \in T
      BY <1>2, <2>1
    <3>2. T \in SUBSET Nat /\ T # {}
      BY <3>1
    <3>3. PICK k \in T : \A l \in T : k <= l
      <4> HIDE DEF T
      <4> QED BY <3>2, LeastOfAll
    <3>4. k # 0
      BY <1>2, <2>1
    <3>5. k - 1 \in Nat /\ k - 1 < n /\ k - 1 \notin T
      BY <1>2, <3>3, <3>4
    <3>6. n - (k - 1) \in past
      BY <3>5
    <3>7. commits[n - (k - 1)].parent = n - k
      BY <1>2, <1>4, <3>3, <3>4
    <3>8. n - k \in past \union {0}
      BY <2>1, <3>6, <3>7
    <3> QED BY <1>2, <3>3, <3>8
  <2> QED BY <1>4, <2>1 DEF Ancestors
<1>8. ASSUME NEW r \in tags
      PROVE  r.version = commits[r.commit].tree.version /\ r.commit \in Ancestors(tips[Main])
  <2>1. PICK i \in 1 .. n : r = [version |-> history[i].version, commit |-> i]
    BY <1>3
  <2> QED BY <1>4, <1>6, <1>7, <2>1
<1> QED BY <1>2, <1>6, <1>8 DEF LineInv

\* The parts of the state that LineInv reads are unchanged.
LEMMA LineLocal ==
    ASSUME LineInv, UNCHANGED <<commits, tips, tags, proposal>> PROVE LineInv'
BY DEF LineInv, Behind, Follows, PublishedVersions, Ancestors

\* Main's past only grows, its version does not go back, the support lines
\* stay, and nothing is published.
LEMMA LineMainGrows ==
    ASSUME TypeInv, LineInv, UNCHANGED <<tags, proposal>>, tips'[Main] # 0,
           \A line \in ReleaseLines \ {Main} : (tips'[line] = 0) = (tips[line] = 0),
           \A a \in Ancestors(tips[Main]) : a \in Ancestors(tips[Main])',
           commits'[tips'[Main]].tree.version \in Version,
           ~Precedes(commits'[tips'[Main]].tree.version, commits[tips[Main]].tree.version),
           \A c \in DOMAIN commits : commits'[c] = commits[c]
    PROVE  LineInv'
<1>1. /\ Main \in ReleaseLines /\ tips[Main] \in DOMAIN commits
      /\ commits[tips[Main]].tree.version \in Version
  BY CommitsTyped DEF ReleaseLines, LineInv, TypeInv
<1>2. PublishedVersions' = PublishedVersions
  BY DEF PublishedVersions
<1>3. commits'[tips'[Main]].tree.version.minor >= commits[tips[Main]].tree.version.minor
  BY <1>1 DEF Precedes, Version
<1>4. ASSUME NEW line \in ReleaseLines \ {Main}, Behind(line) PROVE Behind(line)'
  <2>1. line.minor \in Int
    BY Bounds DEF ReleaseLines, SupportLine, Main
  <2>2. commits'[tips'[Main]].tree.version.minor > line.minor
    BY <1>1, <1>3, <1>4, <2>1 DEF Behind, Version
  <2>3. \E s \in PublishedVersions : IsStable(s) /\ s.minor > line.minor
    BY <1>4 DEF Behind
  <2> QED BY <1>2, <2>2, <2>3 DEF Behind
<1>5. ASSUME NEW r \in proposal PROVE r.line # Main /\ Behind(r.line)'
  <2>1. r.line \in ReleaseLines /\ r.line # Main /\ Behind(r.line)
    BY DEF TypeInv, LineInv
  <2> QED BY <1>4, <2>1
<1>6. ASSUME NEW r \in tags PROVE r.version = commits'[r.commit].tree.version
  BY DEF TypeInv, LineInv
<1>7. ASSUME NEW r \in tags
      PROVE  \/ r.commit \in Ancestors(tips[Main])'
             \/ \E line \in ReleaseLines \ {Main} : tips'[line] # 0 /\ Follows(line, r.version)'
  <2>1. CASE r.commit \in Ancestors(tips[Main])
    BY <2>1
  <2>2. ASSUME NEW line \in ReleaseLines \ {Main}, tips[line] # 0, Follows(line, r.version)
        PROVE  tips'[line] # 0 /\ Follows(line, r.version)'
    BY <1>2, <2>2 DEF Follows
  <2> QED BY <2>1, <2>2 DEF LineInv
<1>8. \A line \in ReleaseLines \ {Main} : tips'[line] # 0 => Behind(line)' /\ proposal = {}
  BY <1>4 DEF LineInv
<1>9. \A k, line \in ReleaseLines \ {Main} : tips'[k] # 0 /\ tips'[line] # 0 => k = line
  BY DEF LineInv
<1> QED BY <1>5, <1>6, <1>7, <1>8, <1>9 DEF LineInv

\* A publication: of main, from its tip, or of a support line, which the new
\* version follows; it comes before no candidate of a support line.
LEMMA LinePublish == ASSUME TypeInv, LineInv, Publish PROVE LineInv'
<1>1. PICK line \in ReleaseLines :
        LET now == commits[tips[line]].tree.version
        IN  /\ [commit |-> tips[line], line |-> line] \in vetted
            /\ RealRelease(now) /\ now \notin PublishedVersions /\ AdvancesLine(line, now, PublishedVersions)
            /\ tags' = tags \union {[version |-> now, commit |-> tips[line]]}
  BY DEF Publish
<1>2. tips[line] \in DOMAIN commits /\ commits[tips[line]].tree.version \in Version /\ tips[line] # 0
  BY <1>1, CommitsTyped DEF TypeInv
<1>3. PICK v \in Version : v = commits[tips[line]].tree.version
  BY <1>2
<1> DEFINE new == [version |-> v, commit |-> tips[line]]
<1>4. /\ tips[line] \in DOMAIN commits /\ tips[line] # 0
      /\ RealRelease(v) /\ AdvancesLine(line, v, PublishedVersions) /\ tags' = tags \union {new}
  BY <1>1, <1>2, <1>3
<1>5. UNCHANGED <<commits, tips, proposal>>
  BY DEF Publish
<1> HIDE DEF new
<1>6. new.version = v /\ new.commit = tips[line]
  BY DEF new
<1>7. /\ \A u : u \in PublishedVersions' => u \in PublishedVersions \/ u = v
      /\ \A u : u \in PublishedVersions => u \in PublishedVersions'
  BY <1>4, <1>6 DEF PublishedVersions
<1>8. /\ Main \in ReleaseLines /\ tips[Main] \in DOMAIN commits
      /\ commits[tips[Main]].tree.version \in Version
  BY CommitsTyped DEF ReleaseLines, LineInv, TypeInv
<1>9. ASSUME NEW k, Behind(k) PROVE Behind(k)'
  BY <1>5, <1>7, <1>9 DEF Behind
<1>10. ASSUME NEW k \in ReleaseLines \ {Main}, tips[k] # 0, NEW r \in tags, Follows(k, r.version)
      PROVE  Follows(k, r.version)'
  <2>1. r.version \in PublishedVersions /\ r.version.minor = k.minor
    BY <1>10 DEF PublishedVersions, Follows, Admits, ReleaseLines, Main, SupportLine
  <2>2. ASSUME SameCore(v, r.version), v.pre < r.version.pre, ~IsStable(r.version) PROVE FALSE
    <3>1. CASE line = Main
      <4>1. v.minor > k.minor
        BY <1>3, <1>10, <3>1 DEF LineInv, Behind
      <4> QED BY <1>4, <2>1, <2>2, <4>1 DEF SameCore, Version
    <3>2. CASE line # Main
      <4>1. \A o \in PublishedVersions : SameCore(o, v) /\ ~IsStable(o) => ~(v.pre < o.pre)
        BY <1>4, <1>7, <3>2, AdvanceFollows
      <4> QED BY <2>1, <2>2, <4>1 DEF SameCore
    <3> QED BY <3>1, <3>2
  <2> QED BY <1>7, <1>10, <2>2, FollowsStays
<1>11. ASSUME NEW r \in tags'
      PROVE  /\ r.version = commits[r.commit].tree.version
             /\ \/ r.commit \in Ancestors(tips[Main])
                \/ \E k \in ReleaseLines \ {Main} : tips[k] # 0 /\ Follows(k, r.version)'
  <2>1. CASE r \in tags
    BY <1>10, <2>1 DEF LineInv
  <2>2. CASE r = new
    <3>1. CASE line = Main
      BY <1>3, <1>6, <1>8, <2>2, <3>1, BeforeItself
    <3>2. CASE line # Main
      <4>1. Follows(line, v)'
        BY <1>4, <1>7, <3>2, AdvanceFollows
      <4> QED BY <1>3, <1>4, <1>6, <2>2, <3>2, <4>1
    <3> QED BY <3>1, <3>2
  <2> QED BY <1>4, <2>1, <2>2
<1>12. Ancestors(tips[Main])' = Ancestors(tips[Main])
  BY <1>5 DEF Ancestors
<1> QED
  <2>1. \A r \in proposal' : r.line # Main /\ Behind(r.line)'
    BY <1>5, <1>9 DEF LineInv
  <2>2. /\ \A k \in ReleaseLines \ {Main} : tips'[k] # 0 => Behind(k)' /\ proposal' = {}
        /\ \A k, l \in ReleaseLines \ {Main} : tips'[k] # 0 /\ tips'[l] # 0 => k = l
        /\ tips'[Main] # 0
    BY <1>5, <1>9 DEF LineInv
  <2>3. ASSUME NEW r \in tags'
        PROVE  /\ r.version = commits'[r.commit].tree.version
               /\ \/ r.commit \in Ancestors(tips[Main])'
                  \/ \E k \in ReleaseLines \ {Main} : tips'[k] # 0 /\ Follows(k, r.version)'
    BY <1>5, <1>11, <1>12
  <2> QED BY <2>1, <2>2, <2>3 DEF LineInv

LEMMA LineStep == ASSUME TypeInv, TreesInv, LineInv, [CommandsNext]_commandsVars PROVE LineInv'
<1>1. /\ Main \in ReleaseLines /\ tips[Main] \in DOMAIN commits /\ tips[Main] # 0
      /\ commits[tips[Main]].tree.version \in Version
  BY CommitsTyped DEF ReleaseLines, LineInv, TypeInv
<1>2. ~Precedes(commits[tips[Main]].tree.version, commits[tips[Main]].tree.version)
  BY <1>1, Order
<1>3. CASE MakeCommit
  <2>1. /\ commits' = Append(commits, [tree |-> tree, parent |-> head])
        /\ UNCHANGED <<tips, tags, proposal>>
    BY <1>3 DEF MakeCommit
  <2>2. /\ DOMAIN commits' = DOMAIN commits \union {Len(commits) + 1}
        /\ \A c \in DOMAIN commits : commits'[c] = commits[c]
    BY <2>1, OneMore DEF TypeInv
  <2>3. ASSUME NEW c \in DOMAIN commits PROVE Ancestors(c)' = Ancestors(c)
    BY <2>2, PastStays
  <2>4. \A a \in Ancestors(tips[Main]) : a \in Ancestors(tips[Main])'
    BY <1>1, <2>1, <2>3
  <2> QED BY <1>1, <1>2, <2>1, <2>2, <2>4, LineMainGrows
<1>4. CASE OthersMerge
  <2>1. PICK line \in ReleaseLines :
            /\ tips[line] # 0
            /\ commits' = Append(commits, [tree |-> commits[tips[line]].tree, parent |-> tips[line]])
            /\ tips' = [tips EXCEPT ![line] = Len(commits) + 1]
    BY <1>4 DEF OthersMerge
  <2>2. UNCHANGED <<tags, proposal>>
    BY <1>4 DEF OthersMerge
  <2>3. tips[line] \in DOMAIN commits /\ commits[tips[line]].tree \in Tree
    BY <2>1, CommitsTyped DEF TypeInv
  <2>4. PICK n : n = Len(commits) + 1 /\ n # 0
    BY CommitsTyped
  <2>5. /\ DOMAIN commits' = DOMAIN commits \union {n}
        /\ \A c \in DOMAIN commits : commits'[c] = commits[c]
        /\ commits'[n] = [tree |-> commits[tips[line]].tree, parent |-> tips[line]]
    BY <2>1, <2>3, <2>4, OneMore
  <2>6. \A l \in ReleaseLines : tips'[l] = IF l = line THEN n ELSE tips[l]
    BY <2>1, <2>4 DEF TypeInv
  <2>7. \A l \in ReleaseLines \ {Main} : (tips'[l] = 0) = (tips[l] = 0)
    BY <2>1, <2>4, <2>6
  <2>8. CASE line = Main
    <3>1. ASSUME NEW a \in Ancestors(tips[Main]) PROVE a \in Ancestors(n)'
      <4>1. commits'[n].parent = tips[Main]
        BY <2>5, <2>8
      <4> QED BY <1>1, <2>4, <2>5, <3>1, <4>1, PastGrows
    <3>2. tips'[Main] = n
      BY <1>1, <2>6, <2>8
    <3>3. commits'[tips'[Main]].tree.version = commits[tips[Main]].tree.version
      BY <2>5, <2>8, <3>2
    <3>4. \A a \in Ancestors(tips[Main]) : a \in Ancestors(tips[Main])'
      BY <3>1, <3>2
    <3> QED BY <1>1, <1>2, <2>2, <2>4, <2>5, <2>7, <3>2, <3>3, <3>4, LineMainGrows
  <2>9. CASE line # Main
    <3>1. tips'[Main] = tips[Main]
      BY <1>1, <2>6, <2>9
    <3>2. Ancestors(tips[Main])' = Ancestors(tips[Main])
      <4>1. ASSUME NEW c \in DOMAIN commits PROVE Ancestors(c)' = Ancestors(c)
        BY <2>5, PastStays
      <4> QED BY <1>1, <3>1, <4>1
    <3>3. commits'[tips'[Main]].tree.version = commits[tips[Main]].tree.version
      BY <1>1, <2>5, <3>1
    <3> QED BY <1>1, <1>2, <2>2, <2>5, <2>7, <3>1, <3>2, <3>3, LineMainGrows
  <2> QED BY <2>8, <2>9
<1>5. CASE Merge
  <2>1. PICK r \in vetted : /\ tips[r.line] # 0 /\ commits[r.commit].parent = tips[r.line]
                            /\ tips' = [tips EXCEPT ![r.line] = r.commit]
    BY <1>5 DEF Merge
  <2>2. UNCHANGED <<commits, tags, proposal>>
    BY <1>5 DEF Merge
  <2>3. r.commit \in DOMAIN commits /\ r.line \in ReleaseLines /\ r.commit # 0
        /\ commits[r.commit].tree.version \in Version
    BY CommitsTyped DEF TypeInv
  <2>4. \A l \in ReleaseLines : tips'[l] = IF l = r.line THEN r.commit ELSE tips[l]
    BY <2>1 DEF TypeInv
  <2>5. \A l \in ReleaseLines \ {Main} : (tips'[l] = 0) = (tips[l] = 0)
    BY <2>1, <2>3, <2>4
  <2>6. ASSUME NEW c PROVE Ancestors(c)' = Ancestors(c)
    BY <2>2 DEF Ancestors
  <2>7. CASE r.line = Main
    <3>1. tips'[Main] = r.commit /\ commits[r.commit].parent = tips[Main]
      BY <1>1, <2>1, <2>4, <2>7
    <3>2. Ancestors(tips[Main]) \subseteq Ancestors(r.commit)
      BY <1>1, <2>3, <3>1, BeforeItself
    <3>3. \A a \in Ancestors(tips[Main]) : a \in Ancestors(tips[Main])'
      BY <2>6, <3>1, <3>2
    <3>4. ~Precedes(commits[r.commit].tree.version, commits[tips[Main]].tree.version)
      BY <1>1, <2>3, <3>1 DEF TreesInv
    <3> QED BY <2>2, <2>3, <2>5, <3>1, <3>3, <3>4, LineMainGrows
  <2>8. CASE r.line # Main
    <3>1. tips'[Main] = tips[Main]
      BY <1>1, <2>4, <2>8
    <3>2. Ancestors(tips[Main])' = Ancestors(tips[Main])
      BY <2>6, <3>1
    <3> QED BY <1>1, <1>2, <2>2, <2>5, <3>1, <3>2, LineMainGrows
  <2> QED BY <2>7, <2>8
<1>6. CASE StartSupport
  <2>1. PICK line \in ReleaseLines \ {Main}, anchor \in tags :
            /\ \E s \in Successors(line) : s.commit \in Ancestors(head)
            /\ proposal' = {[commit |-> anchor.commit, line |-> line]}
    BY <1>6 DEF StartSupport
  <2>2. /\ UNCHANGED <<commits, tips, tags>> /\ head = tips[Main]
        /\ \A l \in ReleaseLines \ {Main} : tips[l] = 0
    BY <1>6 DEF StartSupport, AtTip
  <2>3. PICK s \in tags : /\ s.version.minor > line.minor /\ IsStable(s.version)
                         /\ s.commit \in Ancestors(tips[Main])
    BY <2>1, <2>2 DEF Successors
  <2>4. /\ s.version = commits[s.commit].tree.version /\ s.version \in Version /\ line.minor \in Int
        /\ s.version \in PublishedVersions
    BY Bounds DEF LineInv, TypeInv, PublishedVersions, ReleaseLines, SupportLine, Main
  <2>5. ~Precedes(commits[tips[Main]].tree.version, s.version)
    BY <1>1, <2>3, <2>4, PastIsBefore
  <2>6. commits[tips[Main]].tree.version.minor > line.minor
    BY <1>1, <2>3, <2>4, <2>5 DEF Precedes, Version
  <2>7. Behind(line)'
    BY <2>2, <2>3, <2>4, <2>6 DEF Behind, PublishedVersions
  <2>8. \A r \in proposal' : r.line # Main /\ Behind(r.line)'
    BY <2>1, <2>7
  <2>9. ASSUME NEW r \in tags
        PROVE  /\ r.version = commits'[r.commit].tree.version
               /\ r.commit \in Ancestors(tips[Main])'
    <3>1. Ancestors(tips[Main])' = Ancestors(tips[Main])
      BY <2>2 DEF Ancestors
    <3> QED BY <2>2, <3>1 DEF LineInv
  <2> QED BY <1>1, <2>2, <2>8, <2>9 DEF LineInv
<1>7. CASE PushSupport
  <2>1. PICK r \in proposal : tips[r.line] = 0 /\ tips' = [tips EXCEPT ![r.line] = r.commit]
    BY <1>7 DEF PushSupport
  <2>2. UNCHANGED <<commits, tags>> /\ proposal' = {}
    BY <1>7 DEF PushSupport
  <2>3. /\ r.line \in ReleaseLines \ {Main} /\ Behind(r.line)
        /\ \A l \in ReleaseLines \ {Main} : tips[l] = 0
    BY DEF LineInv, TypeInv
  <2>4. \A l \in ReleaseLines : tips'[l] = IF l = r.line THEN r.commit ELSE tips[l]
    BY <2>1 DEF TypeInv
  <2>5. tips'[Main] = tips[Main] /\ \A l \in ReleaseLines \ {Main} : tips'[l] # 0 => l = r.line
    BY <1>1, <2>3, <2>4
  <2>6. Behind(r.line)'
    BY <2>2, <2>3, <2>5 DEF Behind, PublishedVersions
  <2>7. ASSUME NEW q \in tags
        PROVE  /\ q.version = commits'[q.commit].tree.version
               /\ q.commit \in Ancestors(tips[Main])'
    <3>1. Ancestors(tips[Main])' = Ancestors(tips[Main])
      BY <2>2, <2>5 DEF Ancestors
    <3> QED BY <2>2, <2>3, <3>1 DEF LineInv
  <2> QED BY <1>1, <2>2, <2>5, <2>6, <2>7 DEF LineInv
<1>8. CASE Publish
  BY <1>8, LinePublish
<1>9. CASE UNCHANGED <<commits, tips, tags, proposal>>
  BY <1>9, LineLocal
<1>10. CASE Advance
  <2>1. CASE Update \/ SetVersion \/ Agree \/ Validate
    BY <1>9, <2>1 DEF Update, SetVersion, Agree, Validate, Tool, repository
  <2>2. CASE Updated \/ Written \/ Agreed \/ Validated
    BY <1>9, <2>2 DEF Updated, Written, Agreed, Validated, CleanUp, repository
  <2> QED BY <1>9, <1>10, <2>1, <2>2
          DEF Advance, Derive, Managed, Compare, Restore, Select, FinishCommand, repository
<1> QED BY <1>3, <1>4, <1>5, <1>6, <1>7, <1>8, <1>9, <1>10
        DEF CommandsNext, StartCommand, InterruptCommand, Discard, RemoveLock, Checkout,
            commandsVars, repository

\* On a support line every version published follows a stable version of the
\* patch before it, and its candidates have no gap.
THEOREM NoGapsOnSupportLines == CommandsSpec => []SupportLineHasNoGaps
<1>1. CommandsInit => LineInv
  BY LineInit
<1>2. Inv /\ LineInv /\ [CommandsNext]_commandsVars => LineInv'
  BY LineStep DEF Inv
<1>3. LineInv => SupportLineHasNoGaps
  <2>1. SUFFICES ASSUME LineInv, NEW line \in ReleaseLines \ {Main}, tips[line] # 0, NEW r \in tags,
                        r.commit \in Ancestors(tips[line]) \ Ancestors(tips[Main])
                 PROVE  Follows(line, r.version)
    BY DEF SupportLineHasNoGaps, LineInv, Behind
  <2>2. PICK k \in ReleaseLines \ {Main} : tips[k] # 0 /\ Follows(k, r.version)
    BY <2>1 DEF LineInv
  <2> QED BY <2>1, <2>2 DEF LineInv
<1> QED BY <1>1, <1>2, <1>3, CommandsInv, PTL DEF CommandsSpec

=============================================================================
