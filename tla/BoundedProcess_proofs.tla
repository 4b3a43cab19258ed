------------------------ MODULE BoundedProcess_proofs ------------------------
(***************************************************************************)
(* Proofs about BoundedProcess, for every process table, limit and number  *)
(* of descendants.                                                         *)
(***************************************************************************)
EXTENDS BoundedProcess, TLAPS

USE DEF Procs, Streams, Ends

CallerStates == {"prepare", "enter", "spawn", "drain stdout", "drain stderr", "feed", "poll",
                 "terminate", "reap", "finish", "scan", "scanning", "collect", "leave", "dispose",
                 "done"}

-----------------------------------------------------------------------------
(* The parts of the inductive invariant.                                   *)

\* What has been read was written; a stream at its end has no writer left and
\* nothing unread.
StreamsInv ==
    /\ \A s \in Streams : captured[s] <= written[s]
    /\ \A s \in eof : captured[s] = written[s] /\ \A p \in Procs : s \notin holds[p]
    /\ pc \in {"prepare", "enter", "spawn"} => eof = {}
    /\ result = "ok" => pc \in {"scan", "scanning", "collect", "leave", "dispose", "done"}
    /\ result = "ok" \/ pc = "finish" => eof = Streams /\ \A s \in Streams : captured[s] <= Limit

\* The flag is on from the spawn to the last scan, the setting to restore is
\* known, and before the spawn there is no family.  The disposable state is
\* there from its making to its removal.
ScopeInv ==
    /\ pc \in {"prepare", "enter"} => flag = FlagAtStart
    /\ pc \notin {"prepare", "enter"} /\ result # "not entered" => wasOn = FlagAtStart
    /\ Entered => flag
    /\ result = "not entered" => pc \in {"dispose", "done"}
    /\ pc \in {"prepare", "enter", "spawn"} \/ result = "not entered" =>
         \A p \in Family : state[p] = "unborn"
    /\ \A p \in Family : p \notin baseline
    /\ pc \in {"dispose", "done"} /\ result # "not entered" => flag = FlagAtStart
    /\ Isolated /\ pc \notin {"prepare", "done"} => disposable = "made"
    /\ pc = "done" => disposable # "made"

\* The tree of processes: nobody is the child of an unborn process, there is
\* no cycle, and a descendant hangs below a process that has not exited, or
\* below the runner.
TreeInv ==
    /\ \A p, q \in Procs : parent[q] = p => state[p] # "unborn"
    /\ \A S \in SUBSET Procs : S # {} => \E p \in S : parent[p] \notin S
    /\ Entered => \A p \in Family : Present(p) =>
         parent[p] = Runner \/ (parent[p] \in Family /\ state[parent[p]] \in {"live", "doomed"})

\* While a scan runs, the descendants are in its reach: if any is left, one of
\* those seen when it began is still a direct child.
CleanupInv ==
    /\ ~strayed => \A p \in Family : state[p] # "unborn" => group[p] # Caller
    /\ pc = "scanning" => \A p \in Family : Present(p) =>
         \E r \in seen : r \in Family /\ Present(r) /\ parent[r] = Runner
    /\ cleanup = "ok" => pc \in {"leave", "dispose", "done"}
    /\ DescendantsContained

Inv == TypeOK /\ StreamsInv /\ ScopeInv /\ TreeInv /\ CleanupInv

-----------------------------------------------------------------------------
\* Types hold at the start and are kept by every step.
LEMMA TypeInit == Init => TypeOK
<1> USE ProcessAssumption DEF Init
<1>1. Init => TableTypeOK
  BY DEF TableTypeOK
<1>2. Init => StreamTypeOK
  BY DEF StreamTypeOK
<1>3. Init => CallerTypeOK /\ PlaceOK
  BY DEF CallerTypeOK, PlaceOK
<1> QED BY <1>1, <1>2, <1>3 DEF TypeOK

\* The steps that leave the process table, or the streams, as they are.
LEMMA KeepsTable ==
    Prepare \/ PrepareFails \/ Enter \/ EnterFails \/ SpawnFails \/ DrainStdout \/ DrainStderr
      \/ Feed \/ LoopFails \/ OverLimit \/ BeginScan \/ CleanupFails \/ Leave \/ Dispose
      \/ TimePasses \/ UNCHANGED vars
    => UNCHANGED table
  BY DEF Prepare, PrepareFails, Enter, EnterFails, SpawnFails, DrainStdout, DrainStderr, Drain, Feed,
         LoopFails, OverLimit, BeginScan, CleanupFails, Leave, Dispose, TimePasses, vars

LEMMA KeepsStreams ==
    \/ Prepare \/ PrepareFails \/ Enter \/ EnterFails \/ Spawn \/ SpawnFails \/ LoopFails
    \/ OverLimit \/ Poll \/ Terminate \/ Reap \/ Finish \/ BeginScan \/ EndScan \/ Collect
    \/ CleanupFails \/ Leave \/ Dispose \/ TimePasses \/ UNCHANGED vars
    \/ \E p, q \in Procs : Fork(p, q)
    \/ \E p \in Procs : LeaveGroup(p) \/ JoinCaller(p) \/ Die(p) \/ ParentReaps(p)
    \/ \E p \in Family, s \in Ends : ClosePipe(p, s)
    \/ \E u \in Others : OtherSpawns(u) \/ OtherReaps(u)
    => UNCHANGED streams
  BY DEF Prepare, PrepareFails, Enter, EnterFails, Spawn, SpawnFails, LoopFails, OverLimit, Poll,
         Terminate, Reap, Finish, BeginScan, EndScan, Collect, CleanupFails, Leave, Dispose, TimePasses, vars,
         Fork, LeaveGroup,
         JoinCaller, Die, ParentReaps, ClosePipe, OtherSpawns, OtherReaps

LEMMA TableTypeStep == TableTypeOK /\ PlaceOK /\ [Next]_vars => TableTypeOK'
<1> SUFFICES ASSUME TableTypeOK, [Next]_vars PROVE TableTypeOK'
  OBVIOUS
<1> USE ProcessAssumption DEF TableTypeOK, table
<1>1. CASE Environment
  <2>1. ASSUME NEW p \in Procs, NEW q \in Procs, Fork(p, q) PROVE TableTypeOK'
    BY <2>1 DEF Fork
  <2>2. ASSUME NEW p \in Procs, LeaveGroup(p) \/ JoinCaller(p) \/ ParentReaps(p) PROVE TableTypeOK'
    BY <2>2 DEF LeaveGroup, JoinCaller, ParentReaps
  <2>3. ASSUME NEW p \in Procs, Die(p) PROVE TableTypeOK'
    BY <2>3 DEF Die
  <2>4. ASSUME NEW p \in Family, NEW s \in Ends,
               (s \in Streams /\ Write(p, s)) \/ ClosePipe(p, s) \/ ReadInput(p)
        PROVE  TableTypeOK'
    BY <2>4 DEF Write, ClosePipe, ReadInput
  <2>5. ASSUME NEW u \in Others, OtherSpawns(u) \/ OtherReaps(u) PROVE TableTypeOK'
    BY <2>5 DEF OtherSpawns, OtherReaps
  <2> QED BY <1>1, <2>1, <2>2, <2>3, <2>4, <2>5 DEF Environment
<1>2. CASE UNCHANGED table
  BY <1>2
<1>3. CASE Spawn
  BY <1>3 DEF Spawn
<1>4. CASE Poll
  BY <1>4 DEF Poll
<1>5. CASE Reap
  BY <1>5 DEF Reap
<1>6. CASE Terminate
  BY <1>6 DEF Terminate, Kill
<1>7. CASE Finish
  BY <1>7 DEF Finish, Kill
<1>8. CASE EndScan
  BY <1>8 DEF EndScan, Kill
<1>9. CASE Collect
  BY <1>9 DEF Collect, Reaped
<1> QED BY <1>1, <1>2, <1>3, <1>4, <1>5, <1>6, <1>7, <1>8, <1>9, KeepsTable DEF Next, Step

LEMMA StreamTypeStep ==
    TypeOK /\ StreamsInv /\ [Next]_vars => StreamTypeOK'
<1> SUFFICES ASSUME TypeOK, StreamsInv, [Next]_vars PROVE StreamTypeOK'
  OBVIOUS
<1> USE ProcessAssumption DEF TypeOK, StreamTypeOK, StreamsInv, streams
<1>1. ASSUME NEW s \in Streams, Drain(s) PROVE StreamTypeOK'
  <2> DEFINE room == Limit + 1 - captured[s]
             there == written[s] - captured[s]
             count == IF there < room THEN there ELSE room
  <2>1. captured[s] \in 0..(Limit + 1) /\ written[s] \in Nat /\ captured[s] <= written[s]
    OBVIOUS
  <2>2. captured[s] + count \in 0..(Limit + 1)
    BY <2>1
  <2>3. captured' \in [Streams -> 0..(Limit + 1)]
    BY <1>1, <2>2 DEF Drain
  <2>4. eof' \subseteq Streams /\ UNCHANGED <<written, input>>
    BY <1>1 DEF Drain
  <2> QED BY <2>3, <2>4 DEF input
<1>2. CASE DrainStdout \/ DrainStderr
  BY <1>1, <1>2 DEF DrainStdout, DrainStderr
<1>3. ASSUME NEW p \in Family, NEW s \in Streams, Write(p, s) PROVE StreamTypeOK'
  BY <1>3 DEF Write, input
<1>4. CASE UNCHANGED streams
  BY <1>4 DEF input
<1>5. CASE Feed
  <2>1. UNCHANGED <<written, captured, eof, taken>> /\ feeding' \in BOOLEAN
    BY <1>5 DEF Feed
  <2>2. fed' = fed \/ fed' = (IF InputSize - fed < Capacity - (fed - taken)
                                THEN fed + (InputSize - fed) ELSE fed + (Capacity - (fed - taken)))
    BY <1>5 DEF Feed
  <2>3. fed' \in 0..InputSize /\ taken \in 0..fed' /\ fed' - taken <= Capacity
    BY <2>2
  <2> QED BY <2>1, <2>3
<1>6. ASSUME NEW p \in Family, ReadInput(p) PROVE StreamTypeOK'
  BY <1>6 DEF ReadInput
<1> QED BY <1>2, <1>3, <1>4, <1>5, <1>6, KeepsStreams DEF Next, Step, Environment

\* No process but the caller's thread changes the variables of the caller.
LEMMA MovesOnly ==
    ASSUME CallerTypeOK, Environment
    PROVE  /\ UNCHANGED <<scope, pc, status, late, seen, result, cleanup>>
           /\ strayed' \in BOOLEAN
<1> USE DEF CallerTypeOK
<1>1. ASSUME NEW p \in Procs, NEW q \in Procs, Fork(p, q)
      PROVE  UNCHANGED <<scope, pc, status, late, seen, result, cleanup, strayed>>
  BY <1>1 DEF Fork
<1>2. ASSUME NEW p \in Procs, LeaveGroup(p) \/ Die(p) \/ ParentReaps(p)
      PROVE  UNCHANGED <<scope, pc, status, late, seen, result, cleanup, strayed>>
  BY <1>2 DEF LeaveGroup, Die, ParentReaps
<1>3. ASSUME NEW p \in Procs, JoinCaller(p)
      PROVE  UNCHANGED <<scope, pc, status, late, seen, result, cleanup>> /\ strayed' \in BOOLEAN
  BY <1>3 DEF JoinCaller
<1>4. ASSUME NEW p \in Family, NEW s \in Ends,
             (s \in Streams /\ Write(p, s)) \/ ClosePipe(p, s) \/ ReadInput(p)
      PROVE  UNCHANGED <<scope, pc, status, late, seen, result, cleanup, strayed>>
  BY <1>4 DEF Write, ClosePipe, ReadInput, table
<1>5. ASSUME NEW u \in Others, OtherSpawns(u) \/ OtherReaps(u)
      PROVE  UNCHANGED <<scope, pc, status, late, seen, result, cleanup, strayed>>
  BY <1>5 DEF OtherSpawns, OtherReaps
<1> QED BY <1>1, <1>2, <1>3, <1>4, <1>5 DEF Environment

LEMMA CallerTypeStep == CallerTypeOK /\ [Next]_vars => CallerTypeOK'
<1> SUFFICES ASSUME CallerTypeOK, [Next]_vars PROVE CallerTypeOK'
  OBVIOUS
<1> USE ProcessAssumption DEF CallerTypeOK, scope, table
<1>1. CASE Environment
  BY <1>1, MovesOnly
<1>2. CASE TimePasses \/ UNCHANGED vars
  BY <1>2 DEF TimePasses, vars
<1>3. CASE Prepare \/ PrepareFails \/ Dispose
  BY <1>3 DEF Prepare, PrepareFails, Dispose
<1>4. CASE EnterFails \/ Spawn \/ SpawnFails
  BY <1>4 DEF EnterFails, Spawn, SpawnFails
<1>10. CASE Enter
  BY <1>10 DEF Enter, DirectChildren
<1>5. CASE DrainStdout \/ DrainStderr \/ Feed \/ LoopFails \/ OverLimit
  <2>1. UNCHANGED <<scope, strayed, status, late, seen, result, cleanup>>
    BY <1>5, KeepsTable DEF DrainStdout, DrainStderr, Drain, Feed, LoopFails, OverLimit
  <2> QED BY <2>1
<1>6. CASE Poll
  BY <1>6 DEF Poll
<1>7. CASE Terminate \/ Reap \/ Finish
  BY <1>7 DEF Terminate, Reap, Finish
<1>8. CASE BeginScan \/ EndScan
  <2>1. UNCHANGED <<scope, strayed, status, late, result>> /\ cleanup' \in {"ok", cleanup}
    BY <1>8 DEF BeginScan, EndScan
  <2>2. seen' \subseteq Procs
    BY <1>8 DEF BeginScan, EndScan, DirectChildren, Adoptable
  <2> QED BY <2>1, <2>2
<1>9. CASE Collect \/ CleanupFails \/ Leave
  <2>1. /\ UNCHANGED <<wasOn, baseline, disposable, strayed, status, late, result>>
        /\ flag' \in {flag, wasOn} /\ cleanup' \in {"error", cleanup} /\ seen' \in {{}, seen}
    BY <1>9 DEF Collect, CleanupFails, Leave
  <2> QED BY <2>1
<1> QED BY <1>1, <1>2, <1>3, <1>4, <1>5, <1>6, <1>7, <1>8, <1>9, <1>10 DEF Next, Step

LEMMA PlaceStep == CallerTypeOK /\ PlaceOK /\ [Next]_vars => PlaceOK'
<1> SUFFICES ASSUME CallerTypeOK, PlaceOK, [Next]_vars PROVE PlaceOK'
  OBVIOUS
<1>1. CASE Environment
  BY <1>1, MovesOnly DEF PlaceOK
<1>2. CASE TimePasses \/ UNCHANGED vars
  BY <1>2 DEF TimePasses, vars, PlaceOK
<1>3. CASE Step
  <2>1. Poll => pc' \in {"finish", "terminate", "drain stdout"}
    BY DEF Poll
  <2>2. EndScan \/ Collect => pc' \in {"leave", "collect", "scan"}
    BY DEF EndScan, Collect
  <2> QED BY <1>3, <2>1, <2>2 DEF PlaceOK, Step, Prepare, PrepareFails, Enter, EnterFails, Spawn, SpawnFails,
               DrainStdout, DrainStderr, Feed, LoopFails, OverLimit, Terminate, Reap, Finish, BeginScan,
               CleanupFails, Leave, Dispose, Goto, Return
<1> QED BY <1>1, <1>2, <1>3 DEF Next

LEMMA TypeStep == TypeOK /\ StreamsInv /\ [Next]_vars => TypeOK'
  BY TableTypeStep, StreamTypeStep, CallerTypeStep, PlaceStep DEF TypeOK

-----------------------------------------------------------------------------
\* Complete output: the streams and their ends.
LEMMA StreamsStep == TypeOK /\ StreamsInv /\ [Next]_vars => StreamsInv'
<1> SUFFICES ASSUME TypeOK, StreamsInv, [Next]_vars PROVE StreamsInv'
  OBVIOUS
<1>t. /\ written \in [Streams -> Nat]
      /\ captured \in [Streams -> Int]
      /\ \A s \in Streams : captured[s] \in 0..(Limit + 1)
      /\ eof \subseteq Streams
      /\ holds \in [Procs -> SUBSET Ends]
  BY ProcessAssumption DEF TypeOK, StreamTypeOK, TableTypeOK
<1> USE <1>t DEF StreamsInv
<1>1. ASSUME UNCHANGED <<streams, pc, result>>, \A q \in Procs : holds'[q] \subseteq holds[q]
      PROVE  StreamsInv'
  BY <1>1 DEF streams
<1>2. CASE Environment
  <2>1. ASSUME NEW p \in Procs, NEW q \in Procs, Fork(p, q) PROVE StreamsInv'
    <3>1. UNCHANGED <<written, captured, eof, pc, result>> /\ holds' = [holds EXCEPT ![q] = holds[p]]
      BY <2>1 DEF Fork, streams
    <3> QED BY <3>1
  <2>2. ASSUME NEW p \in Procs, LeaveGroup(p) \/ JoinCaller(p) \/ ParentReaps(p) PROVE StreamsInv'
    BY <1>1, <2>2 DEF LeaveGroup, JoinCaller, ParentReaps
  <2>3. ASSUME NEW p \in Procs, Die(p) PROVE StreamsInv'
    BY <1>1, <2>3 DEF Die
  <2>4. ASSUME NEW p \in Family, NEW s \in Streams, Write(p, s) PROVE StreamsInv'
    <3>1. s \in holds[p] /\ UNCHANGED <<captured, eof, pc, result, holds>>
          /\ written' = [written EXCEPT ![s] = @ + 1]
      BY <2>4 DEF Write, table
    <3>2. s \notin eof
      BY <3>1
    <3>3. \A r \in Streams : written'[r] \in Nat /\ written'[r] >= written[r]
      BY <3>1
    <3>4. \A r \in eof : written'[r] = written[r]
      BY <3>1, <3>2
    <3> QED BY <3>1, <3>2, <3>3, <3>4
  <2>5. ASSUME NEW p \in Family, NEW s \in Ends, ClosePipe(p, s) PROVE StreamsInv'
    BY <1>1, <2>5 DEF ClosePipe
  <2>7. ASSUME NEW p \in Family, ReadInput(p) PROVE StreamsInv'
    BY <2>7 DEF ReadInput, table
  <2>6. ASSUME NEW u \in Others, OtherSpawns(u) \/ OtherReaps(u) PROVE StreamsInv'
    BY <1>1, <2>6 DEF OtherSpawns, OtherReaps
  <2> QED BY <1>2, <2>1, <2>2, <2>3, <2>4, <2>5, <2>6, <2>7 DEF Environment
<1>3. CASE TimePasses \/ UNCHANGED vars
  BY <1>1, <1>3 DEF TimePasses, vars, table
<1>4. CASE Prepare \/ PrepareFails \/ Enter \/ EnterFails \/ SpawnFails \/ Dispose
  BY <1>4 DEF Prepare, PrepareFails, Enter, EnterFails, SpawnFails, Dispose, Goto, Return, table, streams
<1>5. CASE Spawn
  BY <1>5 DEF Spawn, Goto, streams
<1>6. ASSUME NEW s \in Streams, Drain(s), pc \in {"drain stdout", "drain stderr"},
             pc' \in {"drain stderr", "feed", "poll"}
      PROVE  StreamsInv'
  <2> DEFINE room == Limit + 1 - captured[s]
             there == written[s] - captured[s]
             count == IF there < room THEN there ELSE room
  <2>1. UNCHANGED <<written, holds, result>>
    BY <1>6 DEF Drain, table
  <2>2. captured' = [captured EXCEPT ![s] = IF s \in eof THEN @ ELSE @ + count]
    BY <1>6 DEF Drain
  <2>3. eof' = eof \/ (eof' = eof \cup {s} /\ room > there /\ \A p \in Procs : s \notin holds[p])
    BY <1>6 DEF Drain
  <2>4. captured'[s] = IF s \in eof THEN captured[s] ELSE captured[s] + count
    BY <2>2
  <2>5. captured[s] \in Int /\ written[s] \in Int /\ Limit \in Int /\ captured[s] <= written[s]
    BY ProcessAssumption
  <2>6. captured'[s] <= written[s] /\ (room > there /\ s \notin eof => captured'[s] = written[s])
    BY <2>4, <2>5
  <2> HIDE DEF room, there, count
  <2>7. s \in eof => captured'[s] = written[s]
    BY <2>4
  <2>8. \A t \in Streams : t # s => captured'[t] = captured[t]
    BY <2>2
  <2>9. \A t \in Streams : captured'[t] <= written[t]
    BY <2>6, <2>8
  <2>10. \A t \in eof' : captured'[t] = written[t] /\ \A p \in Procs : t \notin holds[p]
    BY <2>3, <2>6, <2>7, <2>8
  <2> QED BY <1>6, <2>1, <2>9, <2>10
<1>7. CASE DrainStdout \/ DrainStderr
  BY <1>6, <1>7 DEF DrainStdout, DrainStderr, Goto
<1>8. CASE Feed \/ LoopFails \/ OverLimit
  BY <1>8 DEF Feed, LoopFails, OverLimit, Goto, table, streams
<1>9. CASE Poll
  <2>1. \A s \in Streams : captured[s] <= Limit
    <3>1. ~Exceeded
      BY <1>9 DEF Poll
    <3>2. \A s \in Streams : captured[s] \in Int /\ Limit \in Int
      BY ProcessAssumption
    <3> QED BY <3>1, <3>2 DEF Exceeded
  <2>2. UNCHANGED <<written, captured, eof, holds, result>> /\ pc = "poll"
    BY <1>9 DEF Poll, streams
  <2>3. pc' \in {"finish", "terminate", "drain stdout"} /\ (pc' = "finish" => eof = Streams)
    BY <1>9 DEF Poll
  <2> QED BY <2>1, <2>2, <2>3
<1>10. CASE Terminate \/ Reap \/ Finish
  BY <1>10 DEF Terminate, Reap, Finish, Goto, streams
<1>11. CASE BeginScan \/ EndScan
  BY <1>11 DEF BeginScan, EndScan, Goto, streams, table
<1>12. CASE Collect \/ CleanupFails \/ Leave
  BY <1>12 DEF Collect, CleanupFails, Leave, Goto, Return, streams, table
<1> QED BY <1>2, <1>3, <1>4, <1>5, <1>7, <1>8, <1>9, <1>10, <1>11, <1>12 DEF Next, Step

-----------------------------------------------------------------------------
\* Most steps leave every parent as it is and only move processes on: doomed
\* by a signal, or collected when they are zombies.
Decay(p) ==
    \/ state'[p] = state[p]
    \/ state[p] = "live" /\ state'[p] = "doomed"
    \/ state[p] = "zombie" /\ state'[p] = "gone"

OnlyDecay == UNCHANGED parent /\ \A p \in Procs : Decay(p)

LEMMA EnvironmentDecays ==
    ASSUME TableTypeOK,
           \/ \E p \in Procs : LeaveGroup(p) \/ JoinCaller(p) \/ ParentReaps(p)
           \/ \E p \in Family, s \in Streams : Write(p, s)
           \/ \E p \in Family, s \in Ends : ClosePipe(p, s)
           \/ \E p \in Family : ReadInput(p)
           \/ \E u \in Others : OtherReaps(u)
           \/ TimePasses \/ UNCHANGED vars
    PROVE  OnlyDecay
<1> USE DEF OnlyDecay, Decay, TableTypeOK
<1>1. ASSUME NEW p \in Procs, LeaveGroup(p) \/ JoinCaller(p) \/ ParentReaps(p) PROVE OnlyDecay
  BY <1>1 DEF LeaveGroup, JoinCaller, ParentReaps
<1>2. ASSUME NEW p \in Family, NEW s \in Ends,
             (s \in Streams /\ Write(p, s)) \/ ClosePipe(p, s) \/ ReadInput(p)
      PROVE  OnlyDecay
  BY <1>2 DEF Write, ClosePipe, ReadInput, table
<1>3. ASSUME NEW u \in Others, OtherReaps(u) PROVE OnlyDecay
  BY <1>3 DEF OtherReaps
<1>4. CASE TimePasses \/ UNCHANGED vars
  BY <1>4 DEF TimePasses, vars, table
<1> QED BY <1>1, <1>2, <1>3, <1>4

LEMMA CallerDecays ==
    ASSUME TableTypeOK, ProcessAssumption, Step, ~Spawn
    PROVE  OnlyDecay
<1> USE DEF OnlyDecay, Decay, TableTypeOK
<1>1. CASE UNCHANGED table
  BY <1>1 DEF table
<1>2. CASE Poll \/ Reap
  BY <1>2, ProcessAssumption DEF Poll, Reap
<1>3. CASE Terminate \/ Finish \/ EndScan
  BY <1>3 DEF Terminate, Finish, EndScan, Kill
<1>4. CASE Collect
  BY <1>4 DEF Collect, Reaped
<1> QED BY <1>1, <1>2, <1>3, <1>4, KeepsTable DEF Step

-----------------------------------------------------------------------------
\* The scope: flag, saved setting and baseline, and no family before a spawn.
LEMMA ScopeStep == TypeOK /\ ScopeInv /\ [Next]_vars => ScopeInv'
<1> SUFFICES ASSUME TypeOK, ScopeInv, [Next]_vars PROVE ScopeInv'
  OBVIOUS
<1>t. TableTypeOK /\ CallerTypeOK /\ pc \in CallerStates
  BY DEF TypeOK, PlaceOK, CallerStates
<1> USE <1>t, ProcessAssumption DEF ScopeInv, Entered
<1>1. ASSUME UNCHANGED <<scope, pc, result>>,
             \A p \in Family : state[p] = "unborn" =>
                 state'[p] = "unborn" \/ (pc \notin {"prepare", "enter", "spawn"} /\ result # "not entered")
      PROVE  ScopeInv'
  BY <1>1 DEF scope
<1>2. CASE Environment
  <2>1. UNCHANGED <<scope, pc, result>>
    BY <1>2, MovesOnly
  <2>2. ASSUME NEW p \in Procs, NEW q \in Procs, Fork(p, q) PROVE ScopeInv'
    BY <1>1, <2>1, <2>2 DEF Fork, TableTypeOK
  <2>3. ASSUME NEW p \in Procs, Die(p) PROVE ScopeInv'
    BY <1>1, <2>1, <2>3 DEF Die, TableTypeOK
  <2>4. ASSUME NEW u \in Others, OtherSpawns(u) PROVE ScopeInv'
    BY <1>1, <2>1, <2>4 DEF OtherSpawns, TableTypeOK
  <2>5. ASSUME OnlyDecay PROVE ScopeInv'
    BY <1>1, <2>1, <2>5 DEF OnlyDecay, Decay
  <2> QED BY <1>2, <2>2, <2>3, <2>4, <2>5, EnvironmentDecays DEF Environment
<1>3. CASE TimePasses \/ UNCHANGED vars
  BY <1>1, <1>3 DEF TimePasses, vars, table, scope
<1>4. CASE Enter
  <2>1. \A p \in Family : p \notin DirectChildren
    BY <1>4 DEF Enter, Goto, DirectChildren, Present
  <2> QED BY <1>4, <2>1 DEF Enter, Goto, table, CallerTypeOK
<1>13. CASE Prepare \/ PrepareFails \/ Dispose
  BY <1>13 DEF Prepare, PrepareFails, Dispose, Goto, table, CallerTypeOK
<1>5. CASE EnterFails
  BY <1>5 DEF EnterFails, Goto, Return, table, CallerTypeOK
<1>6. CASE Spawn \/ SpawnFails
  BY <1>6 DEF Spawn, SpawnFails, Goto, scope
<1>7. CASE DrainStdout \/ DrainStderr \/ Feed \/ LoopFails \/ OverLimit
  BY <1>7 DEF DrainStdout, DrainStderr, Drain, Feed, LoopFails, OverLimit, Goto, scope
<1>8. CASE Poll
  BY <1>8 DEF Poll, scope
<1>9. CASE Terminate \/ Reap \/ Finish
  BY <1>9 DEF Terminate, Reap, Finish, Goto, scope
<1>10. CASE BeginScan \/ EndScan
  BY <1>10 DEF BeginScan, EndScan, Goto, scope
<1>11. CASE Collect \/ CleanupFails
  BY <1>11 DEF Collect, CleanupFails, scope
<1>12. CASE Leave
  BY <1>12 DEF Leave, Goto, Return, table
<1> QED BY <1>2, <1>3, <1>4, <1>5, <1>6, <1>7, <1>8, <1>9, <1>10, <1>11, <1>12, <1>13 DEF Next, Step

-----------------------------------------------------------------------------
\* The tree: no cycles, and every descendant below a live process or the runner.
LEMMA TreeStep == TypeOK /\ ScopeInv /\ TreeInv /\ [Next]_vars => TreeInv'
<1> SUFFICES ASSUME TypeOK, ScopeInv, TreeInv, [Next]_vars PROVE TreeInv'
  OBVIOUS
<1>t. TableTypeOK /\ CallerTypeOK
  BY DEF TypeOK
<1> USE <1>t, ProcessAssumption DEF TableTypeOK
<1>1. ASSUME OnlyDecay, Entered' => Entered \/ \A p \in Family : state[p] = "unborn"
      PROVE  TreeInv'
  <2>1. \A p, q \in Procs : parent'[q] = p => state'[p] # "unborn"
    BY <1>1 DEF TreeInv, OnlyDecay, Decay
  <2>2. \A S \in SUBSET Procs : S # {} => \E p \in S : parent'[p] \notin S
    BY <1>1 DEF TreeInv, OnlyDecay
  <2>3. ASSUME Entered', NEW p \in Family, Present(p)'
        PROVE  parent'[p] = Runner \/ (parent'[p] \in Family /\ state'[parent'[p]] \in {"live", "doomed"})
    <3>1. Present(p) /\ Entered
      BY <1>1, <2>3 DEF OnlyDecay, Decay, Present
    <3>2. parent[p] = Runner \/ (parent[p] \in Family /\ state[parent[p]] \in {"live", "doomed"})
      BY <3>1 DEF TreeInv
    <3> QED BY <1>1, <3>2 DEF OnlyDecay, Decay
  <2> QED BY <2>1, <2>2, <2>3 DEF TreeInv
<1>2. CASE Environment
  <2>1. Entered' <=> Entered
    BY <1>2, MovesOnly DEF Entered
  <2>2. ASSUME NEW p \in Procs, NEW q \in Procs, Fork(p, q) PROVE TreeInv'
    <3>1. /\ state[p] = "live" /\ state[q] = "unborn" /\ p # q
          /\ p \in Family <=> q \in Family
          /\ state' = [state EXCEPT ![q] = "live"]
          /\ parent' = [parent EXCEPT ![q] = p]
      BY <2>2 DEF Fork
    <3>2. \A r \in Procs : parent[r] # q
      BY <3>1 DEF TreeInv
    <3>3. \A r, s \in Procs : parent'[s] = r => state'[r] # "unborn"
      BY <3>1 DEF TreeInv
    <3>4. ASSUME NEW S \in SUBSET Procs, S # {} PROVE \E r \in S : parent'[r] \notin S
      <4>1. CASE S \ {q} = {}
        BY <3>1, <3>4, <4>1
      <4>2. CASE S \ {q} # {}
        <5>1. PICK r \in S \ {q} : parent[r] \notin S \ {q}
          BY <4>2 DEF TreeInv
        <5> QED BY <3>1, <3>2, <5>1
      <4> QED BY <4>1, <4>2
    <3>5. ASSUME Entered', NEW r \in Family, Present(r)'
          PROVE  parent'[r] = Runner \/ (parent'[r] \in Family /\ state'[parent'[r]] \in {"live", "doomed"})
      <4>1. CASE r = q
        BY <3>1, <4>1
      <4>2. CASE r # q
        BY <2>1, <3>1, <3>5, <4>2 DEF TreeInv, Present
      <4> QED BY <4>1, <4>2
    <3> QED BY <3>3, <3>4, <3>5 DEF TreeInv
  <2>3. ASSUME NEW u \in Others, OtherSpawns(u) PROVE TreeInv'
    <3>1. /\ state[u] = "unborn"
          /\ state' = [state EXCEPT ![u] = "live"]
          /\ parent' = [parent EXCEPT ![u] = Runner]
      BY <2>3 DEF OtherSpawns
    <3>2. \A r, s \in Procs : parent'[s] = r => state'[r] # "unborn"
      BY <3>1 DEF TreeInv
    <3>3. ASSUME NEW S \in SUBSET Procs, S # {} PROVE \E r \in S : parent'[r] \notin S
      BY <3>1, <3>3 DEF TreeInv
    <3>4. ASSUME Entered', NEW r \in Family, Present(r)'
          PROVE  parent'[r] = Runner \/ (parent'[r] \in Family /\ state'[parent'[r]] \in {"live", "doomed"})
      BY <2>1, <3>1, <3>4 DEF TreeInv, Present
    <3> QED BY <3>2, <3>3, <3>4 DEF TreeInv
  <2>4. ASSUME NEW p \in Procs, Die(p) PROVE TreeInv'
    <3> DEFINE heir == IF flag THEN Runner ELSE Init1
    <3>1. /\ parent' = [q \in Procs |-> IF parent[q] = p THEN heir ELSE parent[q]]
          /\ heir \notin Procs /\ (Entered => heir = Runner)
      BY <2>4 DEF Die, ScopeInv
    <3>2. /\ state[p] \in {"live", "doomed"}
          /\ \A q \in Procs : state[q] # "unborn" <=> state'[q] # "unborn"
          /\ \A q \in Procs : Present(q)' => Present(q)
          /\ \A q \in Procs : q # p /\ state[q] \in {"live", "doomed"} => state'[q] = state[q]
      BY <2>4 DEF Die, Present
    <3> HIDE DEF heir
    <3>3. \A r, s \in Procs : parent'[s] = r => state'[r] # "unborn"
      BY <3>1, <3>2 DEF TreeInv
    <3>4. ASSUME NEW S \in SUBSET Procs, S # {} PROVE \E r \in S : parent'[r] \notin S
      <4>1. PICK r \in S : parent[r] \notin S
        BY <3>4 DEF TreeInv
      <4>2. parent'[r] = parent[r] \/ parent'[r] = heir
        BY <3>1
      <4> QED BY <3>1, <4>1, <4>2
    <3>5. ASSUME Entered', NEW r \in Family, Present(r)'
          PROVE  parent'[r] = Runner \/ (parent'[r] \in Family /\ state'[parent'[r]] \in {"live", "doomed"})
      <4>1. parent[r] = Runner \/ (parent[r] \in Family /\ state[parent[r]] \in {"live", "doomed"})
        BY <2>1, <3>2, <3>5 DEF TreeInv
      <4>2. CASE parent[r] = p
        BY <2>1, <3>1, <3>5, <4>2
      <4>3. CASE parent[r] # p
        BY <3>1, <3>2, <4>1, <4>3
      <4> QED BY <4>2, <4>3
    <3> QED BY <3>3, <3>4, <3>5 DEF TreeInv
  <2> QED BY <1>1, <1>2, <2>1, <2>2, <2>3, <2>4, EnvironmentDecays DEF Environment
<1>3. CASE TimePasses \/ UNCHANGED vars
  <2>1. UNCHANGED pc
    BY <1>3 DEF TimePasses, vars
  <2> QED BY <1>1, <1>3, <2>1, EnvironmentDecays DEF Entered
<1>4. CASE Spawn
  <2>1. /\ state' = [state EXCEPT ![Child] = "live"]
        /\ parent' = [parent EXCEPT ![Child] = Runner]
        /\ \A p \in Family : state[p] = "unborn"
    BY <1>4 DEF Spawn, Goto, ScopeInv
  <2>2. \A r, s \in Procs : parent'[s] = r => state'[r] # "unborn"
    BY <2>1 DEF TreeInv
  <2>3. ASSUME NEW S \in SUBSET Procs, S # {} PROVE \E r \in S : parent'[r] \notin S
    BY <2>1, <2>3 DEF TreeInv
  <2>4. \A r \in Family : Present(r)' => parent'[r] = Runner
    BY <2>1 DEF Present
  <2> QED BY <2>2, <2>3, <2>4 DEF TreeInv
<1>5. CASE Step /\ ~Spawn
  <2>1. OnlyDecay
    BY <1>5, CallerDecays
  <2>2. Entered' => Entered \/ Enter
    BY <1>5 DEF Step, Entered, Prepare, PrepareFails, EnterFails, DrainStdout, DrainStderr, Feed, LoopFails,
                OverLimit, Poll, SpawnFails, Terminate, Reap, Finish, BeginScan, EndScan, Collect,
                CleanupFails, Leave, Dispose, Goto, Return
  <2>3. Enter => \A p \in Family : state[p] = "unborn"
    BY DEF Enter, Goto, ScopeInv
  <2> QED BY <1>1, <2>1, <2>2, <2>3
<1> QED BY <1>2, <1>3, <1>4, <1>5 DEF Next

-----------------------------------------------------------------------------
\* If any descendant is left, one of them is a direct child of the runner.
LEMMA SomeDirectChild ==
    ASSUME TableTypeOK, ProcessAssumption, TreeInv, Entered, NEW p \in Family, Present(p)
    PROVE  \E r \in Family : Present(r) /\ parent[r] = Runner
<1> DEFINE Left == {q \in Family : Present(q)}
<1>1. Left \in SUBSET Procs /\ Left # {}
  OBVIOUS
<1>2. PICK r \in Left : parent[r] \notin Left
  BY <1>1 DEF TreeInv
<1>3. parent[r] = Runner \/ (parent[r] \in Family /\ state[parent[r]] \in {"live", "doomed"})
  BY <1>2 DEF TreeInv
<1> QED BY <1>2, <1>3 DEF Present

\* No step but Fork and Spawn adds a descendant, and Fork needs one.
LEMMA FamilyGrowth ==
    ASSUME TableTypeOK, ProcessAssumption, [Next]_vars, ~Spawn, NEW p \in Family, Present(p)'
    PROVE  \E q \in Family : Present(q)
<1> USE DEF TableTypeOK
<1>1. CASE Present(p)
  BY <1>1
<1>2. CASE ~Present(p)
  <2>1. ~OnlyDecay
    BY <1>2 DEF OnlyDecay, Decay, Present
  <2>2. ASSUME NEW q \in Procs, NEW r \in Procs, Fork(q, r) PROVE \E s \in Family : Present(s)
    BY <1>2, <2>2 DEF Fork, Present
  <2>3. ASSUME NEW q \in Procs, Die(q) PROVE FALSE
    BY <1>2, <2>3 DEF Die, Present
  <2>4. ASSUME NEW u \in Others, OtherSpawns(u) PROVE FALSE
    BY <1>2, <2>4 DEF OtherSpawns, Present
  <2> QED BY <2>1, <2>2, <2>3, <2>4, EnvironmentDecays, CallerDecays DEF Next, Environment
<1> QED BY <1>1, <1>2

LEMMA CleanupStep == TypeOK /\ ScopeInv /\ TreeInv /\ CleanupInv /\ [Next]_vars => CleanupInv'
<1> SUFFICES ASSUME TypeOK, ScopeInv, TreeInv, CleanupInv, [Next]_vars PROVE CleanupInv'
  OBVIOUS
<1>t. TableTypeOK /\ CallerTypeOK /\ PlaceOK
  BY DEF TypeOK
<1> USE <1>t, ProcessAssumption DEF TableTypeOK
<1>1. ASSUME ~strayed', NEW p \in Family, state'[p] # "unborn" PROVE group'[p] # Caller
  <2>1. CASE OnlyDecay /\ UNCHANGED <<group, strayed>>
    BY <1>1, <2>1 DEF OnlyDecay, Decay, CleanupInv
  <2>2. CASE Environment
    <3>1. ASSUME NEW q \in Procs, NEW r \in Procs, Fork(q, r) PROVE group'[p] # Caller
      BY <1>1, <3>1 DEF Fork, CleanupInv
    <3>2. ASSUME NEW q \in Procs, LeaveGroup(q) PROVE group'[p] # Caller
      BY <1>1, <3>2 DEF LeaveGroup, CleanupInv
    <3>3. ASSUME NEW q \in Procs, JoinCaller(q) PROVE group'[p] # Caller
      BY <1>1, <3>3 DEF JoinCaller, CleanupInv
    <3>4. ASSUME NEW q \in Procs, Die(q) PROVE group'[p] # Caller
      BY <1>1, <3>4 DEF Die, CleanupInv
    <3>5. ASSUME NEW q \in Procs, ParentReaps(q) PROVE group'[p] # Caller
      BY <1>1, <3>5 DEF ParentReaps, CleanupInv
    <3>6. ASSUME NEW q \in Family, NEW s \in Ends,
                 (s \in Streams /\ Write(q, s)) \/ ClosePipe(q, s) \/ ReadInput(q)
          PROVE  group'[p] # Caller
      BY <1>1, <3>6 DEF Write, ClosePipe, ReadInput, table, CleanupInv
    <3>7. ASSUME NEW u \in Others, OtherSpawns(u) \/ OtherReaps(u) PROVE group'[p] # Caller
      BY <1>1, <3>7 DEF OtherSpawns, OtherReaps, CleanupInv
    <3> QED BY <2>2, <3>1, <3>2, <3>3, <3>4, <3>5, <3>6, <3>7 DEF Environment
  <2>3. CASE Spawn
    BY <1>1, <2>3 DEF Spawn, CleanupInv
  <2>4. CASE Step /\ ~Spawn
    <3>1. UNCHANGED <<group, strayed>>
      BY <2>4, KeepsTable DEF Step, Poll, Terminate, Reap, Finish, EndScan, Collect, table
    <3> QED BY <2>1, <2>4, <3>1, CallerDecays
  <2>5. CASE TimePasses \/ UNCHANGED vars
    BY <2>1, <2>5, EnvironmentDecays DEF TimePasses, vars, table
  <2> QED BY <2>2, <2>3, <2>4, <2>5 DEF Next
<1>2. ASSUME pc' = "scanning", NEW p \in Family, Present(p)'
      PROVE  \E r \in seen' : r \in Family /\ Present(r)' /\ parent'[r] = Runner
  <2>1. BeginScan \/ (pc = "scanning" /\ (Environment \/ TimePasses \/ UNCHANGED vars))
    <3>1. Poll => pc' \in {"finish", "terminate", "drain stdout"}
      BY DEF Poll
    <3>2. EndScan \/ Collect => pc' \in {"leave", "collect", "scan"}
      BY DEF EndScan, Collect
    <3>3. CASE Step /\ ~BeginScan
      BY <1>2, <3>1, <3>2, <3>3 DEF Step, Prepare, PrepareFails, Enter, EnterFails, Spawn, SpawnFails,
                DrainStdout, DrainStderr, Feed, LoopFails, OverLimit, Terminate, Reap, Finish, CleanupFails,
                Leave, Dispose, Goto, Return
    <3>4. CASE Environment \/ TimePasses \/ UNCHANGED vars
      BY <1>2, <3>4, MovesOnly DEF TimePasses, vars
    <3> QED BY <3>3, <3>4 DEF Next
  <2>2. CASE BeginScan
    <3>1. UNCHANGED <<state, parent>> /\ seen' = DirectChildren /\ pc = "scan"
      BY <2>2 DEF BeginScan, Goto, table
    <3>2. Present(p) /\ Entered
      BY <1>2, <3>1 DEF Present, Entered
    <3>3. PICK r \in Family : Present(r) /\ parent[r] = Runner
      BY <3>2, SomeDirectChild
    <3> QED BY <3>1, <3>3 DEF DirectChildren, Present
  <2>3. CASE pc = "scanning" /\ (Environment \/ TimePasses \/ UNCHANGED vars)
    <3>1. ~Spawn
      BY <2>3 DEF Spawn, Goto
    <3>2. PICK q \in Family : Present(q)
      BY <1>2, <3>1, FamilyGrowth
    <3>3. PICK r \in seen : r \in Family /\ Present(r) /\ parent[r] = Runner
      BY <2>3, <3>2 DEF CleanupInv
    <3>4. seen' = seen /\ flag
      BY <2>3, MovesOnly DEF TimePasses, vars, ScopeInv, Entered
    <3>5. Present(r)' /\ parent'[r] = Runner
      <4>1. CASE UNCHANGED <<state, parent>>
        BY <3>3, <4>1 DEF Present
      <4>2. ASSUME NEW x \in Procs, NEW y \in Procs, Fork(x, y) PROVE Present(r)' /\ parent'[r] = Runner
        BY <3>3, <4>2 DEF Fork, Present
      <4>3. ASSUME NEW x \in Procs, Die(x) PROVE Present(r)' /\ parent'[r] = Runner
        BY <3>3, <3>4, <4>3 DEF Die, Present
      <4>4. ASSUME NEW x \in Procs, ParentReaps(x) PROVE Present(r)' /\ parent'[r] = Runner
        BY <3>3, <4>4 DEF ParentReaps, Present
      <4>5. ASSUME NEW u \in Others, OtherSpawns(u) \/ OtherReaps(u) PROVE Present(r)' /\ parent'[r] = Runner
        BY <3>3, <4>5 DEF OtherSpawns, OtherReaps, Present
      <4>6. ASSUME NEW x \in Procs, LeaveGroup(x) \/ JoinCaller(x) PROVE UNCHANGED <<state, parent>>
        BY <4>6 DEF LeaveGroup, JoinCaller
      <4>7. ASSUME NEW x \in Family, NEW s \in Ends,
                   (s \in Streams /\ Write(x, s)) \/ ClosePipe(x, s) \/ ReadInput(x)
            PROVE  UNCHANGED <<state, parent>>
        BY <4>7 DEF Write, ClosePipe, ReadInput, table
      <4>8. TimePasses \/ UNCHANGED vars => UNCHANGED <<state, parent>>
        BY DEF TimePasses, vars, table
      <4> QED BY <2>3, <4>1, <4>2, <4>3, <4>4, <4>5, <4>6, <4>7, <4>8 DEF Environment
    <3> QED BY <3>3, <3>4, <3>5
  <2> QED BY <2>1, <2>2, <2>3
<1>3. ASSUME cleanup' = "ok"
      PROVE  pc' \in {"leave", "dispose", "done"} /\ (~strayed' => \A p \in Family : ~Present(p)')
  <2>1. CASE cleanup = "ok"
    <3>1. pc \in {"leave", "dispose", "done"}
      BY <2>1 DEF CleanupInv
    <3>2. Leave \/ Dispose \/ Environment \/ UNCHANGED <<table, pc>>
      BY <3>1 DEF Next, Step, Prepare, PrepareFails, Enter, EnterFails, Spawn, SpawnFails, DrainStdout,
                DrainStderr, Feed, LoopFails, OverLimit, Poll, Terminate, Reap, Finish, BeginScan, EndScan, Collect,
                CleanupFails, Goto, TimePasses, vars
    <3>3. pc' \in {"leave", "dispose", "done"}
      BY <3>1, <3>2, MovesOnly DEF Leave, Dispose, Goto, Return
    <3>4. ~Spawn
      BY <3>1 DEF Spawn, Goto
    <3>5. ~strayed' => ~strayed
      <4>1. ASSUME NEW x \in Procs, JoinCaller(x) PROVE ~strayed' => ~strayed
        BY <4>1 DEF JoinCaller
      <4>2. Leave \/ Dispose \/ UNCHANGED <<table, pc>> => strayed' = strayed
        BY DEF Leave, Dispose, table
      <4>3. ASSUME NEW x \in Procs, NEW y \in Procs, Fork(x, y) PROVE strayed' = strayed
        BY <4>3 DEF Fork
      <4>4. ASSUME NEW x \in Procs, LeaveGroup(x) \/ Die(x) \/ ParentReaps(x) PROVE strayed' = strayed
        BY <4>4 DEF LeaveGroup, Die, ParentReaps
      <4>5. ASSUME NEW x \in Family, NEW s \in Ends,
                   (s \in Streams /\ Write(x, s)) \/ ClosePipe(x, s) \/ ReadInput(x)
            PROVE  strayed' = strayed
        BY <4>5 DEF Write, ClosePipe, ReadInput, table
      <4>6. ASSUME NEW u \in Others, OtherSpawns(u) \/ OtherReaps(u) PROVE strayed' = strayed
        BY <4>6 DEF OtherSpawns, OtherReaps
      <4> QED BY <3>2, <4>1, <4>2, <4>3, <4>4, <4>5, <4>6 DEF Environment
    <3> QED BY <2>1, <3>3, <3>4, <3>5, FamilyGrowth DEF CleanupInv, DescendantsContained
  <2>2. CASE cleanup # "ok"
    <3>1. EndScan
      BY <1>3, <2>2, MovesOnly DEF Next, Step, Prepare, PrepareFails, Enter, EnterFails, Spawn, SpawnFails,
                DrainStdout, DrainStderr, Drain, Feed, LoopFails, OverLimit, Poll, Terminate, Reap, Finish,
                BeginScan, Collect, CleanupFails, Leave, Dispose, TimePasses, vars
    <3>2. PICK found \in SUBSET DirectChildren :
             /\ seen \cap DirectChildren \subseteq found
             /\ Adoptable(found) = {}
             /\ pc' = "leave"
      BY <1>3, <2>2, <3>1 DEF EndScan
    <3>3. strayed' = strayed /\ \A p \in Procs : Present(p)' => Present(p)
      BY <3>1 DEF EndScan, Kill, Present
    <3>4. ASSUME ~strayed, NEW p \in Family, Present(p) PROVE FALSE
      <4>1. PICK r \in seen : r \in Family /\ Present(r) /\ parent[r] = Runner
        BY <3>1, <3>4 DEF EndScan, CleanupInv
      <4>2. r \in found /\ r \notin baseline
        BY <3>2, <4>1 DEF DirectChildren, ScopeInv
      <4>3. group[r] # Caller
        BY <3>4, <4>1 DEF CleanupInv, Present
      <4> QED BY <3>2, <4>1, <4>2, <4>3 DEF Adoptable
    <3> QED BY <3>2, <3>3, <3>4
  <2> QED BY <2>1, <2>2
<1> QED BY <1>1, <1>2, <1>3 DEF CleanupInv, DescendantsContained

-----------------------------------------------------------------------------
\* The inductive invariant holds in every reachable state.
THEOREM InvHolds == Spec => []Inv
<1>1. Init => Inv
  <2> USE ProcessAssumption DEF Init
  <2>1. Init => StreamsInv
    BY DEF StreamsInv
  <2>2. Init => ScopeInv
    BY DEF ScopeInv, Entered
  <2>3. Init => TreeInv
    <3> SUFFICES ASSUME Init PROVE TreeInv
      OBVIOUS
    <3>1. \A p \in Procs : parent[p] = Init1
      OBVIOUS
    <3>2. ~Entered
      BY DEF Entered
    <3> QED BY <3>1, <3>2 DEF TreeInv
  <2>4. Init => CleanupInv
    BY DEF CleanupInv, DescendantsContained
  <2> QED BY <2>1, <2>2, <2>3, <2>4, TypeInit DEF Inv
<1>2. Inv /\ [Next]_vars => Inv'
  BY TypeStep, StreamsStep, ScopeStep, TreeStep, CleanupStep DEF Inv
<1> QED BY <1>1, <1>2, PTL DEF Spec

\* Types hold, and a capture never exceeds its sentinel.
THEOREM TypeCorrect == Spec => []TypeOK
<1>1. Inv => TypeOK
  BY DEF Inv
<1> QED BY <1>1, InvHolds, PTL

\* output() returns without a cleanup error only when no descendant is left,
\* unless one has moved into the group of the caller.
THEOREM Containment == Spec => []DescendantsContained
<1>1. Inv => DescendantsContained
  BY DEF Inv, CleanupInv
<1> QED BY <1>1, InvHolds, PTL

\* While the scope is entered, no descendant is a child of init.
THEOREM NoEscape == Spec => []NothingEscapes
<1>1. Inv => NothingEscapes
  BY ProcessAssumption DEF Inv, ScopeInv, TreeInv, NothingEscapes
<1> QED BY <1>1, InvHolds, PTL

\* The disposable state is there while the tree may run, and every return
\* passes its removal.
THEOREM StateKept == Spec => []StateOutlivesTree
<1>1. Inv => StateOutlivesTree
  BY DEF Inv, ScopeInv, StateOutlivesTree, Entered
<1> QED BY <1>1, InvHolds, PTL

\* A successful cleanup leaves nothing, no descendant is out of its reach, and
\* the disposable state outlives the tree that uses it.
THEOREM ContainmentHolds == Spec => []Contained
<1>1. DescendantsContained /\ NothingEscapes /\ StateOutlivesTree <=> Contained
  BY DEF Contained
<1> QED BY <1>1, Containment, NoEscape, StateKept, PTL

\* A successful result is complete, within its limits and final.
THEOREM OutputComplete == Spec => []CompleteOutput
<1>1. Inv => CompleteOutput
  BY DEF Inv, StreamsInv, CompleteOutput
<1> QED BY <1>1, InvHolds, PTL

\* The subreaper setting is restored.
THEOREM FlagIsRestored == Spec => []FlagRestored
<1>1. Inv => FlagRestored
  BY DEF Inv, ScopeInv, FlagRestored
<1> QED BY <1>1, InvHolds, PTL

-----------------------------------------------------------------------------
(* Children of other threads.                                              *)

\* They are never in the group of the direct child, the baseline is made of
\* direct children, and what is about to be collected was chosen by the scan
\* and cannot change its group any more.
OthersInv ==
    /\ \A u \in Others : group[u] # Child
    /\ \A u \in baseline : parent[u] = Runner /\ state[u] # "unborn"
    /\ pc = "collect" => \A u \in seen :
         u \notin baseline /\ group[u] # Caller /\ state[u] \notin {"live", "unborn"}

LEMMA OthersStep == TypeOK /\ OthersInv /\ [Next]_vars => OthersInv'
<1> SUFFICES ASSUME TypeOK, OthersInv, [Next]_vars PROVE OthersInv'
  OBVIOUS
<1>t. TableTypeOK /\ CallerTypeOK /\ baseline \subseteq Procs /\ seen \subseteq Procs
  BY DEF TypeOK, CallerTypeOK
<1> USE <1>t, ProcessAssumption DEF TableTypeOK
<1>1. CASE Environment
  <2>1. UNCHANGED <<baseline, pc, seen>>
    BY <1>1, MovesOnly DEF scope
  <2> USE <2>1 DEF OthersInv
  <2>2. ASSUME NEW p \in Procs, NEW q \in Procs, Fork(p, q) PROVE OthersInv'
    BY <2>2 DEF Fork
  <2>3. ASSUME NEW p \in Procs, LeaveGroup(p) PROVE OthersInv'
    BY <2>3 DEF LeaveGroup
  <2>4. ASSUME NEW p \in Procs, JoinCaller(p) PROVE OthersInv'
    BY <2>4 DEF JoinCaller
  <2>5. ASSUME NEW p \in Procs, Die(p) PROVE OthersInv'
    BY <2>5 DEF Die
  <2>6. ASSUME NEW p \in Procs, ParentReaps(p) PROVE OthersInv'
    BY <2>6 DEF ParentReaps
  <2>7. ASSUME NEW p \in Family, NEW s \in Ends,
               (s \in Streams /\ Write(p, s)) \/ ClosePipe(p, s) \/ ReadInput(p)
        PROVE  OthersInv'
    BY <2>7 DEF Write, ClosePipe, ReadInput, table
  <2>8. ASSUME NEW u \in Others, OtherSpawns(u) \/ OtherReaps(u) PROVE OthersInv'
    BY <2>8 DEF OtherSpawns, OtherReaps
  <2> QED BY <1>1, <2>2, <2>3, <2>4, <2>5, <2>6, <2>7, <2>8 DEF Environment
<1>2. CASE TimePasses \/ UNCHANGED vars
  BY <1>2 DEF TimePasses, vars, table, scope, OthersInv
<1>3. CASE Enter
  BY <1>3 DEF Enter, Goto, table, OthersInv, DirectChildren, Present
<1>4. CASE EndScan
  <2>1. PICK found \in SUBSET DirectChildren :
           /\ seen' = Adoptable(found)
           /\ Kill(Adoptable(found))
    BY <1>4 DEF EndScan
  <2>2. UNCHANGED <<parent, group, baseline>>
    BY <1>4 DEF EndScan, scope
  <2>3. \A u \in seen' : u \notin baseline /\ group[u] # Caller /\ state'[u] \notin {"live", "unborn"}
    BY <2>1 DEF Adoptable, Kill, Present, DirectChildren
  <2>4. \A u \in baseline : state'[u] # "unborn"
    BY <2>1 DEF Kill, OthersInv
  <2> QED BY <2>2, <2>3, <2>4 DEF OthersInv
<1>5. CASE Spawn
  BY <1>5 DEF Spawn, Goto, scope, OthersInv
<1>6. CASE Step /\ ~Enter /\ ~EndScan /\ ~Spawn
  <2>1. OnlyDecay
    BY <1>6, CallerDecays
  <2>2. UNCHANGED <<group, baseline>>
    BY <1>6, KeepsTable DEF Step, Prepare, PrepareFails, EnterFails, SpawnFails, DrainStdout, DrainStderr,
       Drain, Feed, LoopFails, OverLimit, Poll, Terminate, Reap, Finish, BeginScan, Collect, CleanupFails,
       Leave, Dispose, table, scope
  <2>3. Poll => pc' # "collect"
    BY DEF Poll
  <2>4. Collect => pc' # "collect"
    BY DEF Collect
  <2>5. pc' # "collect"
    BY <1>6, <2>3, <2>4 DEF Step, Prepare, PrepareFails, EnterFails, SpawnFails, DrainStdout, DrainStderr,
       Feed, LoopFails, OverLimit, Terminate, Reap, Finish, BeginScan, CleanupFails, Leave, Dispose, Goto,
       Return
  <2> QED BY <2>1, <2>2, <2>5 DEF OthersInv, OnlyDecay, Decay
<1> QED BY <1>1, <1>2, <1>3, <1>4, <1>5, <1>6 DEF Next

\* A child of another thread that was there before, or stays in the group of
\* this process, is never killed and is collected by its own thread only.
THEOREM NeighboursSpared == Spec => UnrelatedSpared
<1> DEFINE Unharmed(u) == Entered /\ Spared(u) /\ state'[u] # state[u] =>
             state'[u] # "doomed" /\ (state'[u] = "gone" => OtherReaps(u))
<1>1. Init => OthersInv
  BY ProcessAssumption DEF Init, OthersInv
<1>2. TypeOK /\ OthersInv /\ [Next]_vars => \A u \in Others : Unharmed(u)
  <2> SUFFICES ASSUME TypeOK, OthersInv, [Next]_vars, NEW u \in Others,
                      Spared(u), state'[u] # state[u]
               PROVE  state'[u] # "doomed" /\ (state'[u] = "gone" => OtherReaps(u))
    OBVIOUS
  <2>t. TableTypeOK /\ u \in Procs /\ u # Child /\ parent[u] = Runner
    BY ProcessAssumption DEF TypeOK, OthersInv, Spared
  <2> USE <2>t, ProcessAssumption DEF TableTypeOK
  <2>1. CASE Environment
    <3>1. ASSUME NEW p \in Procs, NEW q \in Procs, Fork(p, q) PROVE state'[u] \notin {"doomed", "gone"}
      BY <3>1 DEF Fork
    <3>2. ASSUME NEW p \in Procs, Die(p) PROVE state'[u] \notin {"doomed", "gone"}
      BY <3>2 DEF Die
    <3>3. ASSUME NEW p \in Procs, LeaveGroup(p) \/ JoinCaller(p) \/ ParentReaps(p) PROVE state'[u] = state[u]
      BY <3>3 DEF LeaveGroup, JoinCaller, ParentReaps
    <3>4. ASSUME NEW p \in Family, NEW s \in Ends,
                 (s \in Streams /\ Write(p, s)) \/ ClosePipe(p, s) \/ ReadInput(p)
          PROVE  state'[u] = state[u]
      BY <3>4 DEF Write, ClosePipe, ReadInput, table
    <3>5. ASSUME NEW v \in Others, OtherSpawns(v) PROVE state'[u] \notin {"doomed", "gone"}
      BY <3>5 DEF OtherSpawns
    <3>6. ASSUME NEW v \in Others, OtherReaps(v) PROVE v = u /\ state'[u] = "gone"
      BY <3>6 DEF OtherReaps
    <3> QED BY <2>1, <3>1, <3>2, <3>3, <3>4, <3>5, <3>6 DEF Environment
  <2>2. CASE TimePasses \/ UNCHANGED vars
    BY <2>2 DEF TimePasses, vars, table
  <2>3. CASE Step /\ UNCHANGED table
    BY <2>3 DEF table
  <2>4. CASE Spawn \/ Poll \/ Reap
    BY <2>4 DEF Spawn, Poll, Reap
  <2>5. CASE Terminate \/ Finish
    BY <2>5 DEF Terminate, Finish, Kill, InGroup, OthersInv
  <2>6. CASE EndScan
    BY <2>6 DEF EndScan, Kill, Adoptable, Spared
  <2>7. CASE Collect
    BY <2>7 DEF Collect, Reaped, OthersInv, Spared
  <2> QED BY <2>1, <2>2, <2>3, <2>4, <2>5, <2>6, <2>7, KeepsTable DEF Next, Step
<1>3. TypeOK /\ OthersInv /\ [Next]_vars => [\A u \in Others : Unharmed(u)]_vars
  BY <1>2
<1> QED BY <1>1, <1>3, OthersStep, TypeCorrect, PTL DEF Spec, UnrelatedSpared
=============================================================================
