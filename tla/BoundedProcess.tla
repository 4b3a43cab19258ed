---------------------------- MODULE BoundedProcess ----------------------------
(***************************************************************************)
(* The Linux runner of xtask/src/bounded_process.rs: one caller of         *)
(* output() beside a process table in which every live process forks,      *)
(* leaves its process group, writes, exits and is adopted at any moment.   *)
(*                                                                         *)
(* While the runner is a child subreaper, the children of a dead           *)
(* descendant become its own direct children.  A scan of /proc is not      *)
(* atomic: it sees every process that was a direct child when it began and *)
(* any of those that became one before it ended.  SIGKILL is not           *)
(* instantaneous: a doomed process does nothing more, but dies later.      *)
(* Callers are serialised by SUBREAPER_LOCK, so one is modelled; what      *)
(* other threads do with their own children is in the process table.       *)
(***************************************************************************)
EXTENDS Integers, FiniteSets

CONSTANTS
    Family,     \* process ids for the direct child and its descendants
    Child,      \* the direct child
    Others,     \* process ids for children of other threads, and theirs
    Runner,     \* this process, as a parent
    Init1,      \* the init process, as a parent
    Caller,     \* the process group of this process
    Movers,     \* bound: processes that may change their group
    Limit,      \* bytes allowed on each stream
    MaxWritten, \* bound: bytes written to both streams
    InputSize,  \* bytes of input for the child
    Capacity,   \* bytes its pipe holds
    Isolated,   \* whether the command gets a Cargo home of its own
    FlagAtStart \* whether this process is a subreaper already

Procs == Family \cup Others
Streams == {"stdout", "stderr"}
Ends == Streams \cup {"stdin"}

ASSUME ProcessAssumption ==
    /\ Child \in Family
    /\ Family \cap Others = {}
    /\ Runner \notin Procs /\ Init1 \notin Procs /\ Runner # Init1 /\ Caller \notin Procs
    /\ Limit \in Nat /\ MaxWritten \in Nat /\ InputSize \in Nat /\ Capacity \in Nat \ {0}
    /\ Isolated \in BOOLEAN /\ FlagAtStart \in BOOLEAN

VARIABLES
    state,     \* "unborn", "live", "doomed" (SIGKILL pending), "zombie", "gone"
    parent,    \* parent of each process
    group,     \* process group of each process
    holds,     \* ends of the three pipes each process holds
    written,   \* bytes written to each stream
    captured,  \* bytes read from each stream
    eof,       \* streams whose reader was dropped at end of file
    fed,       \* bytes of input written to the child's pipe
    taken,     \* bytes of it read from that pipe
    feeding,   \* the writer of the input has not been dropped
    flag,      \* this process is a child subreaper
    pc,        \* where the caller of output() is
    wasOn,     \* SubreaperScope.was_enabled
    baseline,  \* SubreaperScope.baseline
    disposable, \* FreshCargoState: "none", "made", "gone", or "left" behind
    status,    \* the direct child has been reaped
    late,      \* the deadline of the current phase has passed
    seen,      \* processes found by the scan, then those to collect
    result,    \* of output_inner
    cleanup,   \* of terminate_and_reap
    strayed    \* history: a descendant has moved into the caller's group

table == <<state, parent, group, holds, strayed>>
input == <<fed, taken, feeding>>
streams == <<written, captured, eof, input>>
scope == <<flag, wasOn, baseline, disposable>>
vars == <<table, streams, scope, pc, status, late, seen, result, cleanup>>

-----------------------------------------------------------------------------
(* The process table.                                                      *)

Present(p) == state[p] \in {"live", "doomed", "zombie"}

DirectChildren == { p \in Procs : Present(p) /\ parent[p] = Runner }

\* Doom every live process of a set.
Kill(targets) ==
    state' = [p \in Procs |-> IF p \in targets /\ state[p] = "live" THEN "doomed" ELSE state[p]]

InGroup(g) == { p \in Procs : group[p] = g }

Reaped(targets) ==
    [p \in Procs |-> IF p \in targets /\ state[p] = "zombie" THEN "gone" ELSE state[p]]

\* A child inherits the group and the pipe ends of its parent.
Fork(p, q) ==
    /\ state[p] = "live" /\ state[q] = "unborn"
    /\ p \in Family <=> q \in Family
    /\ q # Child
    /\ state' = [state EXCEPT ![q] = "live"]
    /\ parent' = [parent EXCEPT ![q] = p]
    /\ group' = [group EXCEPT ![q] = group[p]]
    /\ holds' = [holds EXCEPT ![q] = holds[p]]
    /\ UNCHANGED <<strayed, streams, scope, pc, status, late, seen, result, cleanup>>

\* setsid() or setpgid(0, 0)
LeaveGroup(p) ==
    /\ p \in Movers /\ state[p] = "live" /\ group[p] # p
    /\ group' = [group EXCEPT ![p] = p]
    /\ UNCHANGED <<strayed, state, parent, holds, streams, scope, pc, status, late, seen, result, cleanup>>

\* setpgid() into the group of the caller, allowed within its session.
JoinCaller(p) ==
    /\ p \in Movers /\ state[p] = "live" /\ group[p] # Caller
    /\ group' = [group EXCEPT ![p] = Caller]
    /\ strayed' = (strayed \/ p \in Family)
    /\ UNCHANGED <<state, parent, holds, streams, scope, pc, status, late, seen, result, cleanup>>

Write(p, s) ==
    /\ state[p] = "live" /\ s \in holds[p] /\ written["stdout"] + written["stderr"] < MaxWritten
    /\ written' = [written EXCEPT ![s] = @ + 1]
    /\ UNCHANGED <<table, captured, eof, input, scope, pc, status, late, seen, result, cleanup>>

ReadInput(p) ==
    /\ state[p] = "live" /\ "stdin" \in holds[p] /\ taken < fed
    /\ taken' = taken + 1
    /\ UNCHANGED <<table, written, captured, eof, fed, feeding, scope, pc, status, late, seen, result,
                   cleanup>>

ClosePipe(p, s) ==
    /\ state[p] = "live" /\ s \in holds[p]
    /\ holds' = [holds EXCEPT ![p] = @ \ {s}]
    /\ UNCHANGED <<strayed, state, parent, group, streams, scope, pc, status, late, seen, result, cleanup>>

\* A process exits or its SIGKILL takes effect.  Its children go to the
\* nearest subreaper, and a child of init is reaped at once.
Die(p) ==
    /\ state[p] \in {"live", "doomed"}
    /\ LET heir == IF flag THEN Runner ELSE Init1
       IN  /\ parent' = [q \in Procs |-> IF parent[q] = p THEN heir ELSE parent[q]]
           /\ state' = [q \in Procs |->
                CASE q = p /\ parent[p] # Init1 -> "zombie"
                  [] q = p /\ parent[p] = Init1 -> "gone"
                  [] q # p /\ parent[q] = p /\ heir = Init1 /\ state[q] = "zombie" -> "gone"
                  [] OTHER -> state[q]]
    /\ holds' = [holds EXCEPT ![p] = {}]
    /\ UNCHANGED <<strayed, group, streams, scope, pc, status, late, seen, result, cleanup>>

\* A parent in the table collects a dead child.
ParentReaps(q) ==
    /\ state[q] = "zombie" /\ parent[q] \in Procs /\ state[parent[q]] = "live"
    /\ state' = [state EXCEPT ![q] = "gone"]
    /\ UNCHANGED <<strayed, parent, group, holds, streams, scope, pc, status, late, seen, result, cleanup>>

\* Another thread of this process starts and collects children of its own.
OtherSpawns(u) ==
    /\ u \in Others /\ state[u] = "unborn"
    /\ state' = [state EXCEPT ![u] = "live"]
    /\ parent' = [parent EXCEPT ![u] = Runner]
    /\ group' = [group EXCEPT ![u] = Caller]
    /\ UNCHANGED <<strayed, holds, streams, scope, pc, status, late, seen, result, cleanup>>

OtherReaps(u) ==
    /\ u \in Others /\ state[u] = "zombie" /\ parent[u] = Runner
    /\ state' = [state EXCEPT ![u] = "gone"]
    /\ UNCHANGED <<strayed, parent, group, holds, streams, scope, pc, status, late, seen, result, cleanup>>

Environment ==
    \/ \E p, q \in Procs : Fork(p, q)
    \/ \E p \in Procs : LeaveGroup(p) \/ JoinCaller(p) \/ Die(p) \/ ParentReaps(p)
    \/ \E p \in Family, s \in Streams : Write(p, s)
    \/ \E p \in Family, s \in Ends : ClosePipe(p, s)
    \/ \E p \in Family : ReadInput(p)
    \/ \E u \in Others : OtherSpawns(u) \/ OtherReaps(u)

-----------------------------------------------------------------------------
(* The caller of output().                                                 *)

Init ==
    /\ state = [p \in Procs |-> "unborn"]
    /\ parent = [p \in Procs |-> Init1]
    /\ group = [p \in Procs |-> Caller]
    /\ holds = [p \in Procs |-> {}]
    /\ written = [s \in Streams |-> 0]
    /\ captured = [s \in Streams |-> 0]
    /\ eof = {}
    /\ fed = 0
    /\ taken = 0
    /\ feeding = (InputSize > 0)
    /\ flag = FlagAtStart
    /\ disposable = "none"
    /\ pc = IF Isolated THEN "prepare" ELSE "enter"
    /\ wasOn = FALSE
    /\ baseline = {}
    /\ status = FALSE
    /\ late = FALSE
    /\ seen = {}
    /\ result = "none"
    /\ cleanup = "none"
    /\ strayed = FALSE

Goto(here, there) == pc = here /\ pc' = there

\* FreshCargoState::prepare: a directory for the phase, and the command's
\* environment turned to it.
Prepare ==
    /\ Goto("prepare", "enter")
    /\ disposable' = "made"
    /\ UNCHANGED <<table, streams, flag, wasOn, baseline, status, late, seen, result, cleanup>>

\* Any of its calls fails: after the first directory was made, it stays.
PrepareFails ==
    /\ Goto("prepare", "done")
    /\ disposable' \in {"none", "left"}
    /\ result' = "not entered"
    /\ UNCHANGED <<table, streams, flag, wasOn, baseline, status, late, seen, cleanup>>

\* finish_with_fresh_state: what platform::output() returns passes through it.
Return == IF disposable = "made" THEN "dispose" ELSE "done"

\* remove_dir_all may fail; then that is what the caller is told.
Dispose ==
    /\ Goto("dispose", "done")
    /\ disposable' \in {"gone", "left"}
    /\ UNCHANGED <<table, streams, flag, wasOn, baseline, status, late, seen, result, cleanup>>

\* SubreaperScope::enter: the flag is set before the baseline is read.
Enter ==
    /\ Goto("enter", "spawn")
    /\ wasOn' = flag
    /\ flag' = TRUE
    /\ baseline' = DirectChildren
    /\ UNCHANGED <<table, streams, disposable, status, late, seen, result, cleanup>>

\* enter() fails before it changes the flag, or after: then nothing resets it.
EnterFails ==
    /\ Goto("enter", Return)
    /\ result' = "not entered"
    /\ flag' \in {flag, TRUE}
    /\ wasOn' = flag
    /\ UNCHANGED <<table, streams, baseline, disposable, status, late, seen, cleanup>>

\* The child is in a group of its own before spawn() returns.
Spawn ==
    /\ Goto("spawn", "drain stdout")
    /\ state' = [state EXCEPT ![Child] = "live"]
    /\ parent' = [parent EXCEPT ![Child] = Runner]
    /\ group' = [group EXCEPT ![Child] = Child]
    /\ holds' = [holds EXCEPT ![Child] = IF InputSize > 0 THEN Ends ELSE Streams]
    /\ UNCHANGED <<strayed, streams, scope, status, late, seen, result, cleanup>>

SpawnFails ==
    /\ Goto("spawn", "scan")
    /\ result' = "error"
    /\ UNCHANGED <<table, streams, scope, status, late, seen, cleanup>>

\* Fault: the reader is dropped when there is nothing to read for now.
DrainUntilDry(s) ==
    LET room == Limit + 1 - captured[s]
        there == written[s] - captured[s]
    IN  /\ captured' = [captured EXCEPT ![s] =
                IF s \in eof THEN @ ELSE IF there < room THEN @ + there ELSE @ + room]
        /\ eof' = IF room > there THEN eof \cup {s} ELSE eof
        /\ UNCHANGED <<table, written, input, scope, status, late, seen, result, cleanup>>

\* Capture::drain reads what there is, to one byte above the limit, and drops
\* the reader when there is nothing more and nobody could write.
Drain(s) ==
    LET room == Limit + 1 - captured[s]
        there == written[s] - captured[s]
        count == IF there < room THEN there ELSE room
    IN  /\ captured' = [captured EXCEPT ![s] = IF s \in eof THEN @ ELSE @ + count]
        /\ eof' = IF room > there /\ \A p \in Procs : s \notin holds[p] THEN eof \cup {s} ELSE eof
        /\ UNCHANGED <<table, written, input, scope, status, late, seen, result, cleanup>>

DrainStdout == Goto("drain stdout", "drain stderr") /\ Drain("stdout")
DrainStderr == Goto("drain stderr", IF feeding THEN "feed" ELSE "poll") /\ Drain("stderr")

Reading == \E p \in Procs : "stdin" \in holds[p]

\* write_input fills the pipe, and drops the writer when everything is written
\* or nobody can read any more.
Feed ==
    /\ Goto("feed", "poll")
    /\ LET room == Capacity - (fed - taken)
           rest == InputSize - fed
       IN  fed' = IF ~Reading THEN fed ELSE IF rest < room THEN fed + rest ELSE fed + room
    /\ feeding' = (Reading /\ fed' < InputSize)
    /\ UNCHANGED <<table, written, captured, eof, taken, scope, status, late, seen, result, cleanup>>

Exceeded == \E s \in Streams : captured[s] > Limit

\* Any failure leaves the loop: set_nonblocking, a read, the input, try_wait.
LoopFails ==
    /\ pc \in {"drain stdout", "drain stderr", "feed", "poll"}
    /\ pc' = "terminate"
    /\ UNCHANGED <<table, streams, scope, status, late, seen, result, cleanup>>

OverLimit ==
    /\ Goto("poll", "terminate")
    /\ Exceeded
    /\ UNCHANGED <<table, streams, scope, status, late, seen, result, cleanup>>

\* Fault: no grace period for the pipes after the exit.
PollWithoutGrace ==
    /\ pc = "poll"
    /\ ~Exceeded
    /\ LET reaped == ~status /\ state[Child] = "zombie"
       IN  /\ status' = (status \/ reaped)
           /\ state' = IF reaped THEN [state EXCEPT ![Child] = "gone"] ELSE state
           /\ pc' = IF status' /\ eof = Streams THEN "finish" ELSE "drain stdout"
    /\ UNCHANGED <<strayed, parent, group, holds, streams, scope, late, seen, result, cleanup>>

\* Poll the direct child once, starting the grace period of its pipes when it
\* is reaped; leave the loop when it is and both streams have ended.
Poll ==
    /\ pc = "poll"
    /\ ~Exceeded
    /\ LET reaped == ~status /\ state[Child] = "zombie"
       IN  /\ status' = (status \/ reaped)
           /\ state' = IF reaped THEN [state EXCEPT ![Child] = "gone"] ELSE state
           /\ late' = IF reaped THEN FALSE ELSE late
           /\ pc' = CASE status' /\ eof = Streams -> "finish"
                      [] status' /\ eof # Streams /\ late' -> "terminate"
                      [] OTHER -> "drain stdout"
    /\ UNCHANGED <<strayed, parent, group, holds, streams, scope, seen, result, cleanup>>

\* terminate_tree: the group, then the child itself unless it can be reaped.
Terminate ==
    /\ pc = "terminate"
    /\ pc' = IF status THEN "scan" ELSE "reap"
    /\ Kill(InGroup(Child) \cup {Child})
    /\ result' = "error"
    /\ late' = FALSE
    /\ UNCHANGED <<strayed, parent, group, holds, streams, scope, status, seen, cleanup>>

\* reap_until: the child, or the deadline.
Reap ==
    /\ pc = "reap"
    /\ \/ /\ state[Child] = "zombie"
          /\ state' = [state EXCEPT ![Child] = "gone"]
          /\ status' = TRUE
       \/ /\ state[Child] # "zombie"
          /\ late
          /\ UNCHANGED <<state, status>>
    /\ pc' = "scan"
    /\ late' = FALSE
    /\ UNCHANGED <<strayed, parent, group, holds, streams, scope, seen, result, cleanup>>

\* Success: what is left of the group is killed and left to the scope.
Finish ==
    /\ Goto("finish", "scan")
    /\ Kill(InGroup(Child))
    /\ result' = "ok"
    /\ late' = FALSE
    /\ UNCHANGED <<strayed, parent, group, holds, streams, scope, status, seen, cleanup>>

\* terminate_and_reap, one round: scan, kill, collect.
BeginScan ==
    /\ Goto("scan", "scanning")
    /\ seen' = DirectChildren
    /\ UNCHANGED <<table, streams, scope, status, late, result, cleanup>>

\* Fault: only the group of the direct child is looked for.
GroupOnly(found) == { p \in found \ baseline : Present(p) /\ group[p] = Child }

\* Fault: the baseline is forgotten.
AdoptableAndOlder(found) == { p \in found : Present(p) /\ group[p] # Caller }

Adoptable(found) == { p \in found \ baseline : Present(p) /\ group[p] # Caller }

EndScan ==
    /\ pc = "scanning"
    /\ \E found \in SUBSET DirectChildren :
         /\ seen \cap DirectChildren \subseteq found
         /\ LET adopted == Adoptable(found)
            IN  /\ seen' = adopted
                /\ Kill(adopted)
                /\ pc' = IF adopted = {} THEN "leave" ELSE "collect"
                /\ cleanup' = IF adopted = {} THEN "ok" ELSE cleanup
    /\ UNCHANGED <<strayed, parent, group, holds, streams, scope, status, late, result>>

Collect ==
    /\ pc = "collect"
    /\ state' = Reaped(seen)
    /\ pc' = IF late THEN "leave" ELSE "scan"
    /\ cleanup' = IF late THEN "error" ELSE cleanup
    /\ seen' = {}
    /\ UNCHANGED <<strayed, parent, group, holds, streams, scope, status, late, result>>

\* Reading /proc or waiting fails.
CleanupFails ==
    /\ pc \in {"scanning", "collect"}
    /\ pc' = "leave"
    /\ cleanup' = "error"
    /\ seen' = {}
    /\ UNCHANGED <<table, streams, scope, status, late, result>>

\* Drop of the scope, and the return of platform::output().
Leave ==
    /\ Goto("leave", Return)
    /\ flag' = wasOn
    /\ UNCHANGED <<table, streams, wasOn, baseline, disposable, status, late, seen, result, cleanup>>

Timed == \/ pc \in {"drain stdout", "drain stderr", "feed", "poll"} /\ status
         \/ pc \in {"reap", "scan", "scanning", "collect"}

TimePasses ==
    /\ Timed /\ ~late
    /\ late' = TRUE
    /\ UNCHANGED <<table, streams, scope, pc, status, seen, result, cleanup>>

Step ==
    \/ Prepare \/ PrepareFails \/ Enter \/ EnterFails \/ Spawn \/ SpawnFails
    \/ DrainStdout \/ DrainStderr \/ Feed \/ LoopFails \/ OverLimit \/ Poll
    \/ Terminate \/ Reap \/ Finish
    \/ BeginScan \/ EndScan \/ Collect \/ CleanupFails \/ Leave \/ Dispose

Next == Step \/ TimePasses \/ Environment

Spec == Init /\ [][Next]_vars

\* The caller is a running thread and time passes; nothing is assumed of any
\* process, not even that a doomed one dies.
FairSpec == Spec /\ WF_vars(Step) /\ WF_vars(TimePasses)

-----------------------------------------------------------------------------
(* Properties.                                                             *)

TableTypeOK ==
    /\ state \in [Procs -> {"unborn", "live", "doomed", "zombie", "gone"}]
    /\ parent \in [Procs -> Procs \cup {Runner, Init1}]
    /\ group \in [Procs -> Procs \cup {Caller}]
    /\ holds \in [Procs -> SUBSET Ends]

StreamTypeOK ==
    /\ written \in [Streams -> Nat]
    /\ captured \in [Streams -> 0..(Limit + 1)]
    /\ eof \subseteq Streams
    /\ fed \in 0..InputSize /\ taken \in 0..fed /\ fed - taken <= Capacity
    /\ feeding \in BOOLEAN

CallerTypeOK ==
    /\ flag \in BOOLEAN /\ wasOn \in BOOLEAN /\ status \in BOOLEAN
    /\ late \in BOOLEAN /\ strayed \in BOOLEAN
    /\ baseline \subseteq Procs /\ seen \subseteq Procs
    /\ disposable \in {"none", "made", "gone", "left"}
    /\ result \in {"none", "ok", "error", "not entered"}
    /\ cleanup \in {"none", "ok", "error"}

PlaceOK == pc \in {"prepare", "enter", "spawn", "drain stdout", "drain stderr", "feed", "poll",
                   "terminate", "reap", "finish", "scan", "scanning", "collect", "leave", "dispose",
                   "done"}

\* Types of every variable; a capture never holds more than one byte above
\* its limit (Capture::drain).
TypeOK == TableTypeOK /\ StreamTypeOK /\ CallerTypeOK /\ PlaceOK

Entered == pc \notin {"prepare", "enter", "dispose", "done"}

\* output() returns without a cleanup error only when no descendant of the
\* child is left, whatever they forked, left, outlived or orphaned meanwhile
\* (terminate_and_reap).  The exception is known to the code: it does not
\* touch processes in its own group, where a descendant may have moved.
DescendantsContained ==
    cleanup = "ok" /\ ~strayed => \A p \in Family : ~Present(p)

\* The same as the documentation of output() says it, without exception.
ContainsDescendants == cleanup = "ok" => \A p \in Family : ~Present(p)

\* From the spawn to the last scan, no descendant is handed to init, where no
\* scan would find it (SubreaperScope::enter and Drop).
NothingEscapes ==
    Entered => flag /\ \A p \in Family : Present(p) => parent[p] # Init1

\* The disposable Cargo state is there as long as the scope is, and every path
\* out of it passes the removal (finish_with_fresh_state).
StateOutlivesTree ==
    Isolated => (Entered => disposable = "made") /\ (pc = "done" => disposable # "made")

\* The cleanup leaves nothing behind, and loses nothing on the way.
Contained == DescendantsContained /\ NothingEscapes /\ StateOutlivesTree

\* A successful result holds all that was ever written to both streams, within
\* the limits, and nobody can write more (Capture::drain and output_inner).
CompleteOutput ==
    result = "ok" => \A s \in Streams :
        captured[s] = written[s] /\ captured[s] <= Limit /\ \A p \in Procs : s \notin holds[p]

\* A child of another thread that was there before, or stays in the group of
\* this process, is never killed and is collected by its own thread only.
Spared(u) == u \in baseline \/ (group[u] = Caller /\ parent[u] = Runner)

UnrelatedSpared ==
    [][\A u \in Others : Entered /\ Spared(u) /\ state'[u] # state[u] =>
          state'[u] # "doomed" /\ (state'[u] = "gone" => OtherReaps(u))]_vars

\* The subreaper setting of the process is what it was, on every return of an
\* operation that entered its scope, failed or not.
FlagRestored == pc = "done" /\ result # "not entered" => flag = FlagAtStart

\* Once the direct child has exited, output() returns: neither pipes kept open
\* by descendants, nor a process that does not die, keep the caller.
ChildExitReturns == state[Child] = "zombie" ~> pc = "done"

\* Once a stream is over its limit, output() returns, though nothing exits.
OverflowReturns == (\E s \in Streams : written[s] > Limit) ~> pc = "done"

\* The writer of the input is still there.
InputOpen == feeding /\ pc \in {"drain stdout", "drain stderr", "feed", "poll"}

\* A process that has read all there is gets more, or the end of the input:
\* neither waits for the other (write_input).
InputServed == InputOpen /\ taken = fed ~> taken < fed \/ ~InputOpen

\* The caller is kept neither after the exit of the child nor after an
\* overflow, whatever the processes do, and keeps no reader waiting.
OutputReturns == ChildExitReturns /\ OverflowReturns /\ InputServed
=============================================================================
