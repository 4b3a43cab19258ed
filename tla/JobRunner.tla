------------------------------- MODULE JobRunner -------------------------------
(***************************************************************************)
(* The Windows runner of xtask/src/bounded_process.rs: one caller of       *)
(* output(), its I/O threads, and a process tree in a job object that      *)
(* forks, writes, closes pipes and exits at any moment.                    *)
(*                                                                         *)
(* The child is created suspended, so that it is in the job before it does *)
(* anything; what it creates is in the job as well, and closing the last   *)
(* handle of the job dooms everything in it.  A doomed process dies later, *)
(* or never.  The threads report over a channel; of their reports only     *)
(* which have been sent and received matters.                              *)
(***************************************************************************)
EXTENDS Integers, FiniteSets

CONSTANTS
    Family,        \* process ids for the direct child and its descendants
    Child,         \* the direct child
    Limit,         \* bytes allowed on each stream
    MaxWritten,    \* bound: bytes written to each stream
    InputExpected  \* whether there is input for the child

ASSUME JobAssumption ==
    Child \in Family /\ Limit \in Nat /\ MaxWritten \in Nat /\ InputExpected \in BOOLEAN

Streams == {"stdout", "stderr"}
Workers == Streams \cup (IF InputExpected THEN {"stdin"} ELSE {})

VARIABLES
    state,     \* "unborn", "suspended", "live", "doomed", "dead"
    job,       \* processes in the job object
    holds,     \* ends of the pipes each process holds
    written,   \* bytes written to each stream
    taken,     \* the input has been read, or fits into its pipe
    worker,    \* "absent", "between" calls, "calling", "ended"
    captured,  \* bytes each reader has read
    verdict,   \* what a worker reports: "none", "ok", "exceeded", "error"
    channel,   \* workers whose report has not been received
    finished,  \* workers whose report has been received
    pc,        \* where the caller of output() is
    failure,   \* something has failed
    status,    \* the direct child has been reaped
    late,      \* the deadline of the current phase has passed
    result,    \* of output()
    leaked     \* disposable Cargo directory left behind

tree == <<state, job, holds, written, taken>>
threads == <<worker, captured, verdict, channel>>
caller == <<finished, pc, failure, status, late, result, leaked>>
vars == <<tree, threads, caller>>

-----------------------------------------------------------------------------
(* Processes.                                                              *)

Kill(targets) ==
    [p \in Family |-> IF p \in targets /\ state[p] \in {"live", "suspended"} THEN "doomed" ELSE state[p]]

Fork(p, q) ==
    /\ state[p] = "live" /\ state[q] = "unborn" /\ q # Child
    /\ state' = [state EXCEPT ![q] = "live"]
    /\ job' = IF p \in job THEN job \cup {q} ELSE job
    /\ holds' = [holds EXCEPT ![q] = holds[p]]
    /\ UNCHANGED <<written, taken, threads, caller>>

Write(p, s) ==
    /\ state[p] = "live" /\ s \in holds[p] /\ written[s] < MaxWritten
    /\ written' = [written EXCEPT ![s] = @ + 1]
    /\ UNCHANGED <<state, job, holds, taken, threads, caller>>

ReadInput(p) ==
    /\ state[p] = "live" /\ "stdin" \in holds[p] /\ ~taken
    /\ taken' = TRUE
    /\ UNCHANGED <<state, job, holds, written, threads, caller>>

ClosePipe(p, end) ==
    /\ state[p] = "live" /\ end \in holds[p]
    /\ holds' = [holds EXCEPT ![p] = @ \ {end}]
    /\ UNCHANGED <<state, job, written, taken, threads, caller>>

Die(p) ==
    /\ state[p] \in {"live", "doomed"}
    /\ state' = [state EXCEPT ![p] = "dead"]
    /\ holds' = [holds EXCEPT ![p] = {}]
    /\ UNCHANGED <<job, written, taken, threads, caller>>

Environment ==
    \/ \E p, q \in Family : Fork(p, q)
    \/ \E p \in Family : Die(p) \/ ReadInput(p)
    \/ \E p \in Family, s \in Streams : Write(p, s)
    \/ \E p \in Family, end \in Workers : ClosePipe(p, end)

Held(end) == \E p \in Family : end \in holds[p]

-----------------------------------------------------------------------------
(* The I/O threads.                                                        *)

Report(w, said) ==
    /\ worker' = [worker EXCEPT ![w] = "ended"]
    /\ verdict' = [verdict EXCEPT ![w] = said]
    /\ channel' = channel \cup {w}

Call(w) ==
    /\ worker[w] = "between"
    /\ worker' = [worker EXCEPT ![w] = "calling"]
    /\ UNCHANGED <<captured, verdict, channel, tree, caller>>

\* Fault: no sentinel byte is read.
ReadToLimit(s) ==
    /\ worker[s] = "calling"
    /\ LET unread == written[s] - captured[s]
           room == Limit - captured[s]
           count == IF unread < room THEN unread ELSE room
       IN  /\ unread > 0 \/ ~Held(s)
           /\ captured' = [captured EXCEPT ![s] = @ + count]
           /\ IF unread = 0 \/ count = room THEN Report(s, "ok")
              ELSE /\ worker' = [worker EXCEPT ![s] = "between"]
                   /\ UNCHANGED <<verdict, channel>>
    /\ UNCHANGED <<tree, caller>>

\* read_bounded_pipe reads what there is, to one byte above the limit, and
\* waits while there is nothing but somebody could write.
ReadSome(s) ==
    /\ worker[s] = "calling"
    /\ LET unread == written[s] - captured[s]
           room == Limit + 1 - captured[s]
           count == IF unread < room THEN unread ELSE room
       IN  /\ unread > 0 \/ ~Held(s)
           /\ captured' = [captured EXCEPT ![s] = @ + count]
           /\ IF unread = 0 THEN Report(s, "ok")
              ELSE IF count = room THEN Report(s, "exceeded")
              ELSE /\ worker' = [worker EXCEPT ![s] = "between"]
                   /\ UNCHANGED <<verdict, channel>>
    /\ UNCHANGED <<tree, caller>>

\* write_all and flush; a broken pipe is no failure.
WriteInput ==
    /\ InputExpected /\ worker["stdin"] = "calling"
    /\ taken \/ ~Held("stdin")
    /\ Report("stdin", "ok")
    /\ UNCHANGED <<captured, tree, caller>>

WorkerFails(w) ==
    /\ worker[w] = "calling"
    /\ Report(w, "error")
    /\ UNCHANGED <<captured, tree, caller>>

Progress == \E w \in Workers : Call(w) \/ (w \in Streams /\ ReadSome(w)) \/ (w = "stdin" /\ WriteInput)

\* CancelSynchronousIo aborts the call of a worker that is in one; it may find
\* none, and another call may follow.
Cancel(targets) ==
    \E aborted \in SUBSET {w \in targets : worker[w] = "calling"} :
        /\ worker' = [w \in Workers |-> IF w \in aborted THEN "ended" ELSE worker[w]]
        /\ verdict' = [w \in Workers |-> IF w \in aborted THEN "error" ELSE verdict[w]]
        /\ channel' = channel \cup aborted
        /\ UNCHANGED captured

-----------------------------------------------------------------------------
(* The caller of output().                                                 *)

Goto(here, there) == pc = here /\ pc' = there

Return(outcome) == pc' = "done" /\ result' = outcome

\* A disposable Cargo state is made before it is found to be unsupported.
FreshStateFails ==
    /\ pc = "prepare" /\ Return("error")
    /\ leaked' \in BOOLEAN
    /\ UNCHANGED <<finished, failure, status, late, tree, threads>>

CreateJob ==
    /\ Goto("prepare", "spawn")
    /\ UNCHANGED <<finished, failure, status, late, result, leaked, tree, threads>>

CreateFails ==
    /\ pc \in {"prepare", "spawn"} /\ Return("error")
    /\ UNCHANGED <<finished, failure, status, late, leaked, tree, threads>>

\* Fault: the child is not suspended.
SpawnRunning ==
    /\ Goto("spawn", "assign")
    /\ state' = [state EXCEPT ![Child] = "live"]
    /\ holds' = [holds EXCEPT ![Child] = Workers]
    /\ UNCHANGED <<finished, failure, status, late, result, leaked, job, written, taken, threads>>

Spawn ==
    /\ Goto("spawn", "assign")
    /\ state' = [state EXCEPT ![Child] = "suspended"]
    /\ holds' = [holds EXCEPT ![Child] = Workers]
    /\ UNCHANGED <<finished, failure, status, late, result, leaked, job, written, taken, threads>>

Assign ==
    /\ Goto("assign", "resume")
    /\ job' = job \cup {Child}
    /\ worker' = [w \in Workers |-> "between"]
    /\ UNCHANGED <<finished, failure, status, late, result, leaked, state, holds, written, taken,
                   captured, verdict, channel>>

AssignFails ==
    /\ Goto("assign", "wait")
    /\ state' = Kill({Child})
    /\ UNCHANGED <<finished, failure, status, late, result, leaked, job, holds, written, taken, threads>>

\* child.wait() has no deadline.
Wait ==
    /\ pc = "wait" /\ state[Child] = "dead" /\ Return("error")
    /\ status' = TRUE
    /\ UNCHANGED <<finished, failure, late, leaked, tree, threads>>

Resume ==
    /\ Goto("resume", "receive")
    /\ state' = [state EXCEPT ![Child] = "live"]
    /\ UNCHANGED <<finished, failure, status, late, result, leaked, job, holds, written, taken, threads>>

\* The thread is not found, not opened, or was not suspended exactly once; no
\* report is received, and no thread joined.
ResumeFails ==
    /\ Goto("resume", "reap_only")
    /\ state' = Kill(job \cup {Child})
    /\ Cancel(Workers)
    /\ UNCHANGED <<finished, failure, status, late, result, leaked, job, holds, written, taken>>

Receive(w) ==
    /\ channel' = channel \ {w}
    /\ finished' = finished \cup {w}
    /\ UNCHANGED <<worker, captured, verdict>>

\* One report, if there is one; none within the interval otherwise.
ReceiveOrTimeout ==
    /\ Goto("receive", "poll")
    /\ \/ \E w \in channel : Receive(w) /\ failure' = (failure \/ verdict[w] # "ok")
       \/ channel = {} /\ UNCHANGED <<threads, finished, failure>>
    /\ UNCHANGED <<status, late, result, leaked, tree>>

\* Poll the direct child once, starting the grace period of its pipes when it
\* is reaped; leave the loop after a failure, or when all is finished.
Poll ==
    /\ pc = "poll"
    /\ LET reaped == ~status /\ state[Child] = "dead"
       IN  /\ status' = (status \/ reaped)
           /\ late' = IF reaped THEN FALSE ELSE late
    /\ pc' = CASE failure -> "fail"
               [] ~failure /\ status' /\ finished = Workers -> "finish"
               [] ~failure /\ status' /\ finished # Workers /\ late' -> "fail"
               [] OTHER -> "receive"
    /\ UNCHANGED <<finished, failure, result, leaked, tree, threads>>

PollFails ==
    /\ Goto("poll", "fail") /\ ~status
    /\ UNCHANGED <<finished, failure, status, late, result, leaked, tree, threads>>

\* The job is terminated and closed, and the threads are cancelled.
Fail ==
    /\ pc = "fail" /\ pc' = IF status THEN "drain" ELSE "reap"
    /\ state' = Kill(job \cup {Child})
    /\ Cancel(Workers \ finished)
    /\ late' = FALSE
    /\ UNCHANGED <<finished, failure, status, result, leaked, job, holds, written, taken>>

\* reap_until: the child, or the deadline.
Reap ==
    /\ pc \in {"reap", "reap_only"}
    /\ state[Child] = "dead" \/ late
    /\ status' = (state[Child] = "dead")
    /\ IF pc = "reap" THEN pc' = "drain" /\ UNCHANGED result ELSE Return("error")
    /\ UNCHANGED <<finished, failure, late, leaked, tree, threads>>

\* receive_until, to the same deadline.
ReceiveMore ==
    /\ pc = "drain" /\ ~late
    /\ \E w \in channel : Receive(w)
    /\ UNCHANGED <<pc, failure, status, late, result, leaked, tree>>

\* Fault: every thread is joined.
JoinAll ==
    /\ pc = "drain" /\ (late \/ finished = Workers)
    /\ \A w \in Workers : worker[w] = "ended"
    /\ Return("error")
    /\ UNCHANGED <<finished, failure, status, late, leaked, tree, threads>>

\* Only threads that have reported are joined.
JoinReported ==
    /\ pc = "drain" /\ (late \/ finished = Workers)
    /\ \A w \in finished : worker[w] = "ended"
    /\ Return("error")
    /\ UNCHANGED <<finished, failure, status, late, leaked, tree, threads>>

\* Success: what is left in the job dies with it.
Finish ==
    /\ pc = "finish"
    /\ \A w \in Workers : worker[w] = "ended"
    /\ state' = Kill(job)
    /\ Return("ok")
    /\ UNCHANGED <<finished, failure, status, late, leaked, job, holds, written, taken, threads>>

TimePasses ==
    /\ ~late
    /\ (pc \in {"receive", "poll"} /\ status) \/ pc \in {"reap", "reap_only", "drain"}
    /\ late' = TRUE
    /\ UNCHANGED <<finished, pc, failure, status, result, leaked, tree, threads>>

Init ==
    /\ state = [p \in Family |-> "unborn"]
    /\ job = {} /\ holds = [p \in Family |-> {}]
    /\ written = [s \in Streams |-> 0] /\ taken \in BOOLEAN
    /\ worker = [w \in Workers |-> "absent"]
    /\ captured = [s \in Streams |-> 0]
    /\ verdict = [w \in Workers |-> "none"]
    /\ channel = {} /\ finished = {}
    /\ pc = "prepare" /\ failure = FALSE /\ status = FALSE /\ late = FALSE
    /\ result = "none" /\ leaked = FALSE

Step ==
    \/ CreateJob \/ Spawn \/ Assign \/ Wait \/ Resume
    \/ ReceiveOrTimeout \/ Poll \/ Fail \/ Reap \/ ReceiveMore \/ JoinReported \/ Finish

Fails ==
    \/ FreshStateFails \/ CreateFails \/ AssignFails \/ ResumeFails \/ PollFails
    \/ \E w \in Workers : WorkerFails(w)

Next == Step \/ Fails \/ TimePasses \/ Progress \/ Environment

Spec == Init /\ [][Next]_vars

\* The caller and each of its threads run, and time passes; nothing is assumed
\* of any process, not even that a doomed one dies.
FairSpec ==
    /\ Spec /\ WF_vars(Step) /\ WF_vars(TimePasses)
    /\ \A s \in Streams : WF_vars(Call(s)) /\ WF_vars(ReadSome(s))

-----------------------------------------------------------------------------
(* Properties.                                                             *)

TypeOK ==
    /\ state \in [Family -> {"unborn", "suspended", "live", "doomed", "dead"}]
    /\ job \subseteq Family /\ holds \in [Family -> SUBSET Workers]
    /\ written \in [Streams -> Nat] /\ taken \in BOOLEAN
    /\ worker \in [Workers -> {"absent", "between", "calling", "ended"}]
    /\ captured \in [Streams -> 0..(Limit + 1)]
    /\ verdict \in [Workers -> {"none", "ok", "exceeded", "error"}]
    /\ channel \subseteq Workers /\ finished \subseteq Workers
    /\ failure \in BOOLEAN /\ status \in BOOLEAN /\ late \in BOOLEAN /\ leaked \in BOOLEAN
    /\ pc \in {"prepare", "spawn", "assign", "wait", "resume", "receive", "poll", "fail", "reap",
               "reap_only", "drain", "finish", "done"}
    /\ result \in {"none", "ok", "error"}

\* output() never returns, whether it succeeds or fails and at whatever step,
\* while a process of its tree goes on running: at most some are dying.
JobContained == pc = "done" => \A p \in Family : state[p] \notin {"live", "suspended"}

\* A successful result holds all that was ever written, within the limits; no
\* thread is left, nobody can write more, and the input was read or refused.
JobOutput ==
    result = "ok" =>
        /\ \A s \in Streams : captured[s] = written[s] /\ captured[s] <= Limit /\ ~Held(s)
        /\ \A w \in Workers : worker[w] = "ended"
        /\ InputExpected => taken \/ ~Held("stdin")

\* output() returns after the exit of the child, and after an overflow though
\* nothing exits: neither a pipe kept open, nor a thread that cannot be
\* cancelled, nor a process that does not die keeps the caller.
JobReturns ==
    /\ state[Child] = "dead" ~> pc = "done"
    /\ (\E s \in Streams : written[s] > Limit) ~> pc = "done"
=============================================================================
