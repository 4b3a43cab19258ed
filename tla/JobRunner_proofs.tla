--------------------------- MODULE JobRunner_proofs ---------------------------
(***************************************************************************)
(* Proofs about JobRunner, for every process tree, limit and input.        *)
(***************************************************************************)
EXTENDS JobRunner, TLAPS

USE DEF Streams, Workers

-----------------------------------------------------------------------------
(* The parts of the inductive invariant.                                   *)

\* Nothing runs before the child is in the job; whatever runs afterwards is in
\* the job; and after the job has been terminated nothing runs.
TreeInv ==
    /\ pc \in {"prepare", "spawn"} => \A p \in Family : state[p] = "unborn"
    /\ pc \in {"assign", "resume"} =>
         \A p \in Family : state[p] = (IF p = Child THEN "suspended" ELSE "unborn")
    /\ pc = "resume" => Child \in job
    /\ pc \in {"receive", "poll", "fail", "finish"} =>
         \A p \in Family : state[p] # "suspended" /\ (state[p] # "unborn" => p \in job)
    /\ pc \in {"wait", "reap", "reap_only", "drain", "done"} =>
         \A p \in Family : state[p] \notin {"live", "suspended"}

\* A thread reports once, when it ends; one that reports success has read all
\* that will ever be written, or has had its input read or refused.
WorkerInv ==
    /\ pc \in {"prepare", "spawn", "assign"} => \A w \in Workers : worker[w] = "absent"
    /\ \A w \in Workers : verdict[w] # "none" => worker[w] = "ended"
    /\ \A s \in Streams :
         /\ captured[s] <= written[s]
         /\ worker[s] # "ended" => captured[s] <= Limit
         /\ verdict[s] = "ok" => captured[s] = written[s] /\ captured[s] <= Limit /\ ~Held(s)
    /\ InputExpected /\ verdict["stdin"] = "ok" => taken \/ ~Held("stdin")

\* The caller succeeds only when every thread has reported success.
CallerInv ==
    /\ pc \in {"prepare", "spawn", "assign", "resume"} => finished = {}
    /\ pc \in {"receive", "poll"} /\ ~failure => \A w \in finished : verdict[w] = "ok"
    /\ pc = "finish" \/ result = "ok" => \A w \in Workers : verdict[w] = "ok"
    /\ result = "ok" => pc = "done"

Inv == TypeOK /\ TreeInv /\ WorkerInv /\ CallerInv

-----------------------------------------------------------------------------
\* The invariant holds at the start.
LEMMA InitInv == Init => Inv
<1> SUFFICES ASSUME Init PROVE Inv
  OBVIOUS
<1> USE JobAssumption DEF Init
<1>1. TypeOK
  <2>1. /\ state \in [Family -> {"unborn"}] /\ holds \in [Family -> {{}}]
        /\ job = {} /\ channel = {} /\ finished = {}
    OBVIOUS
  <2>2. /\ written \in [Streams -> {0}] /\ captured \in [Streams -> {0}]
        /\ worker \in [Workers -> {"absent"}] /\ verdict \in [Workers -> {"none"}]
    OBVIOUS
  <2>3. failure = FALSE /\ status = FALSE /\ late = FALSE /\ leaked = FALSE /\ taken \in BOOLEAN
    OBVIOUS
  <2>4. pc = "prepare" /\ result = "none"
    OBVIOUS
  <2>5. /\ state \in [Family -> {"unborn", "suspended", "live", "doomed", "dead"}]
        /\ job \subseteq Family /\ holds \in [Family -> SUBSET Workers]
        /\ channel \subseteq Workers /\ finished \subseteq Workers
    BY <2>1
  <2>6. /\ written \in [Streams -> Nat] /\ captured \in [Streams -> 0..(Limit + 1)]
        /\ worker \in [Workers -> {"absent", "between", "calling", "ended"}]
        /\ verdict \in [Workers -> {"none", "ok", "exceeded", "error"}]
    BY <2>2
  <2>7. /\ failure \in BOOLEAN /\ status \in BOOLEAN /\ late \in BOOLEAN /\ leaked \in BOOLEAN
    BY <2>3
  <2> QED BY <2>3, <2>4, <2>5, <2>6, <2>7, Zenon DEF TypeOK
<1>2. TreeInv
  BY DEF TreeInv
<1>3. WorkerInv
  BY DEF WorkerInv
<1>4. CallerInv
  BY DEF CallerInv
<1> QED BY <1>1, <1>2, <1>3, <1>4 DEF Inv

\* Cancelling threads keeps the types of what they share with the caller.
LEMMA CancelType ==
    ASSUME TypeOK, NEW targets \in SUBSET Workers, Cancel(targets)
    PROVE  /\ worker' \in [Workers -> {"absent", "between", "calling", "ended"}]
           /\ verdict' \in [Workers -> {"none", "ok", "exceeded", "error"}]
           /\ channel' \subseteq Workers /\ captured' = captured
  BY DEF TypeOK, Cancel

\* So does a report.
LEMMA ReportType ==
    ASSUME TypeOK, NEW w \in Workers, NEW said \in {"ok", "exceeded", "error"}, Report(w, said)
    PROVE  /\ worker' \in [Workers -> {"absent", "between", "calling", "ended"}]
           /\ verdict' \in [Workers -> {"none", "ok", "exceeded", "error"}]
           /\ channel' \subseteq Workers
  BY DEF TypeOK, Report

\* Every step keeps the types.
LEMMA TypeStep ==
    TypeOK /\ (\A s \in Streams : captured[s] <= written[s]) /\ [Next]_vars => TypeOK'
<1> SUFFICES ASSUME TypeOK, \A s \in Streams : captured[s] <= written[s], [Next]_vars PROVE TypeOK'
  OBVIOUS
<1> USE JobAssumption DEF TypeOK, tree, threads, caller
<1>1. CASE UNCHANGED vars
  BY <1>1 DEF vars
<1>2. CASE Environment
  <2>1. ASSUME NEW p \in Family, NEW q \in Family, Fork(p, q) PROVE TypeOK'
    BY <2>1 DEF Fork
  <2>2. ASSUME NEW p \in Family, Die(p) PROVE TypeOK'
    BY <2>2 DEF Die
  <2>5. ASSUME NEW p \in Family, ReadInput(p) PROVE TypeOK'
    BY <2>5 DEF ReadInput
  <2>3. ASSUME NEW p \in Family, NEW s \in Streams, Write(p, s) PROVE TypeOK'
    BY <2>3 DEF Write
  <2>4. ASSUME NEW p \in Family, NEW end \in Workers, ClosePipe(p, end) PROVE TypeOK'
    BY <2>4 DEF ClosePipe
  <2> QED BY <1>2, <2>1, <2>2, <2>3, <2>4, <2>5 DEF Environment
<1>3. CASE Progress
  <2>1. ASSUME NEW w \in Workers, Call(w) PROVE TypeOK'
    BY <2>1 DEF Call
  <2>2. ASSUME NEW s \in Streams, ReadSome(s) PROVE TypeOK'
    <3> DEFINE unread == written[s] - captured[s]
               room == Limit + 1 - captured[s]
               count == IF unread < room THEN unread ELSE room
    <3>1. captured' = [captured EXCEPT ![s] = @ + count] /\ (unread > 0 \/ ~Held(s))
      BY <2>2 DEF ReadSome
    <3>2. UNCHANGED <<tree, caller>>
      BY <2>2 DEF ReadSome
    <3>3. \/ worker' = [worker EXCEPT ![s] = "between"] /\ UNCHANGED <<verdict, channel>>
          \/ Report(s, "ok") \/ Report(s, "exceeded")
      BY <2>2 DEF ReadSome
    <3>4. captured[s] + count \in 0..(Limit + 1)
      OBVIOUS
    <3>5. captured' \in [Streams -> 0..(Limit + 1)]
      BY <3>1, <3>4
    <3>6. CASE worker' = [worker EXCEPT ![s] = "between"] /\ UNCHANGED <<verdict, channel>>
      BY <3>2, <3>5, <3>6
    <3>7. CASE Report(s, "ok") \/ Report(s, "exceeded")
      <4>1. /\ worker' \in [Workers -> {"absent", "between", "calling", "ended"}]
            /\ verdict' \in [Workers -> {"none", "ok", "exceeded", "error"}]
            /\ channel' \subseteq Workers
        BY <3>7, ReportType
      <4> QED BY <3>2, <3>5, <4>1
    <3> QED BY <3>3, <3>6, <3>7
  <2>3. CASE WriteInput
    BY <2>3 DEF WriteInput, Report
  <2> QED BY <1>3, <2>1, <2>2, <2>3 DEF Progress
<1>4. CASE Step
  <2>1. CASE CreateJob \/ Assign \/ Wait
    BY <2>1 DEF CreateJob, Assign, Wait, Goto, Return
  <2>7. CASE Spawn
    BY <2>7 DEF Spawn, Goto
  <2>8. CASE Resume
    BY <2>8 DEF Resume, Goto
  <2>2. CASE ReceiveOrTimeout
    BY <2>2 DEF ReceiveOrTimeout, Goto, Receive
  <2>3. CASE Poll
    BY <2>3 DEF Poll
  <2>4. CASE Fail
    BY <2>4, CancelType DEF Fail, Kill
  <2>5. CASE Reap \/ ReceiveMore \/ JoinReported
    BY <2>5 DEF Reap, ReceiveMore, JoinReported, Return, Receive
  <2>6. CASE Finish
    BY <2>6 DEF Finish, Return, Kill
  <2> QED BY <1>4, <2>1, <2>2, <2>3, <2>4, <2>5, <2>6, <2>7, <2>8 DEF Step
<1>5. CASE Fails
  <2>1. CASE FreshStateFails \/ CreateFails \/ PollFails
    BY <2>1 DEF FreshStateFails, CreateFails, PollFails, Goto, Return
  <2>2. CASE AssignFails
    BY <2>2 DEF AssignFails, Goto, Kill
  <2>3. CASE ResumeFails
    BY <2>3, CancelType DEF ResumeFails, Goto, Kill
  <2>4. ASSUME NEW w \in Workers, WorkerFails(w) PROVE TypeOK'
    BY <2>4 DEF WorkerFails, Report
  <2> QED BY <1>5, <2>1, <2>2, <2>3, <2>4 DEF Fails
<1>6. CASE TimePasses
  BY <1>6 DEF TimePasses
<1> QED BY <1>1, <1>2, <1>3, <1>4, <1>5, <1>6 DEF Next

-----------------------------------------------------------------------------
(* Containment.                                                            *)

\* What processes do keeps the tree in the job, and revives nothing.
LEMMA TreeEnvironment == TypeOK /\ TreeInv /\ Environment => TreeInv'
<1> SUFFICES ASSUME TypeOK, TreeInv, Environment PROVE TreeInv'
  OBVIOUS
<1> USE JobAssumption DEF TypeOK, TreeInv, threads, caller
<1>1. ASSUME NEW p \in Family, NEW q \in Family, Fork(p, q) PROVE TreeInv'
  BY <1>1 DEF Fork
<1>2. ASSUME NEW p \in Family, Die(p) PROVE TreeInv'
  BY <1>2 DEF Die
<1>3. CASE UNCHANGED <<state, job, pc>>
  BY <1>3
<1>4. ASSUME NEW p \in Family, ReadInput(p) PROVE UNCHANGED <<state, job, pc>>
  BY <1>4 DEF ReadInput
<1>5. ASSUME NEW p \in Family, NEW s \in Streams, Write(p, s) PROVE UNCHANGED <<state, job, pc>>
  BY <1>5 DEF Write
<1>6. ASSUME NEW p \in Family, NEW end \in Workers, ClosePipe(p, end) PROVE UNCHANGED <<state, job, pc>>
  BY <1>6 DEF ClosePipe
<1> QED BY <1>1, <1>2, <1>3, <1>4, <1>5, <1>6 DEF Environment

\* Every step of the caller does.
LEMMA TreeStep == TypeOK /\ TreeInv /\ (Step \/ Fails) => TreeInv'
<1> SUFFICES ASSUME TypeOK, TreeInv, Step \/ Fails PROVE TreeInv'
  OBVIOUS
<1> USE JobAssumption DEF TypeOK, TreeInv, tree, threads, Goto, Return
<1>1. CASE CreateJob \/ FreshStateFails \/ CreateFails \/ Wait \/ PollFails
  BY <1>1 DEF CreateJob, FreshStateFails, CreateFails, Wait, PollFails
<1>2. CASE Spawn
  BY <1>2 DEF Spawn
<1>3. CASE Assign
  BY <1>3 DEF Assign
<1>4. CASE AssignFails
  BY <1>4 DEF AssignFails, Kill
<1>5. CASE Resume
  BY <1>5 DEF Resume
<1>6. CASE ResumeFails
  BY <1>6 DEF ResumeFails, Kill
<1>7. CASE ReceiveOrTimeout
  BY <1>7 DEF ReceiveOrTimeout
<1>8. CASE Poll
  BY <1>8 DEF Poll
<1>9. CASE Fail
  BY <1>9 DEF Fail, Kill
<1>10. CASE Reap
  BY <1>10 DEF Reap
<1>11. CASE ReceiveMore \/ JoinReported
  BY <1>11 DEF ReceiveMore, JoinReported
<1>12. CASE Finish
  BY <1>12 DEF Finish, Kill
<1>13. ASSUME NEW w \in Workers, WorkerFails(w) PROVE TreeInv'
  BY <1>13 DEF WorkerFails, caller
<1> QED BY <1>1, <1>2, <1>3, <1>4, <1>5, <1>6, <1>7, <1>8, <1>9, <1>10, <1>11, <1>12, <1>13
        DEF Step, Fails

\* So do the threads and the clock, which touch no process.
LEMMA TreeOthers == TreeInv /\ (Progress \/ TimePasses \/ UNCHANGED vars) => TreeInv'
<1> SUFFICES ASSUME TreeInv, Progress \/ TimePasses \/ UNCHANGED vars PROVE TreeInv'
  OBVIOUS
<1>1. ASSUME NEW w \in Workers, Call(w) PROVE UNCHANGED <<state, job, pc>>
  BY <1>1 DEF Call, tree, caller
<1>2. ASSUME NEW s \in Streams, ReadSome(s) PROVE UNCHANGED <<state, job, pc>>
  BY <1>2 DEF ReadSome, tree, caller
<1>3. CASE WriteInput \/ TimePasses \/ UNCHANGED vars
  BY <1>3 DEF WriteInput, TimePasses, vars, tree, caller, TreeInv
<1>4. CASE UNCHANGED <<state, job, pc>>
  BY <1>4 DEF TreeInv
<1> QED BY <1>1, <1>2, <1>3, <1>4 DEF Progress

-----------------------------------------------------------------------------
(* Output.                                                                 *)

Early == {"prepare", "spawn", "assign"}

\* What one thread has reported about its pipe.
ReaderInv(s) ==
    /\ captured[s] <= written[s]
    /\ worker[s] # "ended" => captured[s] <= Limit
    /\ verdict[s] = "ok" => captured[s] = written[s] /\ captured[s] <= Limit /\ ~Held(s)

\* No process gets hold of a pipe that nobody holds.
LEMMA HeldShrinks ==
    ASSUME TypeOK, Environment, NEW end \in Workers, Held(end)'
    PROVE  Held(end)
<1>1. ASSUME NEW p \in Family, NEW q \in Family, Fork(p, q) PROVE Held(end)
  BY <1>1 DEF Fork, Held, TypeOK
<1>2. ASSUME NEW p \in Family, Die(p) PROVE Held(end)
  BY <1>2 DEF Die, Held, TypeOK
<1>3. ASSUME NEW p \in Family, ReadInput(p) PROVE Held(end)
  BY <1>3 DEF ReadInput, Held
<1>4. ASSUME NEW p \in Family, NEW s \in Streams, Write(p, s) PROVE Held(end)
  BY <1>4 DEF Write, Held
<1>5. ASSUME NEW p \in Family, NEW e \in Workers, ClosePipe(p, e) PROVE Held(end)
  BY <1>5 DEF ClosePipe, Held, TypeOK
<1> QED BY <1>1, <1>2, <1>3, <1>4, <1>5 DEF Environment

\* What processes do spoils no report.
LEMMA WorkerEnvironment == TypeOK /\ WorkerInv /\ Environment => WorkerInv'
<1> SUFFICES ASSUME TypeOK, WorkerInv, Environment PROVE WorkerInv'
  OBVIOUS
<1>1. UNCHANGED <<worker, captured, verdict, pc>>
  BY DEF Environment, Fork, Die, ReadInput, Write, ClosePipe, threads, caller
<1>2. \A s \in Streams : written'[s] >= written[s]
  BY DEF Environment, Fork, Die, ReadInput, Write, ClosePipe, TypeOK
<1>3. ASSUME NEW s \in Streams, ~Held(s) PROVE written'[s] = written[s]
  BY <1>3 DEF Environment, Fork, Die, ReadInput, Write, ClosePipe, TypeOK, Held
<1>4. taken => taken'
  BY DEF Environment, Fork, Die, ReadInput, Write, ClosePipe
<1>5. \A w \in Workers : ~Held(w) => ~Held(w)'
  BY HeldShrinks
<1>6. \A s \in Streams : captured[s] \in Int /\ written[s] \in Int /\ written'[s] \in Int
  BY DEF Environment, Fork, Die, ReadInput, Write, ClosePipe, TypeOK
<1>7. \A s \in Streams : ReaderInv(s)'
  BY <1>1, <1>2, <1>3, <1>5, <1>6 DEF WorkerInv, ReaderInv
<1>8. InputExpected /\ verdict'["stdin"] = "ok" => taken' \/ ~Held("stdin")'
  BY <1>1, <1>4, <1>5, JobAssumption DEF WorkerInv
<1> QED BY <1>1, <1>7, <1>8 DEF WorkerInv, ReaderInv

\* A step that touches no pipe, no thread and no capture.
LEMMA WorkerFrame ==
    ASSUME WorkerInv, UNCHANGED <<holds, written, taken, worker, captured, verdict>>,
           pc' \in Early => pc \in Early
    PROVE  WorkerInv'
  BY DEF WorkerInv, Early, Held

\* Aborted calls report an error.
LEMMA WorkerCancel ==
    ASSUME TypeOK, WorkerInv, NEW targets \in SUBSET Workers, Cancel(targets),
           UNCHANGED <<holds, written, taken>>, pc' \notin Early
    PROVE  WorkerInv'
<1>1. PICK aborted \in SUBSET {w \in targets : worker[w] = "calling"} :
        /\ worker' = [w \in Workers |-> IF w \in aborted THEN "ended" ELSE worker[w]]
        /\ verdict' = [w \in Workers |-> IF w \in aborted THEN "error" ELSE verdict[w]]
        /\ UNCHANGED captured
  BY DEF Cancel
<1>2. \A w \in Workers : verdict'[w] # "none" => worker'[w] = "ended"
  BY <1>1 DEF WorkerInv
<1>3. \A s \in Streams : ReaderInv(s)'
  BY <1>1 DEF WorkerInv, ReaderInv, Held
<1>4. InputExpected /\ verdict'["stdin"] = "ok" => taken' \/ ~Held("stdin")'
  BY <1>1 DEF WorkerInv, Held
<1> QED BY <1>2, <1>3, <1>4 DEF WorkerInv, ReaderInv, Early

\* A thread's own report.
LEMMA WorkerReport ==
    ASSUME TypeOK, WorkerInv, NEW w \in Workers, worker[w] = "calling",
           NEW said \in {"ok", "exceeded", "error"}, Report(w, said),
           UNCHANGED <<holds, written, taken, pc>>,
           \A s \in Streams : s # w => captured'[s] = captured[s],
           w \in Streams => captured'[w] <= written[w],
           w \in Streams /\ said = "ok" => captured'[w] = written[w] /\ captured'[w] <= Limit /\ ~Held(w),
           w = "stdin" /\ said = "ok" => taken \/ ~Held("stdin")
    PROVE  WorkerInv'
<1>1. /\ worker' = [worker EXCEPT ![w] = "ended"] /\ DOMAIN worker = Workers
      /\ verdict' = [verdict EXCEPT ![w] = said] /\ DOMAIN verdict = Workers
  BY DEF Report, TypeOK
<1>2. pc \notin Early
  BY DEF WorkerInv, Early
<1>3. \A v \in Workers : verdict'[v] # "none" => worker'[v] = "ended"
  BY <1>1 DEF WorkerInv
<1>4. \A s \in Streams : ReaderInv(s)'
  BY <1>1 DEF WorkerInv, ReaderInv, Held
<1>5. InputExpected /\ verdict'["stdin"] = "ok" => taken' \/ ~Held("stdin")'
  BY <1>1 DEF WorkerInv, Held
<1> QED BY <1>2, <1>3, <1>4, <1>5 DEF WorkerInv, ReaderInv, Early

\* One read keeps a capture within what was written and the sentinel.
LEMMA WorkerReads ==
    ASSUME TypeOK, WorkerInv, NEW s \in Streams, ReadSome(s)
    PROVE  WorkerInv'
<1> DEFINE unread == written[s] - captured[s]
           room == Limit + 1 - captured[s]
           count == IF unread < room THEN unread ELSE room
<1>1. /\ captured' = [captured EXCEPT ![s] = @ + count] /\ (unread > 0 \/ ~Held(s))
      /\ worker[s] = "calling" /\ UNCHANGED <<holds, written, taken, pc>>
  BY DEF ReadSome, tree, caller
<1>2. \/ unread = 0 /\ Report(s, "ok")
      \/ unread # 0 /\ count = room /\ Report(s, "exceeded")
      \/ /\ unread # 0 /\ count # room
         /\ worker' = [worker EXCEPT ![s] = "between"] /\ UNCHANGED <<verdict, channel>>
  BY DEF ReadSome
<1>3. /\ captured[s] \in Int /\ written[s] \in Int /\ Limit \in Int
      /\ captured[s] <= written[s] /\ captured[s] <= Limit
  BY <1>1, JobAssumption DEF WorkerInv, TypeOK
<1>4. captured'[s] = captured[s] + count /\ \A r \in Streams : r # s => captured'[r] = captured[r]
  BY <1>1 DEF TypeOK
<1>5. /\ captured'[s] <= written[s]
      /\ unread = 0 => captured'[s] = written[s] /\ captured'[s] <= Limit /\ ~Held(s)
      /\ unread # 0 /\ count # room => captured'[s] <= Limit
  BY <1>1, <1>3, <1>4
<1>6. CASE unread = 0 /\ Report(s, "ok")
  BY <1>1, <1>4, <1>5, <1>6, WorkerReport
<1>7. CASE Report(s, "exceeded")
  BY <1>1, <1>4, <1>5, <1>7, WorkerReport
<1>8. CASE /\ unread # 0 /\ count # room
           /\ worker' = [worker EXCEPT ![s] = "between"] /\ UNCHANGED <<verdict, channel>>
  <2>1. verdict[s] = "none" /\ pc \notin Early
    BY <1>1 DEF WorkerInv, Early
  <2>2. worker'[s] = "between" /\ \A w \in Workers : w # s => worker'[w] = worker[w]
    BY <1>8 DEF TypeOK
  <2>3. \A r \in Streams : ReaderInv(r)'
    BY <1>1, <1>4, <1>5, <1>8, <2>1, <2>2 DEF WorkerInv, ReaderInv, Held
  <2>4. \A w \in Workers : verdict'[w] # "none" => worker'[w] = "ended"
    BY <1>8, <2>1, <2>2 DEF WorkerInv
  <2>5. InputExpected /\ verdict'["stdin"] = "ok" => taken' \/ ~Held("stdin")'
    BY <1>1, <1>8 DEF WorkerInv, Held
  <2> QED BY <1>1, <2>1, <2>3, <2>4, <2>5 DEF WorkerInv, ReaderInv, Early
<1> QED BY <1>2, <1>6, <1>7, <1>8

\* Every step keeps what the reports say.
LEMMA WorkerStep == TypeOK /\ WorkerInv /\ [Next]_vars => WorkerInv'
<1> SUFFICES ASSUME TypeOK, WorkerInv, [Next]_vars PROVE WorkerInv'
  OBVIOUS
<1> USE DEF tree, threads, caller
<1>1. CASE Environment
  BY <1>1, WorkerEnvironment
<1>2. CASE Progress
  <2>1. ASSUME NEW w \in Workers, Call(w) PROVE WorkerInv'
    <3>1. worker[w] = "between" /\ worker' = [worker EXCEPT ![w] = "calling"] /\ DOMAIN worker = Workers
      BY <2>1 DEF Call, TypeOK
    <3>2. UNCHANGED <<holds, written, taken, captured, verdict, pc>>
      BY <2>1 DEF Call
    <3>3. pc \notin Early
      BY <3>1 DEF WorkerInv, Early
    <3> QED BY <3>1, <3>2, <3>3 DEF WorkerInv, Held, Early
  <2>2. CASE WriteInput
    BY <2>2, WorkerReport DEF WriteInput, WorkerInv
  <2> QED BY <1>2, <2>1, <2>2, WorkerReads DEF Progress
<1>3. CASE Step
  <2>1. CASE Spawn
    BY <2>1, JobAssumption DEF Spawn, Goto, WorkerInv, Held
  <2>2. CASE Assign
    BY <2>2 DEF Assign, Goto, WorkerInv, Held
  <2>3. CASE Fail
    <3>1. pc' \notin Early /\ UNCHANGED <<holds, written, taken>> /\ Cancel(Workers \ finished)
      BY <2>3 DEF Fail, Early
    <3> QED BY <3>1, WorkerCancel
  <2>4. CASE CreateJob \/ Wait \/ Resume \/ ReceiveOrTimeout \/ Poll \/ Reap \/ ReceiveMore \/ JoinReported \/ Finish
    <3>1. UNCHANGED <<holds, written, taken, worker, captured, verdict>>
      BY <2>4 DEF CreateJob, Wait, Resume, ReceiveOrTimeout, Receive, Poll, Reap, ReceiveMore, JoinReported, Finish
    <3>2. pc' \in Early => pc \in Early
      BY <2>4 DEF CreateJob, Wait, Resume, ReceiveOrTimeout, Poll, Reap, ReceiveMore, JoinReported, Finish,
                  Goto, Return, Early
    <3> QED BY <3>1, <3>2, WorkerFrame
  <2> QED BY <1>3, <2>1, <2>2, <2>3, <2>4 DEF Step
<1>4. CASE Fails
  <2>1. CASE FreshStateFails \/ CreateFails \/ AssignFails \/ PollFails
    <3>1. UNCHANGED <<holds, written, taken, worker, captured, verdict>>
      BY <2>1 DEF FreshStateFails, CreateFails, AssignFails, PollFails
    <3>2. pc' \in Early => pc \in Early
      BY <2>1 DEF FreshStateFails, CreateFails, AssignFails, PollFails, Goto, Return, Early
    <3> QED BY <3>1, <3>2, WorkerFrame
  <2>2. CASE ResumeFails
    <3>1. pc' \notin Early /\ UNCHANGED <<holds, written, taken>> /\ Cancel(Workers)
      BY <2>2 DEF ResumeFails, Goto, Early
    <3> QED BY <3>1, WorkerCancel
  <2>3. ASSUME NEW w \in Workers, WorkerFails(w) PROVE WorkerInv'
    BY <2>3, WorkerReport DEF WorkerFails, WorkerInv
  <2> QED BY <1>4, <2>1, <2>2, <2>3 DEF Fails
<1>5. CASE TimePasses \/ UNCHANGED vars
  BY <1>5, WorkerFrame DEF TimePasses, vars
<1> QED BY <1>1, <1>2, <1>3, <1>4, <1>5 DEF Next

\* Every step keeps the grounds on which the caller succeeds.
LEMMA CallerStep == TypeOK /\ WorkerInv /\ CallerInv /\ [Next]_vars => CallerInv'
<1> SUFFICES ASSUME TypeOK, WorkerInv, CallerInv, [Next]_vars PROVE CallerInv'
  OBVIOUS
<1> USE DEF tree, threads, caller
<1>1. ASSUME UNCHANGED <<pc, failure, finished, result>>,
             \A w \in Workers : worker[w] = "ended" => verdict'[w] = verdict[w]
      PROVE  CallerInv'
  <2>1. \A w \in Workers : verdict[w] = "ok" => verdict'[w] = "ok"
    BY <1>1 DEF WorkerInv
  <2> QED BY <1>1, <2>1 DEF CallerInv, TypeOK
<1>2. CASE Environment
  <2>1. UNCHANGED <<pc, failure, finished, result, verdict>>
    BY <1>2 DEF Environment, Fork, Die, ReadInput, Write, ClosePipe
  <2> QED BY <1>1, <2>1
<1>3. CASE Progress
  <2>1. ASSUME NEW w \in Workers, Call(w) PROVE CallerInv'
    BY <1>1, <2>1 DEF Call
  <2>2. ASSUME NEW s \in Streams, ReadSome(s) PROVE CallerInv'
    <3>1. /\ worker[s] = "calling" /\ UNCHANGED <<pc, failure, finished, result>>
          /\ UNCHANGED verdict \/ Report(s, "ok") \/ Report(s, "exceeded")
      BY <2>2 DEF ReadSome
    <3>2. \A w \in Workers : w # s => verdict'[w] = verdict[w]
      BY <3>1 DEF Report, TypeOK
    <3> QED BY <1>1, <3>1, <3>2
  <2>3. CASE WriteInput
    <3>1. /\ InputExpected /\ worker["stdin"] = "calling" /\ UNCHANGED <<pc, failure, finished, result>>
          /\ Report("stdin", "ok")
      BY <2>3 DEF WriteInput
    <3>2. \A w \in Workers : w # "stdin" => verdict'[w] = verdict[w]
      BY <3>1 DEF Report, TypeOK
    <3> QED BY <1>1, <3>1, <3>2
  <2> QED BY <1>3, <2>1, <2>2, <2>3 DEF Progress
<1>4. CASE Step
  <2>1. CASE CreateJob \/ Spawn \/ Assign
    BY <2>1 DEF CreateJob, Spawn, Assign, Goto, CallerInv
  <2>7. CASE Wait
    BY <2>7 DEF Wait, Return, CallerInv
  <2>8. CASE Resume
    BY <2>8 DEF Resume, Goto, CallerInv
  <2>2. CASE ReceiveOrTimeout
    <3>1. pc = "receive" /\ pc' = "poll" /\ UNCHANGED <<verdict, result>>
      BY <2>2 DEF ReceiveOrTimeout, Goto, Receive
    <3>2. \/ \E w \in channel : finished' = finished \cup {w} /\ failure' = (failure \/ verdict[w] # "ok")
          \/ UNCHANGED <<finished, failure>>
      BY <2>2 DEF ReceiveOrTimeout, Receive
    <3>3. ~failure' => ~failure
      BY <3>2
    <3>4. ~failure' => \A w \in finished' : verdict[w] = "ok"
      BY <3>1, <3>2, <3>3 DEF CallerInv
    <3> QED BY <3>1, <3>4 DEF CallerInv
  <2>3. CASE Poll
    BY <2>3 DEF Poll, CallerInv
  <2>4. CASE Fail
    BY <2>4 DEF Fail, CallerInv
  <2>5. CASE Reap \/ ReceiveMore \/ JoinReported
    BY <2>5 DEF Reap, ReceiveMore, JoinReported, Return, Receive, CallerInv
  <2>6. CASE Finish
    BY <2>6 DEF Finish, Return, CallerInv
  <2> QED BY <1>4, <2>1, <2>2, <2>3, <2>4, <2>5, <2>6, <2>7, <2>8 DEF Step
<1>5. CASE Fails
  <2>1. CASE FreshStateFails \/ CreateFails \/ PollFails \/ AssignFails
    BY <2>1 DEF FreshStateFails, CreateFails, PollFails, AssignFails, Goto, Return, CallerInv
  <2>2. CASE ResumeFails
    BY <2>2 DEF ResumeFails, Goto, CallerInv
  <2>3. ASSUME NEW w \in Workers, WorkerFails(w) PROVE CallerInv'
    <3>1. worker[w] = "calling" /\ UNCHANGED <<pc, failure, finished, result>> /\ Report(w, "error")
      BY <2>3 DEF WorkerFails
    <3>2. \A v \in Workers : v # w => verdict'[v] = verdict[v]
      BY <3>1 DEF Report, TypeOK
    <3> QED BY <1>1, <3>1, <3>2
  <2> QED BY <1>5, <2>1, <2>2, <2>3 DEF Fails
<1>6. CASE TimePasses \/ UNCHANGED vars
  BY <1>1, <1>6 DEF TimePasses, vars
<1> QED BY <1>2, <1>3, <1>4, <1>5, <1>6 DEF Next

-----------------------------------------------------------------------------
(* The theorems.                                                           *)

\* The whole invariant is inductive.
LEMMA InvStep == Inv /\ [Next]_vars => Inv'
<1> SUFFICES ASSUME Inv, [Next]_vars PROVE Inv'
  OBVIOUS
<1>1. TypeOK'
  BY TypeStep DEF Inv, WorkerInv
<1>2. TreeInv'
  BY TreeEnvironment, TreeStep, TreeOthers DEF Inv, Next
<1>3. WorkerInv' /\ CallerInv'
  BY WorkerStep, CallerStep DEF Inv
<1> QED BY <1>1, <1>2, <1>3 DEF Inv

\* Every reachable state satisfies it.
LEMMA Always == Spec => []Inv
  BY InitInv, InvStep, PTL DEF Spec

\* Types, and the sentinel bound of every capture, for any limit and process
\* tree (read_bounded_pipe never keeps more than one byte above the limit).
THEOREM TypeCorrect == Spec => []TypeOK
<1>1. Inv => TypeOK
  BY DEF Inv
<1> QED BY <1>1, Always, PTL

\* However the call ends, nothing of its tree goes on running: the child joins
\* the job before it runs, so that whatever it creates dies with the job.
THEOREM ContainedByJob == Spec => []JobContained
<1>1. Inv => JobContained
  BY DEF Inv, TreeInv, JobContained
<1> QED BY <1>1, Always, PTL

\* A success is complete: each thread has reported that its pipe is at its end
\* or its input has been read, and nobody can write any more.
THEOREM OutputOfJob == Spec => []JobOutput
<1>1. Inv => JobOutput
  <2> SUFFICES ASSUME Inv, result = "ok" PROVE JobOutput
    BY DEF JobOutput
  <2>1. \A w \in Workers : verdict[w] = "ok"
    BY DEF Inv, CallerInv
  <2> QED BY <2>1 DEF Inv, WorkerInv, JobOutput
<1> QED BY <1>1, Always, PTL
=============================================================================
