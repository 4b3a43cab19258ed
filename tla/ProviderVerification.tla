------------------------- MODULE ProviderVerification -------------------------
(***************************************************************************)
(* Provider-backed verification: qualification of one provider instance,   *)
(* binding of public keys to its handles, and verification calls that use  *)
(* them, beside calls of the built-in verifier.  Every call into the       *)
(* provider is a step of its own, during which other calls make progress:  *)
(* other threads for the synchronous interface, other futures for the      *)
(* awaited one, which can also be dropped.                                 *)
(*                                                                         *)
(* The provider is external code.  Each of its slots is either right or    *)
(* has one of Faults; besides, it may fail now and then.                   *)
(***************************************************************************)
EXTENDS VerificationRules, Sequences

\* Kinds of valid signature; a slot may be at fault by rejecting one kind.
Classes == {"plain", "mixed_R", "mixed_A", "low", "high"}
\* Those a genuine signature of the algorithm may be of.
ClassesOf(alg) == IF alg = "ed25519" THEN {"plain", "mixed_R", "mixed_A"} ELSE {"low", "high"}

CONSTANTS
    Calls,        \* verification calls
    Universe,     \* per call, the requests it may make, before keys are chosen
    AppKeys,      \* [alg, value] of the keys callers bind
    Faults,       \* what may be wrong with a slot of the provider
    Reporting,    \* whether operational failures may be reported as what they are
    Qualifies,    \* whether the caller may choose qualified, unqualified keys
    MaxHandles,   \* bound: handles the factory makes, qualification included
    MaxBinds,     \* bound: keys callers hold or wait for
    MaxOutages    \* bound: operational failures

ASSUME ProviderAssumption ==
    /\ Faults \subseteq {"none", "unsupported", "rejects_all", "accepts_all", "accept_any",
                         "cache_first", "retarget", "invalidate_later", "ignores_message"}
                        \cup Classes
    /\ Reporting \subseteq BOOLEAN /\ Qualifies \subseteq BOOLEAN
    /\ MaxHandles \in Nat /\ MaxBinds \in Nat /\ MaxOutages \in Nat
    /\ \A k \in AppKeys : k = [alg |-> k.alg, value |-> k.value] /\ k.alg \in Algs
    /\ \A c \in Calls : \A q \in Universe[c] :
         /\ IsArtifact(q.artifact)
         /\ KnownAlgorithm(q.artifact.alg)
              => q.artifact.signature.class \in ClassesOf(AlgorithmOf(q.artifact.alg))
         /\ {q.staged, q.allowUnsigned, q.oversized, q.params} \subseteq BOOLEAN
         /\ q.api \in {"builtin", "sync", "async"}
         /\ q.reader \in Forms \cup {"any"} /\ (q.api # "builtin" => q.reader = "any")
         /\ q.enabled \subseteq Algs
         /\ q.oversized => q.staged \/ q.api = "builtin"

VARIABLES
    fault,     \* what is wrong with each slot of the provider
    reports,   \* it tells its failures apart from mismatches
    outages,   \* operational failures so far
    handles,   \* the handles its factory has made, in order: [alg, value]
    lost,      \* handles it can no longer use
    slot,      \* the slot under qualification, "ready", or "dropped"
    step,      \* next step of that slot's suite
    live,      \* the suite's two handles
    status,    \* verdict of qualification for each slot
    held,      \* handles callers hold as bound keys
    binding,   \* bind calls the provider has not answered: [alg, value]
    phase,     \* of each verification call
    request,   \* what it was asked, keys included
    pre,       \* the pre-verification result it works from
    work,      \* the work item it owns across the provider call
    answer,    \* the provider's outcome, once there is one
    verdict    \* what the caller got

providerVars == <<fault, reports>>
suiteVars == <<slot, step, live, status>>
bindVars == <<held, binding>>
callVars == <<phase, request, pre, work, answer, verdict>>
vars == <<fault, reports, outages, handles, lost, slot, step, live, status, held, binding,
          phase, request, pre, work, answer, verdict>>

-----------------------------------------------------------------------------
(* The provider.                                                           *)

Signature(key, message, class) == [key |-> key, message |-> message, class |-> class]

SameSlot(h) == {i \in 1..Len(handles) : handles[i].alg = handles[h].alg}

\* The handles whose keys handle h tries.
Targets(h) ==
    CASE fault[handles[h].alg] = "cache_first" -> {i \in SameSlot(h) : \A j \in SameSlot(h) : i <= j}
      [] fault[handles[h].alg] = "retarget" -> {i \in SameSlot(h) : \A j \in SameSlot(h) : j <= i}
      [] fault[handles[h].alg] = "accept_any" -> SameSlot(h)
      [] OTHER -> {h}

Accepts(h, signature, message) ==
    LET f == fault[handles[h].alg]
    IN  \/ f = "accepts_all"
        \/ /\ h \notin lost
           /\ f \notin {"rejects_all", signature.class}
           /\ f = "ignores_message" \/ signature.message = message
           /\ \E i \in Targets(h) : handles[i].value = signature.key

\* What verify_provider can return: the handle's opinion, or that the provider
\* failed, which the trait's default method cannot tell from a mismatch.
Answers(h, signature, message) ==
    {IF Accepts(h, signature, message) THEN "Verified" ELSE "SignatureMismatch"}
      \cup (IF outages < MaxOutages THEN {"failed"} ELSE {})

Reported(result) ==
    IF result # "failed" THEN result
    ELSE IF reports THEN "ProviderFailure" ELSE "SignatureMismatch"

\* The first handle of a slot, once used, invalidates the others.
Use(h, result) ==
    /\ outages' = IF result = "failed" THEN outages + 1 ELSE outages
    /\ lost' = IF /\ fault[handles[h].alg] = "invalidate_later"
                  /\ \A i \in SameSlot(h) : h <= i
               THEN lost \cup (SameSlot(h) \ {h}) ELSE lost

\* The factory makes a handle, or refuses.
MakeHandle(alg, value) ==
    /\ fault[alg] # "unsupported"
    /\ handles' = Append(handles, [alg |-> alg, value |-> value])
    /\ UNCHANGED outages

RefuseHandle(alg) ==
    /\ \/ fault[alg] = "unsupported" /\ UNCHANGED outages
       \/ outages < MaxOutages /\ outages' = outages + 1
    /\ UNCHANGED handles

-----------------------------------------------------------------------------
(* Qualification.                                                          *)

Bind(name, value) == [op |-> "bind", handle |-> name, value |-> value]
Expect(name, signature, message, outcome) ==
    [op |-> "expect", handle |-> name, signature |-> signature, message |-> message,
     outcome |-> outcome]

Valid(name, signature) == Expect(name, signature, signature.message, "Verified")
Invalid(name, signature, message) == Expect(name, signature, message, "SignatureMismatch")

Rfc8032 == Signature("rfc8032", "empty", "plain")
MixedR == Signature("mixed_R", "r_message", "mixed_R")
MixedA == Signature("mixed_A", "a_message", "mixed_A")
Low == Signature("qualification", "p256", "low")
High == Signature("qualification", "p256", "high")
Alternate == Signature("alternate", "p256", "low")

Round(v) ==
    << Bind("later", v.key), Valid("later", v), Valid("first", Rfc8032),
       Invalid("later", Rfc8032, Rfc8032.message), Invalid("first", v, v.message),
       Valid("later", v) >>

\* Fault: no handle is asked about a key bound after it.
Ed25519SuiteOfRoundTrips ==
    << Bind("first", Rfc8032.key), Valid("first", Rfc8032), Invalid("first", Rfc8032, "not_empty"),
       Bind("later", MixedR.key), Valid("later", MixedR),
       Bind("later", MixedA.key), Valid("later", MixedA) >>

Ed25519Suite ==
    << Bind("first", Rfc8032.key), Valid("first", Rfc8032), Invalid("first", Rfc8032, "not_empty") >>
      \o Round(MixedR) \o Round(MixedA)

P256Suite ==
    << Bind("first", Low.key), Valid("first", Low), Valid("first", High),
       Invalid("first", Low, "different"),
       Bind("later", Alternate.key), Valid("later", Alternate),
       Valid("first", Low), Invalid("later", Low, Low.message),
       Valid("first", High), Invalid("later", High, High.message),
       Invalid("first", Alternate, Alternate.message),
       Invalid("later", Alternate, "different"), Valid("later", Alternate) >>

Suite(alg) == IF alg = "ed25519" THEN Ed25519Suite ELSE P256Suite

\* What a failed expectation is called.
Rejection(outcome) ==
    CASE outcome = "ProviderFailure" -> "ProviderFailure"
      [] outcome = "Verified" -> "InvalidSignatureAccepted"
      [] outcome = "SignatureMismatch" -> "ValidSignatureRejected"

\* Fault: a suite whose key cannot be bound starts over.
ConcludeOrRetry(result) ==
    /\ status' = [status EXCEPT ![slot] = result]
    /\ slot' = IF result = "KeyBindingFailed" THEN slot
               ELSE IF slot = "ed25519" THEN "p256" ELSE "ready"
    /\ step' = 1
    /\ live' = [first |-> 0, later |-> 0]

\* A slot's suite ends at its first failure; the other slot's still runs.
Conclude(result) ==
    /\ status' = [status EXCEPT ![slot] = result]
    /\ slot' = IF slot = "ed25519" THEN "p256" ELSE "ready"
    /\ step' = 1
    /\ live' = [first |-> 0, later |-> 0]

Continue ==
    IF step = Len(Suite(slot)) THEN Conclude("Qualified")
    ELSE step' = step + 1 /\ UNCHANGED <<slot, live, status>>

SuiteBinds ==
    /\ slot \in Algs
    /\ LET s == Suite(slot)[step] IN
         /\ s.op = "bind"
         /\ \/ /\ MakeHandle(slot, s.value)
               /\ step' = step + 1
               /\ live' = [live EXCEPT ![s.handle] = Len(handles) + 1]
               /\ UNCHANGED <<slot, status>>
            \/ RefuseHandle(slot) /\ Conclude("KeyBindingFailed")
    /\ UNCHANGED <<providerVars, lost, bindVars, callVars>>

SuiteVerifies ==
    /\ slot \in Algs
    /\ LET s == Suite(slot)[step] IN
         /\ s.op = "expect"
         /\ \E result \in Answers(live[s.handle], s.signature, s.message) :
              /\ Use(live[s.handle], result)
              /\ IF Reported(result) = s.outcome THEN Continue
                                                 ELSE Conclude(Rejection(Reported(result)))
    /\ UNCHANGED <<providerVars, handles, bindVars, callVars>>

\* The future of an awaited qualification is dropped, and the provider with it.
DropQualification ==
    /\ slot \in Algs
    /\ slot' = "dropped"
    /\ UNCHANGED <<providerVars, outages, handles, lost, step, live, status, bindVars, callVars>>

-----------------------------------------------------------------------------
(* Binding.  The code checks the key and the slot, then calls the factory. *)

Bindable(k) == k.value \notin Inadmissible /\ status[k.alg] \in {"Qualified", "unchecked"}

AskForHandle ==
    /\ slot = "ready"
    /\ Len(held) + Len(binding) < MaxBinds
    /\ Len(handles) + Len(binding) < MaxHandles
    /\ \E k \in AppKeys : Bindable(k) /\ binding' = Append(binding, k)
    /\ UNCHANGED <<providerVars, outages, handles, lost, suiteVars, held, callVars>>

Without(s, i) == SubSeq(s, 1, i - 1) \o SubSeq(s, i + 1, Len(s))

HandleArrives(i) ==
    /\ \/ /\ MakeHandle(binding[i].alg, binding[i].value)
          /\ held' = Append(held, Len(handles) + 1)
       \/ RefuseHandle(binding[i].alg) /\ UNCHANGED held
    /\ binding' = Without(binding, i)
    /\ UNCHANGED <<providerVars, lost, suiteVars, callVars>>

\* The bind future is dropped; the provider may have made the handle.
DropBind(i) ==
    /\ \/ MakeHandle(binding[i].alg, binding[i].value)
       \/ UNCHANGED <<outages, handles>>
    /\ binding' = Without(binding, i)
    /\ UNCHANGED <<providerVars, lost, suiteVars, held, callVars>>

-----------------------------------------------------------------------------
(* Verification calls.                                                     *)

BoundKeys ==
    {[alg |-> handles[held[i]].alg, value |-> handles[held[i]].value, handle |-> held[i]] :
       i \in 1..Len(held)}

\* Native keys are typed by algorithm; provider keys of both have one type, so
\* a caller can put one into the wrong slot.
KeysFor(api, alg) ==
    {NoKey} \cup
      (IF api = "builtin"
         THEN {[alg |-> k.alg, value |-> k.value, handle |-> 0] : k \in {j \in AppKeys : j.alg = alg}}
         ELSE BoundKeys)

Finish(c, result) ==
    /\ phase' = [phase EXCEPT ![c] = "done"]
    /\ verdict' = [verdict EXCEPT ![c] = result]

\* The synchronous first half of a call, which reaches the provider or not.
Proceed(c, q, seen) ==
    LET w == Admit(q, seen) IN
    /\ request' = [request EXCEPT ![c] = q]
    /\ pre' = [pre EXCEPT ![c] = seen]
    /\ work' = [work EXCEPT ![c] = w]
    /\ IF ~w.work THEN Finish(c, w.result)
       ELSE IF q.api = "builtin"
         THEN Finish(c, Classify(NativeOutcome(q.artifact, w.key), w.alg))
       ELSE phase' = [phase EXCEPT ![c] = "asked"] /\ UNCHANGED verdict
    /\ UNCHANGED answer

\* Keys are chosen from what the caller holds when the call that needs them starts.
WithKeys(q, ed, p2) ==
    [api |-> q.api, staged |-> q.staged, reader |-> q.reader, allowUnsigned |-> q.allowUnsigned,
     oversized |-> q.oversized, params |-> q.params, enabled |-> q.enabled,
     artifact |-> q.artifact, keys |-> [ed25519 |-> ed, p256 |-> p2]]

VerifyWhole(c) ==
    /\ phase[c] = "new"
    /\ \E q \in Universe[c], ed \in KeysFor("builtin", "ed25519") \cup BoundKeys,
          p2 \in KeysFor("builtin", "p256") \cup BoundKeys :
         /\ ~q.staged
         /\ ed \in KeysFor(q.api, "ed25519") /\ p2 \in KeysFor(q.api, "p256")
         /\ IF q.oversized
              THEN /\ Finish(c, Error("InputArtifactTooLarge"))
                   /\ request' = [request EXCEPT ![c] = WithKeys(q, ed, p2)]
                   /\ UNCHANGED <<pre, work, answer>>
              ELSE Proceed(c, WithKeys(q, ed, p2), PreVerify(q.artifact, FALSE))
    /\ UNCHANGED <<providerVars, outages, handles, lost, suiteVars, bindVars>>

ReadFirst(c) ==
    /\ phase[c] = "new"
    /\ \E q \in Universe[c] :
         /\ q.staged
         /\ request' = [request EXCEPT ![c] = WithKeys(q, NoKey, NoKey)]
         /\ IF q.oversized
              THEN Finish(c, Error("InputArtifactTooLarge")) /\ UNCHANGED pre
              ELSE /\ phase' = [phase EXCEPT ![c] = "read"]
                   /\ pre' = [pre EXCEPT ![c] = PreVerify(q.artifact, q.allowUnsigned)]
                   /\ UNCHANGED verdict
    /\ UNCHANGED <<providerVars, outages, handles, lost, suiteVars, bindVars, work, answer>>

VerifyRead(c) ==
    /\ phase[c] = "read"
    /\ \E ed \in KeysFor(request[c].api, "ed25519"), p2 \in KeysFor(request[c].api, "p256") :
         Proceed(c, WithKeys(request[c], ed, p2), pre[c])
    /\ UNCHANGED <<providerVars, outages, handles, lost, suiteVars, bindVars>>

\* The provider works on the payload and octets the work item holds.
ProviderAnswers(c) ==
    /\ phase[c] = "asked"
    /\ LET h == work[c].key.handle
           a == request[c].artifact
       IN  \E result \in Answers(h, a.signature, a.payload) :
             /\ Use(h, result)
             /\ answer' = [answer EXCEPT ![c] = Reported(result)]
    /\ phase' = [phase EXCEPT ![c] = "answered"]
    /\ UNCHANGED <<providerVars, handles, suiteVars, bindVars, request, pre, work, verdict>>

Resume(c) ==
    /\ phase[c] = "answered"
    /\ Finish(c, Classify(answer[c], work[c].alg))
    /\ UNCHANGED <<providerVars, outages, handles, lost, suiteVars, bindVars,
                   request, pre, work, answer>>

\* Entry points that return a future; the others block their thread.
Awaited(c) == request[c].api = "async"

\* The caller drops a pending future; the provider may still do the work.
DropCall(c) ==
    /\ phase[c] = "asked" /\ Awaited(c)
    /\ phase' = [phase EXCEPT ![c] = "dropped"]
    /\ \/ Use(work[c].key.handle, "ignored")
       \/ UNCHANGED <<outages, lost>>
    /\ UNCHANGED <<providerVars, handles, suiteVars, bindVars, request, pre, work, answer, verdict>>

-----------------------------------------------------------------------------
Nothing == [none |-> TRUE]

\* A caller either qualifies the provider or builds it unqualified.
Init ==
    /\ fault \in [Algs -> Faults]
    /\ reports \in Reporting
    /\ outages = 0 /\ handles = <<>> /\ lost = {}
    /\ \E qualify \in Qualifies :
         /\ slot = IF qualify THEN "ed25519" ELSE "ready"
         /\ status = [alg \in Algs |-> IF qualify THEN "pending" ELSE "unchecked"]
    /\ step = 1 /\ live = [first |-> 0, later |-> 0]
    /\ held = <<>> /\ binding = <<>>
    /\ phase = [c \in Calls |-> "new"]
    /\ request = [c \in Calls |-> Nothing]
    /\ pre = [c \in Calls |-> "none"]
    /\ work = [c \in Calls |-> Nothing]
    /\ answer = [c \in Calls |-> "none"]
    /\ verdict = [c \in Calls |-> Nothing]

Next ==
    \/ SuiteBinds \/ SuiteVerifies \/ DropQualification
    \/ AskForHandle
    \/ \E i \in 1..Len(binding) : HandleArrives(i) \/ DropBind(i)
    \/ \E c \in Calls : \/ VerifyWhole(c) \/ ReadFirst(c) \/ VerifyRead(c)
                        \/ ProviderAnswers(c) \/ Resume(c) \/ DropCall(c)

Spec == Init /\ [][Next]_vars

\* Qualification makes progress when the provider answers every call.
FairSpec == Spec /\ WF_vars(SuiteBinds) /\ WF_vars(SuiteVerifies)
                 /\ \A c \in Calls : WF_vars(ProviderAnswers(c)) /\ WF_vars(Resume(c))

-----------------------------------------------------------------------------
(* Correctness.                                                            *)

Results ==
    [kind: {"state", "error"}, alg: Algs \cup {"none"},
     name: {"Verified", "SignedButFailedVerification", "SignedButAlgorithmUnsupported",
            "MalformedAttemptedSigned", "KeyResolutionFailure", "Unsigned",
            "InvalidAlgorithmParameters", "InvalidPreVerifyResult", "InputArtifactTooLarge"}]

Rejections ==
    {"KeyBindingFailed", "ProviderFailure", "InvalidSignatureAccepted", "ValidSignatureRejected"}

Values == {k.value : k \in AppKeys}
            \cup {"rfc8032", "mixed_R", "mixed_A", "qualification", "alternate"}

Outcomes == {"Verified", "SignatureMismatch", "ProviderFailure"}

ServiceTypeOK ==
    /\ fault \in [Algs -> Faults] /\ reports \in Reporting
    /\ outages \in 0..MaxOutages
    /\ handles \in Seq([alg: Algs, value: Values])
    /\ lost \subseteq 1..Len(handles)

SuiteTypeOK ==
    /\ slot \in Algs \cup {"ready", "dropped"}
    /\ slot \in Algs => step \in 1..Len(Suite(slot))
    /\ live \in [first: 0..Len(handles), later: 0..Len(handles)]
    /\ status \in [Algs -> {"pending", "unchecked", "Qualified"} \cup Rejections]

BindTypeOK == held \in Seq(1..Len(handles)) /\ binding \in Seq(AppKeys)

CallTypeOK ==
    /\ phase \in [Calls -> {"new", "read", "asked", "answered", "done", "dropped"}]
    /\ answer \in [Calls -> Outcomes \cup {"none"}]
    /\ verdict \in [Calls -> Results \cup {Nothing}]
    /\ \A c \in Calls : /\ phase[c] = "answered" => answer[c] \in Outcomes
                        /\ phase[c] = "done" => verdict[c] \in Results

\* Type correctness: the suite never runs off its end, a caller never holds a
\* handle that was not made, and a finished call has a verdict.
TypeOK == ServiceTypeOK /\ SuiteTypeOK /\ BindTypeOK /\ CallTypeOK

\* The slot has a fault; rejecting a class of the other algorithm is none.
Wrong(alg) == fault[alg] # "none" /\ (fault[alg] \in Classes => fault[alg] \in ClassesOf(alg))

\* Operational failures were reported as such, so far.
Candid == reports \/ outages = 0

\* A slot that reused, retargeted or invalidated handles, accepted what it
\* must not or refused a required kind of signature is not Qualified, whatever
\* failed meanwhile and was reported as a failure.
QualifiedIsRight == \A alg \in Algs : status[alg] = "Qualified" /\ Candid => ~Wrong(alg)

\* "An operational failure remains distinct from a demonstrated
\* incompatibility": a slot is called incompatible only if it is, and a right
\* slot is rejected only because of a failure, whatever the other slot does.
RejectionIsHonest ==
    \A alg \in Algs :
      /\ status[alg] \in {"InvalidSignatureAccepted", "ValidSignatureRejected"} /\ Candid
           => Wrong(alg)
      /\ status[alg] = "ProviderFailure" => reports /\ outages > 0
      /\ slot = "ready" /\ outages = 0 /\ ~Wrong(alg) => status[alg] \in {"Qualified", "unchecked"}

\* Qualification says what the provider is: no faulty slot qualifies, and no
\* slot is blamed for a failure or for the other slot.
QualificationIsRight == QualifiedIsRight /\ RejectionIsHonest

Entitled(k) == k.value \notin Inadmissible /\ status[k.alg] \in {"Qualified", "unchecked"}

\* "A rejected slot cannot create a qualified key": every key callers hold or
\* wait for belongs to a slot that qualified, unless the provider was built
\* unqualified, and none is inadmissible.
HeldKeysAreBindable ==
    /\ \A i \in 1..Len(held) : Entitled(handles[held[i]])
    /\ \A i \in 1..Len(binding) : Entitled(binding[i])

\* The provider sees only well-formed octets of an enabled algorithm, with a
\* handle that was bound for that algorithm, whichever slot the caller put it
\* in and however long the call waited.
AskedInItsSlot ==
    \A c \in Calls : phase[c] \in {"asked", "answered"} =>
      LET q == request[c]
          alg == AlgorithmOf(q.artifact.alg)
      IN  /\ q.artifact.shape = "proper" /\ alg \in q.enabled
          /\ handles[work[c].key.handle].alg = alg
          /\ q.keys[alg].handle = work[c].key.handle

\* A call through keys of a qualified provider ends with the verdict of the
\* built-in verifier for the same artifact, key values and options, or with
\* KeyResolutionFailure when the provider failed; other handles bound, used or
\* abandoned meanwhile make no difference.
QualifiedActsNative ==
    \A c \in Calls :
      /\ phase[c] = "done" /\ ~request[c].oversized /\ Candid
      /\ request[c].api # "builtin" => \A alg \in Algs : status[alg] # "unchecked"
      => \/ verdict[c] = NativeVerdict(request[c], pre[c])
         \/ answer[c] = "ProviderFailure" /\ verdict[c] = KeyResolutionFailure

-----------------------------------------------------------------------------
(* The contract.  A case is stated from the artifact and the request, not  *)
(* from the order in which the code looks at them.                         *)

CaseOf(q) ==
    LET a == q.artifact
        alg == AlgorithmOf(a.alg)
        k == q.keys[alg]
    IN  [oversized |-> q.oversized, params |-> q.params, staged |-> q.staged,
         expected |-> q.reader \in {"any", a.form},
         readable |-> /\ a.decomposed = "ok" /\ a.parses /\ a.alg \in 1..2
                      /\ a.keyid # "invalid"
                      /\ a.form = "yaml" => a.envelope /\ a.base64,
         sized |-> a.shape \notin {"empty", "wrong_length"},
         enabled |-> alg \in q.enabled,
         proper |-> a.shape = "proper",
         keyed |-> k # NoKey /\ k.alg = alg /\ k.value \notin Inadmissible,
         genuine |-> k # NoKey /\ Genuine(a, k)]

\* How far a call is for its caller.
StageOf(p) ==
    CASE p \in {"new", "read"} -> "new"
      [] p \in {"asked", "answered"} -> "asked"
      [] p = "done" -> "decided"
      [] OTHER -> "abandoned"

\* A call has a case from the step that chooses its keys on.
StageOfCalls == [c \in Calls |-> StageOf(phase[c])]
CaseOfCalls == [c \in Calls |-> IF StageOf(phase[c]) = "new" THEN Nothing ELSE CaseOf(request[c])]

Promised == INSTANCE VerificationContract WITH
    Callers <- Calls, stage <- StageOfCalls, case <- CaseOfCalls, verdict <- verdict

\* Every call of the built-in verifier, and every call through a qualified
\* provider that is candid about its failures, keeps the contract.
Contract == Promised!Spec

\* Awaited or not, qualification reaches a decision for both slots unless its
\* future is dropped.
QualificationEnds == <>(slot \notin Algs)
=============================================================================
