----------------------- MODULE MCProviderVerification -----------------------
(* Instances for TLC: two admissible keys and a bad one, a good artifact   *)
(* for each, and artifacts with one or two things wrong.                   *)
EXTENDS ProviderVerification

CONSTANTS c1, c2, c3

AllFaults == {"none", "unsupported", "rejects_all", "accepts_all", "accept_any", "cache_first",
              "retarget", "invalidate_later", "ignores_message"} \cup Classes
SomeFaults == {"none", "retarget"}

App(alg, value) == [alg |-> alg, value |-> value]
TwoEd25519Keys == {App("ed25519", "e1"), App("ed25519", "e2")}
KeysOfBothSlots == {App("ed25519", "e1"), App("p256", "p1"), App("ed25519", "bad")}
AllKeys == TwoEd25519Keys \cup KeysOfBothSlots
BadKeys == {"bad"}

Artifact(form, number, key, message, class) ==
    [form |-> form, decomposed |-> "ok", envelope |-> TRUE, parses |-> TRUE, alg |-> number,
     keyid |-> "absent", base64 |-> TRUE, shape |-> "proper", payload |-> "doc",
     signature |-> Signature(key, message, class)]

Good == {Artifact("yaml", 1, "e1", "doc", "plain"), Artifact("proto", 2, "p1", "doc", "high")}

Damaged(a) ==
    {a} \cup {[a EXCEPT !.decomposed = d] : d \in {"unsigned", "malformed", "refused"}}
        \cup {[a EXCEPT !.envelope = FALSE], [a EXCEPT !.parses = FALSE], [a EXCEPT !.base64 = FALSE],
              [a EXCEPT !.keyid = "invalid"], [a EXCEPT !.keyid = "valid"],
              [a EXCEPT !.alg = 0], [a EXCEPT !.alg = 3], [a EXCEPT !.payload = "other"]}
        \cup {[a EXCEPT !.shape = s] : s \in {"empty", "wrong_length", "out_of_range"}}

Request(api, staged, artifact) ==
    [api |-> api, staged |-> staged, reader |-> "any", allowUnsigned |-> FALSE, oversized |-> FALSE,
     params |-> FALSE, enabled |-> Algs, artifact |-> artifact]

Plain == {Request(api, s, a) : api \in {"builtin", "async"}, s \in BOOLEAN,
                               a \in UNION {Damaged(g) : g \in Good}}

\* One artifact per algorithm and two callers of provider keys.
ProviderCalls ==
    {Request("sync", FALSE, Artifact("yaml", 1, "e1", "doc", "plain")),
     Request("async", TRUE, Artifact("yaml", 1, "e2", "doc", "plain"))}

\* Every request of Plain, and with one thing different about the request.
ManyRequests ==
    Plain \cup {[q EXCEPT !.params = TRUE] : q \in Plain}
          \cup {[q EXCEPT !.enabled = {"p256"}] : q \in Plain}
          \cup {[q EXCEPT !.allowUnsigned = TRUE] : q \in {p \in Plain : p.staged}}
          \cup {[q EXCEPT !.oversized = TRUE] : q \in {p \in Plain : p.api = "builtin"}}
          \cup {[q EXCEPT !.reader = f] : f \in Forms, q \in {p \in Plain : p.api = "builtin" /\ p.staged}}

\* One caller makes every request, the others share a provider.
Requested == [c \in {c1, c2, c3} |-> IF c = c1 THEN ManyRequests ELSE ProviderCalls]

SlightFault == \A alg \in Algs : fault[alg] \in SomeFaults
Qualified == \A alg \in Algs : status[alg] # "unchecked"

\* Two callers of a qualified provider that may retarget its handles.
CallersShare ==
    /\ Qualified /\ SlightFault /\ reports
    /\ \/ (AskForHandle /\ binding'[Len(binding')] \in TwoEd25519Keys)
       \/ \E c \in {c2, c3} : VerifyWhole(c) \/ ReadFirst(c) \/ VerifyRead(c)

\* One caller of an unqualified provider that is right, with two handles.
CallerAsksAnything ==
    /\ ~Qualified
    /\ \/ /\ AskForHandle
          /\ binding'[Len(binding')] \in KeysOfBothSlots
          /\ Len(handles) + Len(binding) < 2
       \/ VerifyWhole(c1) \/ ReadFirst(c1) \/ VerifyRead(c1)

MCInit == Init /\ (Qualified \/ (reports /\ \A alg \in Algs : fault[alg] = "none"))

MCNext ==
    \/ SuiteBinds \/ SuiteVerifies \/ DropQualification
    \/ CallersShare \/ CallerAsksAnything
    \/ \E i \in 1..Len(binding) : HandleArrives(i) \/ DropBind(i)
    \/ \E c \in Calls : ProviderAnswers(c) \/ Resume(c) \/ DropCall(c)

MCSpec == MCInit /\ [][MCNext]_vars /\ WF_vars(SuiteBinds) /\ WF_vars(SuiteVerifies)
=============================================================================
