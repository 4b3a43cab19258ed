----------------------------- MODULE WasmBindings -----------------------------
(***************************************************************************)
(* The JavaScript boundary: compose, decompose, sign and verify of         *)
(* crates/yaml-sigil-wasm over byte views that belong to the script.       *)
(*                                                                         *)
(* A call runs to its end before the script goes on, but not alone: a      *)
(* worker may write and grow a shared buffer at any moment, and memory     *)
(* that the call allocates may grow the module's own memory, which         *)
(* detaches every view the script holds on it.  Between calls the script   *)
(* may detach and shrink its ordinary buffers, and reconfigure the policy. *)
(*                                                                         *)
(* A call is a list of stages, in the order in which the code takes them;  *)
(* `todo' holds those still to come.  Every failing stage ends the call.   *)
(* What the Rust operations compute of the octets they are given is the    *)
(* constant operator Core, whose properties the other modules establish.   *)
(***************************************************************************)
EXTENDS Integers, Sequences, FiniteSets

CONSTANTS
    Buffers,       \* ArrayBuffers the script has views on
    Shared,        \* those a worker shares: writable at any time, growable
    Module,        \* those that are the memory of the module itself
    Fresh,         \* that of an array a getter has handed out
    Octets,        \* what a worker writes
    Contents(_),   \* what a buffer holds at first
    Calls,         \* the calls the script makes
    Maxima,        \* what it passes to withMaxArtifactBytes
    Tracking,      \* length of a view that follows its buffer
    NotBytes,      \* an argument that is no Uint8Array
    Unlimited,     \* policy without a ceiling
    SigningKeyLength, VerifyingKeyLength, \* 32; 32 and 65, by algorithm
    MaxUsize,      \* u32::MAX, the largest length of the module
    SchemaCheck,   \* the build has the feature json-schema-validate
    Core(_, _),    \* outcome of the Rust operation of a call on two copies
    Projected(_, _), \* size it projects for its output from lengths alone
    Parses(_, _),  \* these octets are a key of this call
    SchemaRejects(_, _), \* schema_validation_rejects of an artifact and form
    Attested(_),   \* [payload, algorithm, key]s an octet is a genuine signature of
    Signed(_, _, _), \* a payload was signed elsewhere, under an algorithm and public key octets
    Belongs(_, _), \* public key octets are those of signing key octets
    MaxLength,     \* bound: octets a shared buffer grows to
    MaxCalls,      \* bound: calls of the script
    MaxChanges     \* bound: changes of buffers by worker and script

Operands == {"first", "second"}
Forms == {"yaml", "protobuf"}
Algorithms == {"ed25519", "p256"}
Conformances == {"strict", "signature_strict"}
Framing == {"compose", "sign"}

OctetsOf(s) == {s[i] : i \in DOMAIN s}
IsOctets(s) == s \in Seq(OctetsOf(s))
IsView(v) == v.buffer \in Buffers /\ v.offset \in Nat /\ v.length \in Nat \cup {Tracking}

ASSUME WasmAssumption ==
    /\ Shared \subseteq Buffers /\ Module \subseteq Buffers
    /\ Shared \cap Module = {} /\ Fresh \in Buffers \ (Shared \cup Module)
    /\ Tracking \notin Nat /\ Unlimited \notin Nat
    /\ SigningKeyLength \in Nat
    /\ VerifyingKeyLength \in [Algorithms -> Nat]
    /\ MaxUsize \in Nat \ {0} /\ MaxLength \in Nat /\ MaxCalls \in Nat /\ MaxChanges \in Nat
    /\ SchemaCheck \in BOOLEAN
    /\ \A c \in Calls :
         /\ c.op \in {"compose", "decompose", "sign", "verify"} /\ c.limited \in BOOLEAN
         /\ \A o \in Operands : c[o] = NotBytes \/ IsView(c[o])
    /\ \A b \in Buffers : \A s \in Contents(b) : IsOctets(s)
    /\ \A x \in Octets \cup UNION {OctetsOf(s) : s \in UNION {Contents(b) : b \in Buffers}} :
         \A g \in Attested(x) : Signed(g.payload, g.algorithm, g.key)

\* What the Rust operations owe the boundary for the octets they are given: no
\* framing drops octets or emits fewer than it projects, a payload is verified
\* by a signature in the artifact, and only sign makes signatures, of its payload
\* and with its key.
CoreKeeps(copied) ==
    \A c \in Calls :
        LET r == Core(c, copied)
            read == OctetsOf(copied.first) \cup OctetsOf(copied.second)
        IN  /\ r.status # "resource_error" /\ r.code # "invalid_byte_input"
            /\ r.status \in {"success", "verified"} => r.output # << >>
            /\ c.op \in Framing =>
                 /\ Projected(c, copied) \in Nat
                 /\ Projected(c, copied) >=
                      Len(copied.first) + (IF c.op = "compose" THEN Len(copied.second) ELSE 0)
                 /\ r.status = "success" => Len(r.output[1]) >= Projected(c, copied)
            /\ r.status = "verified" =>
                 \E x \in OctetsOf(copied.first) :
                    [payload |-> r.output[1], algorithm |-> c.algorithm, key |-> copied.second] \in Attested(x)
            /\ r.output # << >> =>
                 /\ IsOctets(r.output[1])
                 /\ \A x \in OctetsOf(r.output[1]) \ read : \A g \in Attested(x) :
                      /\ c.op = "sign" /\ r.status = "success"
                      /\ g.payload = copied.first /\ g.algorithm = c.algorithm
                      /\ Belongs(g.key, copied.second)

VARIABLES
    memory,   \* octets of each buffer
    attached, \* buffers that are not detached
    ceiling,  \* maxArtifactBytes of the script's policy object
    call,     \* the call in progress, or the last one
    todo,     \* its stages still to come
    views,    \* ByteInput of each operand
    copies,   \* octets copied into the module so far
    borrowed, \* the policy object is borrowed
    remains,  \* kinds of octets left in memory the module has freed
    result,   \* what the last call returned
    signed,   \* history: [payload, algorithm, key]s that sign has signed
    made,     \* calls made
    changes   \* changes of buffers so far

script == <<memory, attached, ceiling>>
vars == <<script, call, todo, views, copies, borrowed, remains, result, signed, made, changes>>

-----------------------------------------------------------------------------
(* Order of the stages.  A call without the policy passes those of the     *)
(* policy, and a build without the schema that of the schema.              *)

ComposeStages ==
    <<"form", "measureFirst", "measureSecond", "admitOutput",
      "allocateFirst", "copyFirst", "allocateSecond", "copySecond", "operate">>

DecomposeStages ==
    <<"measureFirst", "admitInput", "form", "outer", "allocateFirst", "copyFirst", "operate">>

SignStages ==
    <<"algorithm", "form", "measureSecond", "signingKeyLength", "keyid", "measureFirst",
      "admitOutput", "allocateFirst", "copyFirst", "allocateSecond", "copySecond",
      "parseSigningKey", "operate">>

VerifyStages ==
    <<"measureFirst", "admitInput", "form", "algorithm", "measureSecond", "verifyingKeyLength",
      "allocateFirst", "copyFirst", "allocateSecond", "copySecond", "resolveKey", "schema", "operate">>

Stages(c) ==
    CASE c.op = "compose" -> ComposeStages
      [] c.op = "decompose" -> DecomposeStages
      [] c.op = "sign" -> SignStages
      [] c.op = "verify" -> VerifyStages

Failure(status, code) == [status |-> status, code |-> code, output |-> << >>]
Invocation(code) == Failure("invocation_error", code)
InvalidByteInput == Invocation("invalid_byte_input")
TooLarge(code) == Failure("resource_error", code)
Nothing == Failure("none", "none")

-----------------------------------------------------------------------------
(* The script, the worker and the engine.                                  *)

Idle == todo = << >>

\* Passing the strings of a call allocates too.
ModuleGrows == attached' \in {attached, attached \ Module}

Call(c) ==
    /\ Idle /\ made < MaxCalls
    /\ ModuleGrows
    /\ call' = c /\ todo' = Stages(c) /\ made' = made + 1
    /\ borrowed' = c.limited
    /\ views' = [o \in Operands |-> NotBytes] /\ copies' = [o \in Operands |-> << >>]
    /\ result' = Nothing
    /\ UNCHANGED <<memory, ceiling, remains, signed, changes>>

ValidMaximum(maximum) == maximum \in 1..MaxUsize

\* withMaxArtifactBytes throws a RangeError for anything else.
Configure(maximum) ==
    /\ Idle /\ ValidMaximum(maximum)
    /\ ceiling' = maximum
    /\ UNCHANGED <<memory, attached, call, todo, views, copies, borrowed, remains, result, signed, made, changes>>

WithoutCeiling ==
    /\ Idle /\ ceiling' = Unlimited
    /\ UNCHANGED <<memory, attached, call, todo, views, copies, borrowed, remains, result, signed, made, changes>>

\* The getters hand out a fresh array, empty when there is nothing.
Keep ==
    /\ Idle
    /\ memory' = [memory EXCEPT ![Fresh] = IF result.output = << >> THEN << >> ELSE result.output[1]]
    /\ attached' = attached \cup {Fresh}
    /\ UNCHANGED <<ceiling, call, todo, views, copies, borrowed, remains, result, signed, made, changes>>

Change == changes < MaxChanges /\ changes' = changes + 1

Detach(b) ==
    /\ Idle /\ Change /\ b \in attached \ Shared
    /\ attached' = attached \ {b}
    /\ UNCHANGED <<memory, ceiling, call, todo, views, copies, borrowed, remains, result, signed, made>>

Shrink(b) ==
    /\ Idle /\ Change /\ b \notin Shared \cup Module /\ memory[b] # << >>
    /\ memory' = [memory EXCEPT ![b] = SubSeq(@, 1, Len(@) - 1)]
    /\ UNCHANGED <<attached, ceiling, call, todo, views, copies, borrowed, remains, result, signed, made>>

WorkerWrites(b, i, octet) ==
    /\ Change
    /\ memory' = [memory EXCEPT ![b][i] = octet]
    /\ UNCHANGED <<attached, ceiling, call, todo, views, copies, borrowed, remains, result, signed, made>>

WorkerGrows(b, octet) ==
    /\ Change
    /\ Len(memory[b]) < MaxLength
    /\ memory' = [memory EXCEPT ![b] = Append(@, octet)]
    /\ UNCHANGED <<attached, ceiling, call, todo, views, copies, borrowed, remains, result, signed, made>>

-----------------------------------------------------------------------------
(* A stage.                                                                *)

At(stage) == todo # << >> /\ Head(todo) = stage

Advance == todo' = Tail(todo) /\ UNCHANGED <<borrowed, remains, result, signed>>

Role(o) ==
    CASE o = "second" /\ call.op = "sign" -> "signing_key"
      [] o = "second" /\ call.op # "sign" -> "carrier_or_public_key"
      [] o = "first" -> "payload_or_artifact"

\* Returning drops the policy's borrow guard and every buffer; the buffer of
\* a signing key is zeroized before it is freed.
Return(r) ==
    /\ todo' = << >> /\ result' = r /\ borrowed' = FALSE
    /\ remains' = remains \cup
         ({Role(o) : o \in {p \in Operands : copies[p] # << >>}} \ {"signing_key"})
    /\ signed' = IF call.op = "sign" /\ r.status = "success"
                   THEN signed \cup {[payload |-> copies.first, algorithm |-> call.algorithm,
                                      key |-> copies.second]}
                   ELSE signed

\* Fault: an exception of the copy leaves the module without unwinding it.
Thrown ==
    /\ todo' = << >> /\ result' = InvalidByteInput /\ UNCHANGED <<borrowed, signed>>
    /\ remains' = remains \cup {Role(o) : o \in {p \in Operands : copies[p] # << >>}}

Check(stage, passes, failure) ==
    /\ At(stage)
    /\ IF passes THEN Advance ELSE Return(failure)
    /\ UNCHANGED <<script, call, views, copies, made, changes>>

CheckForm ==
    Check("form", call.form \in Forms,
          Invocation(IF call.op = "sign" THEN "invalid_or_unsupported_output_form"
                                         ELSE "invalid_or_unsupported_form"))

CheckOuter ==
    Check("outer", call.outer \in Conformances \cup {"none"},
          Invocation("invalid_or_unsupported_outer_conformance"))

CheckAlgorithm ==
    Check("algorithm", call.algorithm \in Algorithms,
          Invocation("invalid_or_unsupported_algorithm"))

CheckSigningKeyLength ==
    Check("signingKeyLength", views.second.length = SigningKeyLength,
          Invocation("invalid_signing_key"))

CheckVerifyingKeyLength ==
    Check("verifyingKeyLength", views.second.length = VerifyingKeyLength[call.algorithm],
          Invocation("key_resolution_failure"))

CheckKeyid ==
    Check("keyid", call.limited => call.keyid \notin {"empty", "long"}, Invocation("invalid_keyid"))

-----------------------------------------------------------------------------
(* Byte views.                                                             *)

Length(v) == IF v.length = Tracking THEN Len(memory[v.buffer]) - v.offset ELSE v.length

\* What %TypedArray%.prototype.values and set require of a view.
Usable(v) ==
    /\ v.buffer \in attached
    /\ v.offset + (IF v.length = Tracking THEN 0 ELSE v.length) <= Len(memory[v.buffer])

Measurable(v) == v # NotBytes /\ Usable(v) /\ Length(v) \in 0..MaxUsize

\* Fault: the length is measured, but the view goes on tracking its buffer.
FixedLater(v) == [buffer |-> v.buffer, offset |-> v.offset, length |-> v.length, size |-> Length(v)]

\* A second view with an explicit length, whatever the first one tracks.
Fixed(v) == [buffer |-> v.buffer, offset |-> v.offset, length |-> Length(v), size |-> Length(v)]

Measure(stage, o) ==
    /\ At(stage)
    /\ IF Measurable(call[o])
         THEN Advance /\ views' = [views EXCEPT ![o] = Fixed(call[o])]
         ELSE Return(InvalidByteInput) /\ UNCHANGED views
    /\ UNCHANGED <<script, call, copies, made, changes>>

Exceeds(length) == ceiling # Unlimited /\ length > ceiling

AdmitInput ==
    Check("admitInput", call.limited => ~Exceeds(views.first.size), TooLarge("input_artifact_too_large"))

\* Fault: only the payload is counted.
MinimumOfPayload == views.first.size

\* Octets that any output must hold: the carrier is not part of sign's input.
Minimum ==
    IF call.op = "compose" THEN views.first.size + views.second.size ELSE views.first.size

\* A size that cannot be represented, or that the policy does not admit.
TooLong(size) == size > MaxUsize \/ Exceeds(size)

OutputRefusal(size) ==
    TooLarge(IF size > MaxUsize THEN "size_computation_overflow" ELSE "output_artifact_too_large")

AdmitOutput ==
    Check("admitOutput", call.limited => ~TooLong(Minimum), OutputRefusal(Minimum))

\* vec![0; length] may grow the module's memory.
Allocate(stage) ==
    /\ At(stage) /\ Advance /\ ModuleGrows
    /\ UNCHANGED <<memory, ceiling, call, views, copies, made, changes>>

Copyable(v) == Usable(v) /\ Length(v) <= v.size

\* Fault: the failure of the import is not caught.
CopyThrows(stage, o) ==
    /\ At(stage) /\ ~Copyable(views[o])
    /\ Thrown
    /\ UNCHANGED <<script, call, views, copies, made, changes>>

CopyFails(stage, o) ==
    /\ At(stage) /\ ~Copyable(views[o])
    /\ Return(InvalidByteInput)
    /\ UNCHANGED <<script, call, views, copies, made, changes>>

\* One octet of the copy; a worker may write between two of them.
Copy(stage, o) ==
    /\ At(stage) /\ Copyable(views[o])
    /\ LET v == views[o]  n == Len(copies[o]) IN
       IF n < v.size
         THEN /\ copies' = [copies EXCEPT ![o] = Append(@, memory[v.buffer][v.offset + n + 1])]
              /\ UNCHANGED <<todo, borrowed, remains, result, signed>>
         ELSE Advance /\ UNCHANGED copies
    /\ UNCHANGED <<script, call, views, made, changes>>

-----------------------------------------------------------------------------
(* The operation itself.                                                   *)

ParseSigningKey ==
    Check("parseSigningKey", Parses(call, copies.second), Invocation("invalid_signing_key"))

ResolveKey ==
    Check("resolveKey", Parses(call, copies.second), Invocation("key_resolution_failure"))

Schema ==
    Check("schema", SchemaCheck => ~SchemaRejects(copies.first, call.form),
          Failure("malformed_attempted_signed", "none"))

\* compose_with_resource_limits and sign_with_resource_limits size the artifact
\* before they look at what is in it, exactly or from below, and sign measures
\* what it is about to emit once more.
Limited(r) ==
    LET projected == Projected(call, copies) IN
    CASE ~call.limited \/ call.op \notin Framing -> r
      [] OTHER -> IF TooLong(projected) THEN OutputRefusal(projected)
                  ELSE IF r.status = "success" /\ TooLong(Len(r.output[1]))
                  THEN OutputRefusal(Len(r.output[1])) ELSE r

\* Fault: the payload of a verified artifact is read from the script again.
OperateOnSource ==
    /\ At("operate")
    /\ LET v == views.first
           seen == SubSeq(memory[v.buffer], v.offset + 1, v.offset + v.size)
           r == Limited(Core(call, copies))
       IN Return(IF r.status # "verified" \/ ~Usable(v) THEN r
                 ELSE [r EXCEPT !.output = <<SubSeq(seen, 1, Len(r.output[1]))>>])
    /\ UNCHANGED <<script, call, views, copies, made, changes>>

Operate ==
    /\ At("operate")
    /\ Return(Limited(Core(call, copies)))
    /\ UNCHANGED <<script, call, views, copies, made, changes>>

-----------------------------------------------------------------------------

Init ==
    /\ memory \in [Buffers -> UNION {Contents(b) : b \in Buffers}]
    /\ \A b \in Buffers : memory[b] \in Contents(b)
    /\ attached = Buffers
    /\ ceiling = Unlimited
    /\ call = [op |-> "none"]
    /\ todo = << >>
    /\ views = [o \in Operands |-> NotBytes]
    /\ copies = [o \in Operands |-> << >>]
    /\ borrowed = FALSE
    /\ remains = {}
    /\ result = Nothing
    /\ signed = {}
    /\ made = 0
    /\ changes = 0

Environment ==
    \/ \E c \in Calls : Call(c)
    \/ \E m \in Maxima : Configure(m)
    \/ WithoutCeiling
    \/ Keep
    \/ \E b \in Buffers : Detach(b) \/ Shrink(b)
    \/ \E b \in Shared, octet \in Octets :
          \/ \E i \in DOMAIN memory[b] : WorkerWrites(b, i, octet)
          \/ WorkerGrows(b, octet)

Binding ==
    \/ CheckForm \/ CheckOuter \/ CheckAlgorithm \/ CheckKeyid
    \/ CheckSigningKeyLength \/ CheckVerifyingKeyLength
    \/ Measure("measureFirst", "first") \/ Measure("measureSecond", "second")
    \/ AdmitInput \/ AdmitOutput
    \/ Allocate("allocateFirst") \/ Allocate("allocateSecond")
    \/ Copy("copyFirst", "first") \/ Copy("copySecond", "second")
    \/ CopyFails("copyFirst", "first") \/ CopyFails("copySecond", "second")
    \/ ParseSigningKey \/ ResolveKey \/ Schema \/ Operate

Next == Environment \/ Binding

Spec == Init /\ [][Next]_vars

-----------------------------------------------------------------------------
(* Properties.                                                             *)

\* Types; a copy never holds more octets than its ByteInput was measured at.
TypeOK ==
    /\ attached \subseteq Buffers
    /\ ceiling \in (1..MaxUsize) \cup {Unlimited}
    /\ borrowed \in BOOLEAN
    /\ made \in 0..MaxCalls
    /\ \A o \in Operands :
         views[o] # NotBytes =>
            /\ views[o].length \in 0..MaxUsize
            /\ Len(copies[o]) <= views[o].size

WasSigned(payload, algorithm, key) ==
    \/ Signed(payload, algorithm, key)
    \/ \E s \in signed : s.payload = payload /\ s.algorithm = algorithm /\ Belongs(key, s.key)

\* A payload reported as verified is one that was signed, with the algorithm and
\* under the key octets the call copied, while a worker writes to the artifact
\* before, during and after the copy: everything is read once.
VerifiedIsSigned ==
    result.status = "verified" => WasSigned(result.output[1], call.algorithm, copies.second)

Copied ==
    Len(copies.first) + (IF call.op = "compose" THEN Len(copies.second) ELSE 0)

\* Under a ceiling no more than its number of octets is ever copied into the
\* module, however a shared buffer grows between admission and copy, and none
\* of an artifact or component that is refused for its length.
OnlyAdmittedOctets ==
    call.op # "none" /\ call.limited /\ ceiling # Unlimited /\ todo # << >> => Copied <= ceiling

\* A call that has returned, in whatever way, holds no borrow of the policy
\* object and has left no octet of a signing key in freed memory.
NothingHeld == Idle => ~borrowed /\ "signing_key" \notin remains

Returns == todo # << >> /\ todo' = << >>

\* An argument that is no byte array, or that is detached, out of bounds or too
\* long when the call returns: never a shared buffer that grows or changes.
Unusable(o) == call[o] = NotBytes \/ ~Usable(call[o]) \/ Length(call[o]) > MaxUsize

\* The octets of an operand that nobody can change or detach during a call.
Stable(o) ==
    /\ Measurable(call[o])
    /\ call[o].buffer \notin Shared \cup Module

Source(o) ==
    SubSeq(memory[call[o].buffer], call[o].offset + 1, call[o].offset + Length(call[o]))

\* Without the policy, the call would have read more than the ceiling, or would
\* have emitted more; or it would have failed, for its content, on octets that
\* are too many for any artifact within the ceiling.
Oversized ==
    \/ ~Stable("first") \/ (call.op \in Framing /\ ~Stable("second"))
    \/ call.op \notin Framing /\ Exceeds(Len(Source("first")))
    \/ /\ call.op \in Framing
       /\ LET given == [o \in Operands |-> Source(o)]
              r == Core(call, given)
          IN  TooLong(IF r.status = "success" THEN Len(r.output[1]) ELSE Projected(call, given))

\* A call is refused for an argument only if the script broke the argument, and
\* for a size only if the size is really exceeded: a lower bound of an output
\* that is checked before anything is copied refuses nothing that would fit.
RefusalsConclusive ==
    [][Returns =>
          /\ result'.code = "invalid_byte_input" => \E o \in Operands : Unusable(o)
          /\ result'.status = "resource_error" => Oversized]_vars

=============================================================================
