--------------------------- MODULE ChannelRoster ---------------------------
(***************************************************************************)
(* The live channel roster of the connection services: runtime registration *)
(* (a read-locked fast path, a construction with no lock held, and the       *)
(* write-locked decision), one-way quiescing with its recorded reason, the   *)
(* status probe, and the admission funnel that publishes and subscribes      *)
(* pass twice before they use the entry it returned.  A step is one lock     *)
(* section or one atomic access; callers interleave between them.            *)
(***************************************************************************)
EXTENDS Naturals, Sequences, FiniteSets

CONSTANTS Callers, Names, Reasons,
          Docs,          \* schema documents; an id is their digest
          Digest,        \* [document -> protocol schema id], not injective
          BadDocs,       \* documents that parse and do not compile
          Boot,          \* boot-configured entries: [name, mode, doc]
          Limits,        \* the configurations considered: <<limits.max_channels>>, or
                         \* <<>> when it is not declared
          MaxOps         \* bound: calls made

Unrecorded == "unrecorded"
Modes == {"durable", "ephemeral"}
Specs == [name : Names, mode : Modes, doc : Docs]

\* The answers that carry no reason.
Outcomes == {"ok", "not_registered", "active", "done"}

ASSUME RosterAssumption ==
    /\ \A l \in Limits : l # <<>> => Len(l) = 1 /\ l[1] \in Nat
    /\ Reasons \cap (Outcomes \cup {Unrecorded}) = {} /\ MaxOps \in Nat
    /\ Boot \subseteq Specs /\ BadDocs \subseteq Docs
    /\ \A e, f \in Boot : e.name = f.name => e = f

VARIABLES limit,   \* this server's max_channels
          roster,  \* [registered name -> its entry's immutable fields]
          reason,  \* [registered name -> quiesce_reason, or Unrecorded]
          state,   \* [registered name -> "active" or "quiesced"]
          call,    \* [caller -> its current call]
          ops,     \* calls made
          closed,  \* history: names some quiesce_channel has returned Ok for
          log      \* history: the returned calls

vars == <<limit, roster, reason, state, call, ops, closed, log>>

Idle == [op |-> "idle", at |-> "idle"]
Extend(f, x, v) == [y \in DOMAIN f \cup {x} |-> IF y = x THEN v ELSE f[y]]
Entry(spec, origin) == [mode |-> spec.mode, doc |-> spec.doc, origin |-> origin]

Init ==
    /\ limit \in Limits
    /\ roster = [n \in {e.name : e \in Boot} |->
                    Entry(CHOOSE e \in Boot : e.name = n, "boot")]
    /\ reason = [n \in DOMAIN roster |-> Unrecorded]
    /\ state = [n \in DOMAIN roster |-> "active"]
    /\ call = [c \in Callers |-> Idle] /\ ops = 0 /\ closed = {} /\ log = {}

Start(c, op) ==
    /\ call[c] = Idle /\ ops < MaxOps
    /\ ops' = ops + 1 /\ call' = [call EXCEPT ![c] = op]
    /\ UNCHANGED <<limit, roster, reason, state, closed, log>>

\* `late` is history: the name had already been quiesced when the call began.
StartCall(c) ==
    \/ \E spec \in Specs : Start(c, [op |-> "register", at |-> "read", spec |-> spec])
    \/ \E n \in Names, r \in Reasons :
          Start(c, [op |-> "quiesce", at |-> "read", name |-> n, reason |-> r])
    \/ \E n \in Names : Start(c, [op |-> "status", at |-> "read", name |-> n])
    \/ \E n \in Names, op \in {"publish", "subscribe"} :
          Start(c, [op |-> op, at |-> "admit", name |-> n, late |-> n \in closed])

Step(c, at) == call' = [call EXCEPT ![c].at = at]
Return(c, result) ==
    /\ call' = [call EXCEPT ![c] = Idle]
    /\ log' = log \cup {[call |-> call[c], result |-> result]}

(***************************************************************************)
(* register_channel.                                                       *)
(***************************************************************************)
runtimeRegistered == {n \in DOMAIN roster : roster[n].origin = "runtime"}

\* Mode first, then the schema id, then the document.
CompareRegistration(entry, spec) ==
    IF entry.mode # spec.mode THEN "differs_mode"
    ELSE IF Digest[entry.doc] # Digest[spec.doc] THEN "differs_schema_id"
    ELSE IF entry.doc # spec.doc THEN "differs_document" ELSE "identical"

RegisterRead(c) ==
    /\ call[c].op = "register" /\ call[c].at = "read"
    /\ LET spec == call[c].spec IN
       \/ limit = <<>> /\ Return(c, "cap_not_configured")
       \/ /\ limit # <<>> /\ spec.name \in DOMAIN roster
          /\ Return(c, CompareRegistration(roster[spec.name], spec))
       \/ /\ limit # <<>> /\ spec.name \notin DOMAIN roster
          /\ IF Cardinality(runtimeRegistered) >= limit[1] THEN Return(c, "cap_reached")
             ELSE Step(c, "build") /\ UNCHANGED log
    /\ UNCHANGED <<limit, roster, reason, state, ops, closed>>

\* build_configured_channel, no lock held: the schema is compiled and a durable
\* channel recovers its counters from the store, either of which may fail.
RegisterBuild(c) ==
    /\ call[c].op = "register" /\ call[c].at = "build"
    /\ \/ call[c].spec.doc \in BadDocs /\ Return(c, "schema_rejected")
       \/ /\ call[c].spec.doc \notin BadDocs /\ call[c].spec.mode = "durable"
          /\ Return(c, "durable_init_failed")
       \/ call[c].spec.doc \notin BadDocs /\ Step(c, "write") /\ UNCHANGED log
    /\ UNCHANGED <<limit, roster, reason, state, ops, closed>>

\* Mutant: the cap decided under the read lock is not decided again.
RegisterWriteTrustsFastPath(c) ==
    /\ call[c].op = "register" /\ call[c].at = "write"
    /\ LET spec == call[c].spec IN
       \/ /\ spec.name \in DOMAIN roster
          /\ Return(c, CompareRegistration(roster[spec.name], spec))
          /\ UNCHANGED <<roster, reason, state>>
       \/ /\ spec.name \notin DOMAIN roster
          /\ roster' = Extend(roster, spec.name, Entry(spec, "runtime"))
          /\ reason' = Extend(reason, spec.name, Unrecorded)
          /\ state' = Extend(state, spec.name, "active")
          /\ Return(c, "created")
    /\ UNCHANGED <<limit, ops, closed>>

\* The authoritative decision: identity, cap and insert under one write lock.
RegisterWrite(c) ==
    /\ call[c].op = "register" /\ call[c].at = "write"
    /\ LET spec == call[c].spec IN
       \/ /\ spec.name \in DOMAIN roster
          /\ Return(c, CompareRegistration(roster[spec.name], spec))
          /\ UNCHANGED <<roster, reason, state>>
       \/ /\ spec.name \notin DOMAIN roster /\ Cardinality(runtimeRegistered) < limit[1]
          /\ roster' = Extend(roster, spec.name, Entry(spec, "runtime"))
          /\ reason' = Extend(reason, spec.name, Unrecorded)
          /\ state' = Extend(state, spec.name, "active")
          /\ Return(c, "created")
       \/ /\ spec.name \notin DOMAIN roster /\ Cardinality(runtimeRegistered) >= limit[1]
          /\ Return(c, "cap_reached") /\ UNCHANGED <<roster, reason, state>>
    /\ UNCHANGED <<limit, ops, closed>>

(***************************************************************************)
(* quiesce_channel: the entry is found under a read lock; the reason is set  *)
(* once, then the state flips; the answer is judged by the recorded reason.  *)
(***************************************************************************)
QuiesceRead(c) ==
    /\ call[c].op = "quiesce" /\ call[c].at = "read"
    /\ IF call[c].name \in DOMAIN roster THEN Step(c, "record") /\ UNCHANGED log
       ELSE Return(c, "not_registered")
    /\ UNCHANGED <<limit, roster, reason, state, ops, closed>>

QuiesceRecord(c) ==
    /\ call[c].op = "quiesce" /\ call[c].at = "record"
    /\ reason' = [reason EXCEPT ![call[c].name] = IF @ = Unrecorded THEN call[c].reason ELSE @]
    /\ Step(c, "flip")
    /\ UNCHANGED <<limit, roster, state, ops, closed, log>>

QuiesceFlip(c) ==
    /\ call[c].op = "quiesce" /\ call[c].at = "flip"
    /\ state' = [state EXCEPT ![call[c].name] = "quiesced"]
    /\ IF reason[call[c].name] = call[c].reason
       THEN closed' = closed \cup {call[c].name} /\ Return(c, "ok")
       ELSE Return(c, reason[call[c].name]) /\ UNCHANGED closed
    /\ UNCHANGED <<limit, roster, reason, ops>>

\* channel_status: the entry's own fields, one load of the state and, when it
\* is quiesced, one of the reason.
StatusRead(c) ==
    /\ call[c].op = "status" /\ call[c].at = "read"
    /\ \/ call[c].name \notin DOMAIN roster /\ Return(c, "not_registered")
       \/ /\ call[c].name \in DOMAIN roster
          /\ IF state[call[c].name] = "quiesced" THEN Step(c, "reason") /\ UNCHANGED log
             ELSE Return(c, "active")
    /\ UNCHANGED <<limit, roster, reason, state, ops, closed>>

StatusReason(c) ==
    /\ call[c].op = "status" /\ call[c].at = "reason"
    /\ Return(c, reason[call[c].name])
    /\ UNCHANGED <<limit, roster, reason, state, ops, closed>>

(***************************************************************************)
(* publish and subscribe: the connection process asks admit_channel, then    *)
(* the service asks it again and works from the entry that call returned.    *)
(***************************************************************************)
\* Mutant: admission only asks whether the channel is registered.
AdmitRegistered(c) ==
    /\ call[c].at \in {"admit", "readmit"}
    /\ \/ call[c].name \notin DOMAIN roster /\ Return(c, "not_registered")
       \/ /\ call[c].name \in DOMAIN roster /\ UNCHANGED log
          /\ Step(c, IF call[c].at = "admit" THEN "readmit" ELSE "use")
    /\ UNCHANGED <<limit, roster, reason, state, ops, closed>>

Admit(c) ==
    /\ call[c].at \in {"admit", "readmit"}
    /\ \/ call[c].name \notin DOMAIN roster /\ Return(c, "not_registered")
       \/ /\ call[c].name \in DOMAIN roster /\ state[call[c].name] = "quiesced"
          /\ Step(c, "refused") /\ UNCHANGED log
       \/ /\ call[c].name \in DOMAIN roster /\ state[call[c].name] = "active"
          /\ Step(c, IF call[c].at = "admit" THEN "readmit" ELSE "use") /\ UNCHANGED log
    /\ UNCHANGED <<limit, roster, reason, state, ops, closed>>

Refused(c) ==
    /\ call[c].at = "refused" /\ Return(c, reason[call[c].name])
    /\ UNCHANGED <<limit, roster, reason, state, ops, closed>>

\* The actor round trip, past admission: nothing is checked again.
Use(c) ==
    /\ call[c].at = "use" /\ Return(c, "done")
    /\ UNCHANGED <<limit, roster, reason, state, ops, closed>>

Next ==
    \E c \in Callers :
        \/ StartCall(c) \/ RegisterRead(c) \/ RegisterBuild(c) \/ RegisterWrite(c)
        \/ QuiesceRead(c) \/ QuiesceRecord(c) \/ QuiesceFlip(c)
        \/ StatusRead(c) \/ StatusReason(c) \/ Admit(c) \/ Refused(c) \/ Use(c)

Spec == Init /\ [][Next]_vars

(***************************************************************************)
(* Properties.                                                             *)
(***************************************************************************)
\* However many registrations race through the fast path, the roster holds at
\* most limits.max_channels runtime-registered entries, and every caller told
\* "created" or "identical" asked for exactly the entry on the roster
\* (register_channel's write-locked decision).
RosterAgrees ==
    /\ limit # <<>> => Cardinality(runtimeRegistered) <= limit[1]
    /\ \A r \in log : r.call.op = "register" /\ r.result \in {"created", "identical"} =>
          /\ r.call.spec.name \in DOMAIN roster
          /\ roster[r.call.spec.name].mode = r.call.spec.mode
          /\ roster[r.call.spec.name].doc = r.call.spec.doc

\* Nobody who sees a channel quiesced fails to learn why, and everybody is told
\* the same reason: the one on record, which is the reason of every caller whose
\* quiesce succeeded (ConfiguredChannel::quiesce against state()).
QuiesceReasonTruthful ==
    /\ \A n \in DOMAIN roster : state[n] = "quiesced" => reason[n] # Unrecorded
    /\ \A r \in log : r.call.op # "register" /\ r.result \in Reasons \cup {Unrecorded} =>
          r.result = reason[r.call.name]
    /\ \A r \in log : r.call.op = "quiesce" /\ r.result = "ok" =>
          reason[r.call.name] = r.call.reason

\* A publish or a subscribe that begins after some quiesce_channel has returned
\* Ok is refused; only one already past admission may still complete
\* (admit_channel as the linearisation point).
QuiesceStopsAdmission ==
    \A r \in log : r.call.op \in {"publish", "subscribe"} /\ r.call.late => r.result # "done"

\* What callers learn of a quiesced channel is true: why, and that it admits
\* nobody new.
QuiesceTruthful == QuiesceReasonTruthful /\ QuiesceStopsAdmission
=============================================================================
