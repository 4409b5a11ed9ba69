------------------------- MODULE IncarnationStream -------------------------
(***************************************************************************)
(* The server-wide durable incarnation stream and its owner in a server    *)
(* process: liminal-server participant/incarnation_stream.rs,              *)
(* connection/incarnation.rs, the spawn and fate paths of                  *)
(* connection/supervisor.rs, and the allocator of liminal-protocol         *)
(* lifecycle/incarnation.rs.                                               *)
(*                                                                         *)
(* Processes start over one store, allocate a (server, ordinal) pair for   *)
(* each connection and, when a connection that participants are bound to   *)
(* ends, append an Open, fold the bindings and append a Complete.  Appends *)
(* are compare-and-set on the stream's length; an append or flush that     *)
(* fails leaves its owner held until a replay tells what landed.           *)
(***************************************************************************)
EXTENDS Integers, Sequences, SequencesExt, FiniteSets

CONSTANTS
    Process,        \* server processes that may start over the store
    Connection,     \* admission slots, max_connections of them in a process
    Deployments,    \* the ways slots belong to processes
    MaxServer,      \* u64::MAX of the server incarnation
    MaxOrdinal,     \* u64::MAX of the connection ordinal
    BackoffCeiling, \* RESUME_BACKOFF_CEILING
    NoOrdinal       \* last_examined_connection_ordinal before the first allocation

ASSUME WidthAssumption == MaxServer \in Nat /\ MaxOrdinal \in Nat /\ BackoffCeiling \in Nat \ {0}
ASSUME DeploymentsAssumption == Deployments \subseteq [Connection -> Process]
ASSUME NoOrdinalAssumption == NoOrdinal \notin Nat

VARIABLES
    log,        \* the stream, as a read of the store shows it
    flushed,    \* how much of it is on disk
    bound,      \* incarnations some participant slot of a conversation is Bound to
    authority,  \* ConnectionIncarnationAuthority of each process
    conn,       \* the connection in each slot
    fatal,      \* processes whose participant service has latched fatal
    published,  \* history: every incarnation ever handed to a connection
    home        \* the process each admission slot belongs to

vars == <<log, flushed, bound, authority, conn, fatal, published, home>>

Slots(p) == {c \in Connection : home[c] = p}
MaxReferences(p) == Cardinality(Slots(p))
Incarnation == [server : 0..MaxServer, ordinal : 0..MaxOrdinal]

-----------------------------------------------------------------------------
(* Events, and the state a handle keeps of them.                           *)

StartupEvent == [kind |-> "startup"]
AllocateEvent(refs, declared) == [kind |-> "allocate", refs |-> refs, declared |-> declared]
OpenEvent(i) == [kind |-> "open", conn |-> i]
CompleteEvent(o) == [kind |-> "complete", open |-> o]

\* The allocator header, the generation of the last Startup with its active
\* allocations, and the Opens without a Complete.  "fault" is the error a
\* replay stops with.
Genesis ==
    [server |-> 0, last |-> NoOrdinal, exhausted |-> FALSE, next |-> 0,
     startup |-> NoOrdinal, declared |-> NoOrdinal,
     active |-> {}, unmatched |-> {}, fault |-> "none"]

Fault(s, f) == [s EXCEPT !.fault = f]

\* allocate_connection_incarnation: the least ordinal above the last examined
\* one that no reference names, if any is left.  Examining MAX, taken or free,
\* sets the exhausted bit.
AlreadyExhausted(s) == s.exhausted \/ s.last = MaxOrdinal
Produced(s, refs) ==
    LET first == IF s.last = NoOrdinal THEN 0 ELSE s.last + 1
        free  == {o \in first..MaxOrdinal : [server |-> s.server, ordinal |-> o] \notin refs}
    IN  {[server |-> s.server, ordinal |-> o] : o \in {m \in free : \A q \in free : m <= q}}
Examined(s, refs) ==
    LET last == IF Produced(s, refs) = {} THEN MaxOrdinal
                ELSE (CHOOSE i \in Produced(s, refs) : TRUE).ordinal
    IN  [s EXCEPT !.last = last, !.exhausted = (last = MaxOrdinal)]

\* retain_active_allocations: of the active allocations only the referenced
\* ones stay; the pair just produced joins them.
Retained(active, refs, produced) == (active \cap refs) \cup produced

BoundConflict(s, declared) == s.declared \notin {NoOrdinal, declared}

\* UnmatchedConnectionFates::open and ::complete, for the live handle and replay.
Opened(s, i) ==
    CASE i \notin s.active -> Fault(s, "UnknownConnectionAllocation")
      [] i \in s.active /\ \E u \in s.unmatched : u.startup # s.startup -> Fault(s, "CrossGenerationOpen")
      [] i \in s.active /\ \E u \in s.unmatched : u.conn = i -> Fault(s, "DuplicateConnectionOpen")
      [] i \in s.active /\ Cardinality(s.unmatched) >= s.declared ->
            Fault(s, "HistoricalConnectionFateBoundExceeded")
      [] OTHER -> [s EXCEPT !.next = @ + 1,
                            !.unmatched = @ \cup {[open |-> s.next, conn |-> i, startup |-> s.startup]}]
Completed(s, o) ==
    IF \A u \in s.unmatched : u.open # o THEN Fault(s, "CompleteForAbsentOpen")
    ELSE [s EXCEPT !.next = @ + 1, !.unmatched = {u \in @ : u.open # o}]

-----------------------------------------------------------------------------
(* Replay of the stream: ReplayAccumulator.                                *)

ApplyStartup(s) ==
    IF s.server = MaxServer THEN Fault(s, "StartupAfterServerExhaustion")
    ELSE [s EXCEPT !.server = @ + 1, !.last = NoOrdinal, !.exhausted = FALSE, !.next = @ + 1,
                   !.startup = s.next, !.declared = NoOrdinal, !.active = {}]

ApplyAllocate(s, refs, declared) ==
    CASE s.startup = NoOrdinal -> Fault(s, "AllocateBeforeStartup")
      [] s.startup # NoOrdinal /\ BoundConflict(s, declared) -> Fault(s, "GenerationReferenceBoundConflict")
      [] s.startup # NoOrdinal /\ Cardinality(refs) > declared -> Fault(s, "ReferenceCountExceedsBound")
      [] s.startup # NoOrdinal /\ AlreadyExhausted(s) -> Fault(s, "AllocateAfterOrdinalExhaustion")
      [] OTHER -> [Examined(s, refs) EXCEPT !.declared = declared, !.next = @ + 1,
                                            !.active = Retained(@, refs, Produced(s, refs))]

ApplyEvent(s, e) ==
    CASE s.fault # "none" -> s
      [] s.fault = "none" /\ e.kind = "startup"  -> ApplyStartup(s)
      [] s.fault = "none" /\ e.kind = "allocate" -> ApplyAllocate(s, e.refs, e.declared)
      [] s.fault = "none" /\ e.kind = "open"     -> Opened(s, e.conn)
      [] s.fault = "none" /\ e.kind = "complete" -> Completed(s, e.open)

Replay(l) == FoldLeft(ApplyEvent, Genesis, l)

-----------------------------------------------------------------------------
(* The store: append is compare-and-set on the stream's length, flush      *)
(* reaches everything appended.  Either may fail, the append after its     *)
(* event has landed or not.                                                *)

Outcome == {"ok", "unflushed", "lost"}

\* flush: what is on disk once everything up to n is flushed.
FlushIgnored(n) == flushed
Flush(n) == n

AppendAndFlush(next, e, r) ==
    LET lands == next = Len(log) /\ r # "lost" IN
    /\ log' = IF lands THEN Append(log, e) ELSE log
    /\ flushed' = IF lands /\ r = "ok" THEN Flush(Len(log) + 1) ELSE flushed
AcknowledgedUnflushed(next, r) == next = Len(log) /\ r # "lost"
Acknowledged(next, r) == next = Len(log) /\ r = "ok"

\* A fold appends and flushes a row only when a slot is Bound to be folded.
FlushFor(folded) ==
    /\ flushed' = IF folded # {} THEN Flush(Len(log)) ELSE flushed
    /\ UNCHANGED log

-----------------------------------------------------------------------------
Down == [state |-> "down", stream |-> Genesis, attempts |-> 0, backoff |-> 0]
Idle == [pc |-> "idle", inc |-> [server |-> 0, ordinal |-> 0], refs |-> {}, tracked |-> FALSE, open |-> 0]

Init ==
    /\ log = <<>> /\ flushed = 0 /\ bound = {} /\ published = {} /\ fatal = {}
    /\ authority = [p \in Process |-> Down]
    /\ conn = [c \in Connection |-> Idle]
    /\ home \in Deployments

State(p) == authority[p].state
Stream(p) == authority[p].stream
Up(p) == State(p) \in {"ready", "held", "exhausted", "surrendered"}
SetAuthority(p, state, stream) ==
    authority' = [authority EXCEPT ![p].state = state, ![p].stream = stream]
FailStartup(p) == authority' = [authority EXCEPT ![p] = Down]

\* arm_hold: the handle is discarded except for the server incarnation.
Held(p) == [state |-> "held", stream |-> [Genesis EXCEPT !.server = Stream(p).server],
            attempts |-> 0, backoff |-> 1]

(* ConnectionIncarnationAuthority::startup.                                *)

Boot(p) ==
    /\ State(p) = "down" /\ Slots(p) # {} /\ Replay(log).fault = "none"
    /\ SetAuthority(p, "recovering", Replay(log))
    /\ UNCHANGED <<log, flushed, bound, conn, fatal, published>>

FirstIntent(p) == CHOOSE u \in Stream(p).unmatched : \A v \in Stream(p).unmatched : u.open <= v.open

RecoverWithoutFold(p) ==
    /\ State(p) = "recovering" /\ Stream(p).unmatched # {}
    /\ SetAuthority(p, "completing", Stream(p))
    /\ UNCHANGED <<log, flushed, bound, conn, fatal, published>>

\* handle_connection_fate appends and flushes one row for each Bound slot of
\* the Open's connection; a failure may come after the rows have landed.
RecoverFold(p) ==
    /\ State(p) = "recovering" /\ Stream(p).unmatched # {}
    /\ \/ /\ bound' = bound \ {FirstIntent(p).conn}
          /\ SetAuthority(p, "completing", Stream(p))
          /\ FlushFor(bound \cap {FirstIntent(p).conn})
       \/ /\ bound' \in {bound, bound \ {FirstIntent(p).conn}}
          /\ FailStartup(p)
          /\ UNCHANGED <<log, flushed>>
    /\ UNCHANGED <<conn, fatal, published>>

RecoverComplete(p) ==
    LET o == FirstIntent(p).open IN
    /\ State(p) = "completing"
    /\ \E r \in Outcome :
          /\ AppendAndFlush(Stream(p).next, CompleteEvent(o), r)
          /\ IF Acknowledged(Stream(p).next, r)
             THEN SetAuthority(p, "recovering", Completed(Stream(p), o))
             ELSE FailStartup(p)
    /\ UNCHANGED <<bound, conn, fatal, published>>

\* prepare_server_incarnation_startup; at the last server incarnation startup is refused.
AppendStartup(p) ==
    LET s == Stream(p) IN
    /\ State(p) = "recovering" /\ s.unmatched = {}
    /\ \/ /\ s.server = MaxServer
          /\ FailStartup(p)
          /\ UNCHANGED <<log, flushed>>
       \/ /\ s.server < MaxServer
          /\ \E r \in Outcome :
                /\ AppendAndFlush(s.next, StartupEvent, r)
                /\ IF Acknowledged(s.next, r)
                   THEN SetAuthority(p, "repairing", [Genesis EXCEPT !.server = s.server + 1,
                                                            !.next = s.next + 1, !.startup = s.next])
                   ELSE FailStartup(p)
    /\ UNCHANGED <<bound, conn, fatal, published>>

\* repair_unclean_server_restart ends every Bound slot, conversation by
\* conversation, and refuses one that a prior server does not own.
Repair(p) ==
    LET prior == {i \in bound : i.server < Stream(p).server} IN
    /\ State(p) = "repairing"
    /\ \/ /\ prior = bound
          /\ bound' = {}
          /\ SetAuthority(p, "ready", Stream(p))
          /\ FlushFor(bound)
       \/ /\ bound' \in {bound \ gone : gone \in SUBSET prior}
          /\ FailStartup(p)
          /\ UNCHANGED <<log, flushed>>
    /\ UNCHANGED <<conn, fatal, published>>

-----------------------------------------------------------------------------
(* spawn_connection and spawn_transport_connection, on the accept threads  *)
(* of several listeners.                                                   *)

InRecords(p) == {c \in Slots(p) : conn[c].pc \in {"registered", "opened", "folded"}}
Gone(c) == conn' = [conn EXCEPT ![c] = Idle]

\* try_reserve_admission and complete_active_incarnation_references.
ReadReferences(c) ==
    LET p == home[c] IN
    /\ conn[c].pc = "idle" /\ Up(p) /\ p \notin fatal
    /\ conn' = [conn EXCEPT ![c].pc = "referenced",
                            ![c].refs = {conn[d].inc : d \in InRecords(p)}]
    /\ UNCHANGED <<log, flushed, bound, authority, fatal, published>>

\* make_ready of a held authority: a countdown, then a replay.
HeldRefusal(c) ==
    LET p == home[c] IN
    /\ conn[c].pc = "referenced" /\ State(p) = "held" /\ authority[p].attempts > 0
    /\ authority' = [authority EXCEPT ![p].attempts = @ - 1]
    /\ Gone(c)
    /\ UNCHANGED <<log, flushed, bound, fatal, published>>

MayResume(c) ==
    conn[c].pc = "referenced" /\ State(home[c]) = "held" /\ authority[home[c]].attempts = 0

ServerMoved(p, r) == r.server # Stream(p).server

ResumedForgetful(r) == [Down EXCEPT !.state = "ready", !.stream = [r EXCEPT !.unmatched = {}]]
Resumed(r) == [Down EXCEPT !.state = "ready", !.stream = r]

\* resume_after_ambiguous_write; the call goes on to allocate.
Resume(c) ==
    LET p == home[c] r == Replay(log) IN
    /\ MayResume(c)
    /\ r.fault = "none" /\ r.startup # NoOrdinal /\ ~ServerMoved(p, r)
    /\ authority' = [authority EXCEPT ![p] = Resumed(r)]
    /\ UNCHANGED <<log, flushed, bound, conn, fatal, published>>

Surrender(c) ==
    LET p == home[c] r == Replay(log) IN
    /\ MayResume(c)
    /\ r.fault = "none" /\ r.startup # NoOrdinal /\ ServerMoved(p, r)
    /\ authority' = [authority EXCEPT ![p] = [Down EXCEPT !.state = "surrendered"]]
    /\ Gone(c)
    /\ UNCHANGED <<log, flushed, bound, fatal, published>>

DoubledBackoff(b) == IF 2 * b > BackoffCeiling THEN BackoffCeiling ELSE 2 * b

\* The store could not be read: back_off doubles the countdown up to its ceiling.
BackOff(c) ==
    LET p == home[c]
        next == DoubledBackoff(authority[p].backoff)
    IN
    /\ MayResume(c)
    /\ authority' = [authority EXCEPT ![p].backoff = next, ![p].attempts = next]
    /\ Gone(c)
    /\ UNCHANGED <<log, flushed, bound, fatal, published>>

NotReadyRefusal(c) ==
    /\ conn[c].pc = "referenced" /\ State(home[c]) \in {"exhausted", "surrendered"}
    /\ Gone(c)
    /\ UNCHANGED <<log, flushed, bound, authority, fatal, published>>

\* StartedIncarnationStream::allocate on the references read before the lock.
\* The pair is published only once its event is on disk.  The declared bound
\* is max_connections, which caps the records the references come from.
Allocate(c) ==
    LET p == home[c]
        s == Stream(p)
        refs == conn[c].refs
        produced == Produced(s, refs)
    IN
    /\ conn[c].pc = "referenced" /\ State(p) = "ready"
    /\ \/ /\ AlreadyExhausted(s)
          /\ SetAuthority(p, "exhausted", Genesis)
          /\ Gone(c)
          /\ UNCHANGED <<log, flushed, published>>
       \/ /\ ~AlreadyExhausted(s)
          /\ \E r \in Outcome :
             /\ AppendAndFlush(s.next, AllocateEvent(refs, MaxReferences(p)), r)
             /\ \/ /\ Acknowledged(s.next, r)
                   /\ IF produced = {}
                      THEN SetAuthority(p, "exhausted", Genesis) /\ Gone(c) /\ UNCHANGED published
                      ELSE /\ \E i \in produced :
                                 /\ conn' = [conn EXCEPT ![c] = [Idle EXCEPT !.pc = "allocated", !.inc = i]]
                                 /\ published' = published \cup {i}
                           /\ SetAuthority(p, "ready",
                                 [Examined(s, refs) EXCEPT !.declared = MaxReferences(p), !.next = @ + 1,
                                                           !.active = Retained(@, refs, produced)])
                \/ /\ ~Acknowledged(s.next, r)
                   /\ authority' = [authority EXCEPT ![p] = Held(p)]
                   /\ Gone(c)
                   /\ UNCHANGED published
    /\ UNCHANGED <<bound, fatal>>

\* register_connection, or a spawn that fails and gives its reservation back.
Register(c) ==
    /\ conn[c].pc = "allocated"
    /\ \/ conn' = [conn EXCEPT ![c].pc = "registered"]
       \/ Gone(c)
    /\ UNCHANGED <<log, flushed, bound, authority, fatal, published>>

-----------------------------------------------------------------------------
(* The connection's life and its fate: complete_connection_fate.           *)

\* A participant attaches through the connection: a conversation row, flushed,
\* names its incarnation.
Bind(c) ==
    /\ conn[c].pc = "registered" /\ home[c] \notin fatal /\ conn[c].inc \notin bound
    /\ bound' = bound \cup {conn[c].inc}
    /\ conn' = [conn EXCEPT ![c].tracked = TRUE]
    /\ FlushFor(bound')
    /\ UNCHANGED <<authority, fatal, published>>

\* No tracked conversation, no fate.
CloseUntracked(c) ==
    /\ conn[c].pc = "registered" /\ ~conn[c].tracked
    /\ Gone(c)
    /\ UNCHANGED <<log, flushed, bound, authority, fatal, published>>

MayOpen(c) ==
    /\ home[c] \notin fatal /\ State(home[c]) = "ready"
    /\ Opened(Stream(home[c]), conn[c].inc).fault = "none"

OpenFate(c) ==
    LET p == home[c] s == Stream(p) IN
    /\ conn[c].pc = "registered" /\ conn[c].tracked /\ MayOpen(c)
    /\ \E r \in Outcome :
          /\ AppendAndFlush(s.next, OpenEvent(conn[c].inc), r)
          /\ IF Acknowledged(s.next, r)
             THEN /\ SetAuthority(p, "ready", Opened(s, conn[c].inc))
                  /\ conn' = [conn EXCEPT ![c].pc = "opened", ![c].open = s.next]
             ELSE authority' = [authority EXCEPT ![p] = Held(p)] /\ Gone(c)
    /\ UNCHANGED <<bound, fatal, published>>

\* fail_fate: a service or authority that is not live, or an Open that fails
\* validation, ends the connection with its bindings in place.
RefuseFate(c) ==
    /\ conn[c].pc = "registered" /\ conn[c].tracked /\ ~MayOpen(c)
    /\ Gone(c)
    /\ UNCHANGED <<log, flushed, bound, authority, fatal, published>>

FoldFate(c) ==
    /\ conn[c].pc = "opened"
    /\ \/ /\ home[c] \notin fatal
          /\ bound' = bound \ {conn[c].inc}
          /\ FlushFor(bound \cap {conn[c].inc})
          /\ conn' = [conn EXCEPT ![c].pc = "folded"]
          /\ UNCHANGED fatal
       \/ /\ bound' \in {bound, bound \ {conn[c].inc}}
          /\ fatal' = fatal \cup {home[c]}
          /\ Gone(c)
          /\ UNCHANGED <<log, flushed>>
    /\ UNCHANGED <<authority, published>>

CompleteFate(c) ==
    LET p == home[c] s == Stream(p) o == conn[c].open IN
    /\ conn[c].pc = "folded"
    /\ Gone(c)
    /\ \/ /\ State(p) = "ready" /\ Completed(s, o).fault = "none"
          /\ \E r \in Outcome :
                /\ AppendAndFlush(s.next, CompleteEvent(o), r)
                /\ IF Acknowledged(s.next, r)
                   THEN SetAuthority(p, "ready", Completed(s, o)) /\ UNCHANGED fatal
                   ELSE authority' = [authority EXCEPT ![p] = Held(p)] /\ fatal' = fatal \cup {p}
       \/ /\ State(p) # "ready" \/ Completed(s, o).fault # "none"
          /\ fatal' = fatal \cup {p}
          /\ UNCHANGED <<log, flushed, authority>>
    /\ UNCHANGED <<bound, published>>

-----------------------------------------------------------------------------
\* A server process dies; the store keeps what it appended.
Kill(p) ==
    /\ State(p) # "down"
    /\ authority' = [authority EXCEPT ![p] = Down]
    /\ conn' = [c \in Connection |-> IF home[c] = p THEN Idle ELSE conn[c]]
    /\ fatal' = fatal \ {p}
    /\ UNCHANGED <<log, flushed, bound, published>>

\* The machine dies: what was not flushed may be lost from the end.
PowerLoss ==
    /\ \E n \in flushed..Len(log) : log' = SubSeq(log, 1, n) /\ flushed' = n
    /\ authority' = [p \in Process |-> Down]
    /\ conn' = [c \in Connection |-> Idle]
    /\ fatal' = {}
    /\ UNCHANGED <<bound, published>>

Start(p) == Boot(p) \/ RecoverFold(p) \/ RecoverComplete(p) \/ AppendStartup(p) \/ Repair(p)
Proceed(c) ==
    \/ ReadReferences(c) \/ HeldRefusal(c) \/ NotReadyRefusal(c) \/ Allocate(c) \/ Register(c)
    \/ CloseUntracked(c) \/ OpenFate(c) \/ RefuseFate(c) \/ FoldFate(c) \/ CompleteFate(c)

Next ==
    /\ \/ \E p \in Process : Start(p) \/ Kill(p)
       \/ \E c \in Connection : Proceed(c) \/ Resume(c) \/ Surrender(c) \/ BackOff(c) \/ Bind(c)
       \/ PowerLoss
    /\ UNCHANGED home

Spec == Init /\ [][Next]_vars

-----------------------------------------------------------------------------
\* Types; a binding and a reference name pairs that were published.
TypeOK ==
    /\ flushed \in 0..Len(log)
    /\ bound \subseteq published /\ published \subseteq Incarnation /\ fatal \subseteq Process
    /\ \A p \in Process :
          /\ State(p) \in {"down", "recovering", "completing", "repairing", "ready", "held",
                           "exhausted", "surrendered"}
          /\ Stream(p).server \in 0..MaxServer
          /\ Stream(p).active \subseteq published \cup Incarnation
          /\ authority[p].attempts \in 0..BackoffCeiling
    /\ \A c \in Connection :
          /\ conn[c].pc \in {"idle", "referenced", "allocated", "registered", "opened", "folded"}
          /\ conn[c].refs \subseteq published

\* A (server, ordinal) pair is handed to one connection in the whole life of
\* the store, whatever processes start over it, die, or lose an acknowledgement.
PublishedOnce ==
    [][\A c \in Connection :
          conn[c].pc = "referenced" /\ conn'[c].pc = "allocated" => conn'[c].inc \notin published]_vars

\* Whatever the machine may leave of the stream, a server can start from it:
\* replay never meets an event it refuses.
ReplayNeverRefuses == \A n \in flushed..Len(log) : Replay(SubSeq(log, 1, n)).fault = "none"

\* A ready handle that is at the end of the stream holds exactly what a cold
\* replay would compute: resume_after_ambiguous_write loses and invents nothing.
LiveIsReplay ==
    \A p \in Process :
        State(p) \in {"ready", "repairing"} /\ Stream(p).next = Len(log) => Stream(p) = Replay(log)

\* A Complete is on record only for a connection no participant is bound to
\* any more: the fold comes first, live and in recovery.
CompleteMeansFolded ==
    \A k \in 1..Len(log) :
        log[k].kind = "complete" => log[log[k].open + 1].conn \notin bound

\* Whatever is left of the stream, the next startup takes an incarnation above
\* every one a participant is bound to, so repair_unclean_server_restart finds
\* only bindings of prior servers and ends them all.
BindingsPredateNextServer ==
    \A n \in flushed..Len(log) : \A i \in bound : i.server <= Replay(SubSeq(log, 1, n)).server

\* Two processes never work under one server incarnation: the one that lost
\* the stream to a later startup surrenders instead of resuming on its events.
OneOwnerPerIncarnation ==
    \A p, q \in Process :
        p # q /\ {State(p), State(q)} \subseteq {"repairing", "ready", "held"}
            => Stream(p).server # Stream(q).server

\* Whatever a power loss leaves, the next start replays it and outranks every
\* binding.
NextStartSound == TypeOK /\ ReplayNeverRefuses /\ BindingsPredateNextServer

\* A handle that resumes after an ambiguous write is exact and is the only owner
\* of its server incarnation.
ResumeExact == LiveIsReplay /\ OneOwnerPerIncarnation
=============================================================================
