------------------------ MODULE ConnectionRegistry ------------------------
(***************************************************************************)
(* The connection supervisor's host-side registry: admission and spawn, the *)
(* host records and the one removal funnel, server pushes and their reply  *)
(* slots, the control queue, worker registrations, the exit-event reactor  *)
(* and the drain waiter.  Each mutex section of the code is one step, so   *)
(* spawn threads, connection processes, pushers, the reactor and the       *)
(* shutdown thread interleave between them as they do in the server.       *)
(***************************************************************************)
EXTENDS Naturals, Sequences, FiniteSets

CONSTANTS MaxSpawns,       \* bound: connections ever accepted
          MaxConnections,  \* limits.max_connections
          MaxPushes,       \* bound: server pushes ever started
          PushCap,         \* limits.max_pending_pushes_per_connection
          ExitCap,         \* capacity of beamr's exit-event queue
          Quotas           \* bounds: the environments considered, one per behaviour

ASSUME BoundsAssumption == {MaxSpawns, MaxConnections, MaxPushes, PushCap, ExitCap} \subseteq Nat
ASSUME QuotasAssumption ==
    Quotas \subseteq [spawns : 0..MaxSpawns, pushes : 0..MaxPushes, deadlines : BOOLEAN,
                      closes : BOOLEAN, workers : BOOLEAN, drains : BOOLEAN, stops : BOOLEAN]

Pids == 1..MaxSpawns
Pushes == 1..MaxPushes
ForceClose == 0            \* the control that is not a push
None == 0

\* Who can run the removal funnel: a connection's last slice, the spawn
\* thread's orphan check, the exit-event reactor, and the supervisor's
\* shutdown, which alone removes the record of a process that still runs.
Reactor == <<"reactor", None>>
Host == <<"host", None>>
Process(p) == <<"process", p>>
Spawner(p) == <<"spawner", p>>
Actors == ({"process", "spawner"} \X Pids) \cup {Reactor, Host}

VARIABLES admissions,  \* the atomic admission counter
          spawn,       \* [pid -> where its spawn thread is]
          pc,          \* [pid -> where its process is]
          records,     \* pids with a host record
          registered,  \* pids whose record carries a worker registration
          funnel,      \* [actor -> its progress through `remove`]
          push,        \* [push -> its caller's progress, the pid and the result]
          slots,       \* pushes with a slot in push_replies
          chan,        \* [push -> its reply channel]
          due,         \* pushes whose deadline has passed
          controls,    \* [pid -> control queue]
          mail,        \* pids with a CONTROL atom in the mailbox
          closing,     \* [pid -> the shutdown thread's ForceClose]
          popped,      \* pushes whose control a process has taken
          sent,        \* pushes written to the client
          exits,       \* beamr's exit events
          lagged,      \* the queue overflowed
          scan,        \* pids the reactor's reconciliation has still to look at
          workers,     \* pids the application believes registered
          missed,      \* pids whose registration found the record gone
          drain,       \* the drain waiter
          generation,  \* drain_generation
          finishing,   \* pids the supervisor's shutdown has still to finish
          quota        \* what this behaviour's environment may do (a bound)

spawning == <<admissions, spawn, records, registered>>
pushing == <<push, slots, chan, due>>
control == <<controls, mail, closing, popped, sent>>
exiting == <<exits, lagged, scan>>
working == <<workers, missed>>
draining == <<drain, generation, finishing, quota>>
vars == <<spawning, pc, funnel, pushing, control, exiting, working, draining>>

ProcessTable == {p \in Pids : pc[p] \notin {"none", "dead"}}
Live(p) == p \in ProcessTable
Idle == [step |-> "idle", pid |-> None, had |-> "none"]
Owned(p) == {c \in slots : push[c].pid = p}
InQueue(c) == \E p \in Pids : \E i \in DOMAIN controls[p] : controls[p][i] = c
\* remove_control: the first entry equal to c, if there is one, leaves the queue.
Position(q, c) == CHOOSE i \in DOMAIN q : q[i] = c /\ \A j \in 1..(i - 1) : q[j] # c
Without(q, c) ==
    IF \A i \in DOMAIN q : q[i] # c THEN q
    ELSE [i \in 1..(Len(q) - 1) |-> IF i < Position(q, c) THEN q[i] ELSE q[i + 1]]

TypeOK ==
    /\ admissions \in 0..MaxConnections
    /\ spawn \in [Pids -> {"idle", "reserved", "spawned", "registered", "reclaiming", "converted", "failed"}]
    /\ pc \in [Pids -> {"none", "ready", "controls", "slice", "serving", "marking", "closing", "dead"}]
    /\ records \subseteq Pids /\ registered \subseteq records
    /\ funnel \in [Actors -> [step : {"idle", "remove", "sweep", "release", "signal", "fire"},
                              pid : Pids \cup {None}, had : {"none", "plain", "worker"}]]
    /\ push \in [Pushes -> [pc : {"idle", "confirm", "rollback", "queue", "wake", "unqueue",
                                  "cancel", "await", "expire", "done"},
                            pid : Pids \cup {None},
                            result : {"none", "err", "reply", "disconnected", "expired", "timeout"}]]
    /\ slots \subseteq Pushes /\ due \subseteq Pushes
    /\ popped \subseteq Pushes /\ sent \subseteq popped
    /\ chan \in [Pushes -> {"empty", "reply", "closed"}]
    /\ controls \in [Pids -> Seq(Pushes \cup {ForceClose})]
    /\ mail \subseteq Pids /\ scan \subseteq Pids /\ finishing \subseteq Pids
    /\ workers \subseteq Pids /\ missed \subseteq Pids
    /\ closing \in [Pids -> {"idle", "wake", "unqueue", "done"}]
    /\ exits \in Seq(Pids) /\ Len(exits) <= ExitCap /\ lagged \in BOOLEAN
    /\ drain \in [pc : {"idle", "arm", "observe", "park", "parked", "drained", "expired"},
                  snapshot : Nat, due : BOOLEAN]
    /\ generation \in Nat /\ quota \in Quotas

Init ==
    /\ admissions = 0
    /\ spawn = [p \in Pids |-> "idle"] /\ pc = [p \in Pids |-> "none"]
    /\ records = {} /\ registered = {} /\ workers = {} /\ missed = {}
    /\ funnel = [a \in Actors |-> Idle]
    /\ push = [c \in Pushes |-> [pc |-> "idle", pid |-> None, result |-> "none"]]
    /\ slots = {} /\ due = {} /\ popped = {} /\ sent = {}
    /\ chan = [c \in Pushes |-> "empty"]
    /\ controls = [p \in Pids |-> <<>>] /\ mail = {}
    /\ closing = [p \in Pids |-> "idle"]
    /\ exits = <<>> /\ lagged = FALSE /\ scan = {}
    /\ drain = [pc |-> "idle", snapshot |-> 0, due |-> FALSE]
    /\ generation = 0 /\ finishing = {}
    /\ quota \in Quotas

-----------------------------------------------------------------------------
(* The removal funnel.  Every teardown route runs these steps in order; a  *)
(* record that is already gone still has its slots swept.                  *)

\* Dropping a slot's sender: a reply already sent stays readable.
Disconnect(cs) == [c \in Pushes |-> IF c \in cs THEN "closed" ELSE chan[c]]

StartFunnel(a, p) == funnel' = [funnel EXCEPT ![a] = [step |-> "remove", pid |-> p, had |-> "none"]]

FunnelRemove(a) ==
    LET p == funnel[a].pid IN
    /\ funnel[a].step = "remove"
    /\ funnel' = [funnel EXCEPT ![a] = [step |-> "sweep", pid |-> p,
                     had |-> IF p \in registered THEN "worker"
                             ELSE IF p \in records THEN "plain" ELSE "none"]]
    /\ records' = records \ {p} /\ registered' = registered \ {p}
    /\ UNCHANGED <<admissions, spawn, pc, pushing, control, exiting, working, draining>>

FunnelSweep(a) ==
    /\ funnel[a].step = "sweep"
    /\ slots' = slots \ Owned(funnel[a].pid)
    /\ chan' = Disconnect(Owned(funnel[a].pid))
    /\ funnel' = [funnel EXCEPT ![a] = IF @.had = "none" THEN Idle ELSE [@ EXCEPT !.step = "release"]]
    /\ UNCHANGED <<spawning, pc, push, due, control, exiting, working, draining>>

ReleaseAdmission == admissions' = IF admissions = 0 THEN 0 ELSE admissions - 1

FunnelRelease(a) ==
    /\ funnel[a].step = "release"
    /\ ReleaseAdmission
    /\ funnel' = [funnel EXCEPT ![a].step = "signal"]
    /\ UNCHANGED <<spawn, records, registered, pc, pushing, control, exiting, working, draining>>

FunnelSignal(a) ==
    /\ funnel[a].step = "signal"
    /\ generation' = generation + 1
    /\ funnel' = [funnel EXCEPT ![a].step = "fire"]
    /\ UNCHANGED <<spawning, pc, pushing, control, exiting, working, drain, finishing, quota>>

FunnelFire(a) ==
    /\ funnel[a].step = "fire"
    /\ workers' = IF funnel[a].had = "worker" THEN workers \ {funnel[a].pid} ELSE workers
    /\ funnel' = [funnel EXCEPT ![a] = Idle]
    /\ UNCHANGED <<spawning, pc, pushing, control, exiting, missed, draining>>

Funnel(a) ==
    \/ FunnelRemove(a) \/ FunnelSweep(a) \/ FunnelRelease(a)
    \/ FunnelSignal(a) \/ FunnelFire(a)

-----------------------------------------------------------------------------
(* The spawn thread of one accepted connection.                            *)

\* Connections are numbered in the order they are accepted.
Accepted(p) == p <= quota.spawns /\ \A q \in 1..(p - 1) : spawn[q] # "idle"

Reserve(p) ==
    /\ spawn[p] = "idle" /\ Accepted(p)
    /\ admissions < MaxConnections
    /\ admissions' = admissions + 1
    /\ spawn' = [spawn EXCEPT ![p] = "reserved"]
    /\ UNCHANGED <<records, registered, pc, funnel, pushing, control, exiting, working, draining>>

\* Any failure before the process exists drops the reservation.
SpawnFails(p) ==
    /\ spawn[p] = "reserved"
    /\ ReleaseAdmission
    /\ spawn' = [spawn EXCEPT ![p] = "failed"]
    /\ UNCHANGED <<records, registered, pc, funnel, pushing, control, exiting, working, draining>>

SpawnNative(p) ==
    /\ spawn[p] = "reserved"
    /\ spawn' = [spawn EXCEPT ![p] = "spawned"]
    /\ pc' = [pc EXCEPT ![p] = "ready"]
    /\ UNCHANGED <<admissions, records, registered, funnel, pushing, control, exiting, working, draining>>

RegisterRecord(p) ==
    /\ spawn[p] = "spawned"
    /\ spawn' = [spawn EXCEPT ![p] = "registered"]
    /\ records' = records \cup {p}
    /\ UNCHANGED <<admissions, registered, pc, funnel, pushing, control, exiting, working, draining>>

\* Mutant: the registration is not reconciled with the process table.
ReconcileNothing(p) ==
    /\ spawn[p] = "registered"
    /\ spawn' = [spawn EXCEPT ![p] = "converted"]
    /\ UNCHANGED <<admissions, records, registered, pc, funnel, pushing, control, exiting, working, draining>>

ReconcileRegisterOrphan(p) ==
    /\ spawn[p] = "registered"
    /\ \/ /\ Live(p)
          /\ spawn' = [spawn EXCEPT ![p] = "converted"]
          /\ UNCHANGED funnel
       \/ /\ ~Live(p)
          /\ spawn' = [spawn EXCEPT ![p] = "reclaiming"]
          /\ StartFunnel(Spawner(p), p)
    /\ UNCHANGED <<admissions, records, registered, pc, pushing, control, exiting, working, draining>>

Convert(p) ==
    /\ spawn[p] = "reclaiming" /\ funnel[Spawner(p)] = Idle
    /\ spawn' = [spawn EXCEPT ![p] = "converted"]
    /\ UNCHANGED <<admissions, records, registered, pc, funnel, pushing, control, exiting, working, draining>>

-----------------------------------------------------------------------------
(* The connection process.                                                 *)

\* beamr publishes one exit event per process; a full queue leaves Lagged.
PublishExit(p) ==
    /\ exits' = IF Len(exits) < ExitCap THEN Append(exits, p) ELSE exits
    /\ lagged' = (lagged \/ Len(exits) >= ExitCap)
    /\ UNCHANGED scan

RunSlice(p) ==
    /\ pc[p] = "ready"
    /\ pc' = [pc EXCEPT ![p] = IF p \in mail THEN "controls" ELSE "slice"]
    /\ mail' = mail \ {p}
    /\ UNCHANGED <<spawning, funnel, pushing, controls, closing, popped, sent, exiting, working, draining>>

\* handle_control: a push is written or, with the stream gone or the outbound
\* buffer full, its slot is cancelled; ForceClose ends the process.
PopControl(p) ==
    /\ pc[p] = "controls" /\ controls[p] # <<>>
    /\ controls' = [controls EXCEPT ![p] = Tail(@)]
    /\ LET c == Head(controls[p]) IN
       \/ /\ c = ForceClose
          /\ pc' = [pc EXCEPT ![p] = "closing"]
          /\ StartFunnel(Process(p), p)
          /\ UNCHANGED <<popped, sent, slots, chan>>
       \/ /\ c # ForceClose
          /\ popped' = popped \cup {c}
          /\ \/ sent' = sent \cup {c} /\ UNCHANGED <<slots, chan>>
             \/ /\ slots' = slots \ {c} /\ chan' = Disconnect({c} \cap slots)
                /\ UNCHANGED sent
          /\ UNCHANGED <<pc, funnel>>
    /\ UNCHANGED <<spawning, push, due, mail, closing, exiting, working, draining>>

\* The mailbox loop goes on while atoms keep arriving.
ControlsDrained(p) ==
    /\ pc[p] = "controls" /\ controls[p] = <<>>
    /\ pc' = [pc EXCEPT ![p] = IF p \in mail THEN "controls" ELSE "slice"]
    /\ mail' = mail \ {p}
    /\ UNCHANGED <<spawning, funnel, pushing, controls, closing, popped, sent, exiting, working, draining>>

\* is_registered is asked once, at the slice's start: a slice before the
\* record exists yields.
EnterSlice(p) ==
    /\ pc[p] = "slice"
    /\ pc' = [pc EXCEPT ![p] = IF p \in records THEN "serving" ELSE "ready"]
    /\ UNCHANGED <<spawning, funnel, pushing, control, exiting, working, draining>>

\* Nothing from the client.
SliceIdle(p) ==
    /\ pc[p] = "serving"
    /\ pc' = [pc EXCEPT ![p] = "ready"]
    /\ UNCHANGED <<spawning, funnel, pushing, control, exiting, working, draining>>

\* resolve_push: removal and send are one critical section.
ResolvePush(p) ==
    /\ pc[p] = "serving"
    /\ \E c \in sent :
          /\ push[c].pid = p
          /\ slots' = slots \ {c}
          /\ chan' = IF c \in slots THEN [chan EXCEPT ![c] = "reply"] ELSE chan
    /\ pc' = [pc EXCEPT ![p] = "ready"]
    /\ UNCHANGED <<spawning, funnel, push, due, control, exiting, working, draining>>

\* worker_register_response: the application accepts, and only then is the
\* record marked, if it is still there.
WorkerAccept(p) ==
    /\ pc[p] = "serving" /\ quota.workers
    /\ workers' = workers \cup {p}
    /\ pc' = [pc EXCEPT ![p] = "marking"]
    /\ UNCHANGED <<spawning, funnel, pushing, control, exiting, missed, draining>>

SetRegistration(p) ==
    /\ pc[p] = "marking"
    /\ registered' = IF p \in records THEN registered \cup {p} ELSE registered
    /\ missed' = IF p \in records THEN missed ELSE missed \cup {p}
    /\ pc' = [pc EXCEPT ![p] = "ready"]
    /\ UNCHANGED <<admissions, spawn, records, funnel, pushing, control, exiting, workers, draining>>

\* The slice ends the connection: EOF, a client Close, or any crash route.
SliceEnds(p) ==
    /\ pc[p] = "serving"
    /\ pc' = [pc EXCEPT ![p] = "closing"]
    /\ StartFunnel(Process(p), p)
    /\ UNCHANGED <<spawning, pushing, control, exiting, working, draining>>

\* An ERROR atom crashes the process even before its record exists.
ErrorMessage(p) ==
    /\ pc[p] = "ready"
    /\ pc' = [pc EXCEPT ![p] = "closing"]
    /\ StartFunnel(Process(p), p)
    /\ UNCHANGED <<spawning, pushing, control, exiting, working, draining>>

Stop(p) ==
    /\ pc[p] = "closing" /\ funnel[Process(p)] = Idle
    /\ pc' = [pc EXCEPT ![p] = "dead"]
    /\ PublishExit(p)
    /\ UNCHANGED <<spawning, funnel, pushing, control, working, draining>>

\* External termination or scheduler teardown: no last slice runs.
Kill(p) ==
    /\ pc[p] = "ready"
    /\ pc' = [pc EXCEPT ![p] = "dead"]
    /\ PublishExit(p)
    /\ UNCHANGED <<spawning, funnel, pushing, control, working, draining>>

-----------------------------------------------------------------------------
(* The exit-event reactor.                                                 *)

ReactorFree == funnel[Reactor] = Idle /\ scan = {}

DeliverReclamation ==
    /\ ReactorFree /\ exits # <<>>
    /\ exits' = Tail(exits)
    /\ StartFunnel(Reactor, Head(exits))
    /\ UNCHANGED <<spawning, pc, pushing, control, lagged, scan, working, draining>>

ReapCrashed ==
    /\ ReactorFree /\ lagged
    /\ lagged' = FALSE /\ scan' = records
    /\ UNCHANGED <<spawning, pc, funnel, pushing, control, exits, working, draining>>

ReapOne ==
    /\ funnel[Reactor] = Idle
    /\ \E p \in scan :
          /\ scan' = scan \ {p}
          /\ IF Live(p) THEN UNCHANGED funnel ELSE StartFunnel(Reactor, p)
    /\ UNCHANGED <<spawning, pc, pushing, control, exits, lagged, working, draining>>

-----------------------------------------------------------------------------
(* A caller of push_to_connection, and its PushReplyAwaiter.               *)

At(c, l) == push[c].pc = l
Goto(c, l) == push' = [push EXCEPT ![c].pc = l]
Return(c, r) == push' = [push EXCEPT ![c] = [pc |-> "done", pid |-> @.pid, result |-> r]]

RegisterPush(c) ==
    /\ At(c, "idle") /\ c <= quota.pushes /\ \A d \in 1..(c - 1) : ~At(d, "idle")
    /\ \E p \in Pids :
          /\ spawn[p] \notin {"idle", "reserved", "failed"}
          /\ LET refused == Cardinality(Owned(p)) >= PushCap IN
             /\ push' = [push EXCEPT ![c] = [pc |-> IF refused THEN "done" ELSE "confirm", pid |-> p,
                                             result |-> IF refused THEN "err" ELSE "none"]]
             /\ slots' = IF refused THEN slots ELSE slots \cup {c}
    /\ UNCHANGED <<spawning, pc, funnel, chan, due, control, exiting, working, draining>>

\* Mutant: the record is not looked at again after the insert.
ConfirmAlways(c) ==
    /\ At(c, "confirm")
    /\ Goto(c, "queue")
    /\ UNCHANGED <<spawning, pc, funnel, slots, chan, due, control, exiting, working, draining>>

ConfirmPushRegistration(c) ==
    /\ At(c, "confirm")
    /\ Goto(c, IF push[c].pid \in records THEN "queue" ELSE "rollback")
    /\ UNCHANGED <<spawning, pc, funnel, slots, chan, due, control, exiting, working, draining>>

\* cancel_push, on a refused confirmation and on a failed publication.
CancelPush(c) ==
    /\ At(c, "rollback") \/ At(c, "cancel")
    /\ slots' = slots \ {c} /\ chan' = Disconnect({c} \cap slots)
    /\ Return(c, "err")
    /\ UNCHANGED <<spawning, pc, funnel, due, control, exiting, working, draining>>

PushControl(c) ==
    /\ At(c, "queue")
    /\ controls' = [controls EXCEPT ![push[c].pid] = Append(@, c)]
    /\ Goto(c, "wake")
    /\ UNCHANGED <<spawning, pc, funnel, slots, chan, due, mail, closing, popped, sent, exiting, working, draining>>

\* enqueue_atom_message reaches only a process that is in the table.
WakeProcess(c) ==
    /\ At(c, "wake")
    /\ mail' = IF Live(push[c].pid) THEN mail \cup {push[c].pid} ELSE mail
    /\ Goto(c, IF Live(push[c].pid) THEN "await" ELSE "unqueue")
    /\ UNCHANGED <<spawning, pc, funnel, slots, chan, due, controls, closing, popped, sent, exiting, working, draining>>

\* Mutant: a failed wake is taken to mean nobody saw the control.
AssumeUnpublished(c) ==
    /\ At(c, "unqueue")
    /\ controls' = [controls EXCEPT ![push[c].pid] = Without(@, c)]
    /\ Goto(c, "cancel")
    /\ UNCHANGED <<spawning, pc, funnel, slots, chan, due, mail, closing, popped, sent, exiting, working, draining>>

\* The entry's fate is the verdict: still there, it was never published.
RemoveControl(c) ==
    /\ At(c, "unqueue")
    /\ controls' = [controls EXCEPT ![push[c].pid] = Without(@, c)]
    /\ Goto(c, IF InQueue(c) THEN "cancel" ELSE "await")
    /\ UNCHANGED <<spawning, pc, funnel, slots, chan, due, mail, closing, popped, sent, exiting, working, draining>>

DeadlinePasses(c) ==
    /\ quota.deadlines /\ c \notin due /\ ~At(c, "idle") /\ ~At(c, "done")
    /\ due' = due \cup {c}
    /\ UNCHANGED <<spawning, pc, funnel, push, slots, chan, control, exiting, working, draining>>

\* try_take_reply or recv_timeout: what the channel holds decides.
TakeReply(c) ==
    /\ At(c, "await") /\ chan[c] # "empty"
    /\ Return(c, IF chan[c] = "reply" THEN "reply" ELSE "disconnected")
    /\ UNCHANGED <<spawning, pc, funnel, slots, chan, due, control, exiting, working, draining>>

\* The channel was empty and the deadline is due: go to the registry.
DeadlineDue(c) ==
    /\ At(c, "await") /\ chan[c] = "empty" /\ c \in due
    /\ Goto(c, "expire")
    /\ UNCHANGED <<spawning, pc, funnel, slots, chan, due, control, exiting, working, draining>>

ExpireSlot(c) ==
    /\ At(c, "expire")
    /\ slots' = slots \ {c}
    /\ Return(c, IF c \in slots THEN "expired"
                 ELSE CASE chan[c] = "reply" -> "reply"
                        [] chan[c] = "closed" -> "disconnected"
                        [] OTHER -> "timeout")
    /\ UNCHANGED <<spawning, pc, funnel, chan, due, control, exiting, working, draining>>

-----------------------------------------------------------------------------
(* The shutdown thread: force close, the drain waiter, the last removals.   *)

\* The pids were collected earlier: the record may be gone by now.
ForceCloseQueue(p) ==
    /\ quota.closes /\ closing[p] = "idle"
    /\ spawn[p] \in {"registered", "reclaiming", "converted"}
    /\ controls' = [controls EXCEPT ![p] = Append(@, ForceClose)]
    /\ closing' = [closing EXCEPT ![p] = "wake"]
    /\ UNCHANGED <<spawning, pc, funnel, pushing, mail, popped, sent, exiting, working, draining>>

ForceCloseWake(p) ==
    /\ closing[p] = "wake"
    /\ mail' = IF Live(p) THEN mail \cup {p} ELSE mail
    /\ closing' = [closing EXCEPT ![p] = IF Live(p) THEN "done" ELSE "unqueue"]
    /\ UNCHANGED <<spawning, pc, funnel, pushing, controls, popped, sent, exiting, working, draining>>

ForceCloseUnqueue(p) ==
    /\ closing[p] = "unqueue"
    /\ controls' = [controls EXCEPT ![p] = Without(@, ForceClose)]
    /\ closing' = [closing EXCEPT ![p] = "done"]
    /\ UNCHANGED <<spawning, pc, funnel, pushing, mail, popped, sent, exiting, working, draining>>

\* ConnectionSupervisor::shutdown: every record it sees is finished, while its
\* process may be in the middle of a slice; the scheduler is stopped after that.
Shutdown ==
    /\ quota.stops /\ funnel[Host] = Idle /\ finishing = {} /\ records # {}
    /\ finishing' = records
    /\ UNCHANGED <<spawning, pc, funnel, pushing, control, exiting, working, drain, generation, quota>>

Finish ==
    /\ funnel[Host] = Idle
    /\ \E p \in finishing : finishing' = finishing \ {p} /\ StartFunnel(Host, p)
    /\ UNCHANGED <<spawning, pc, pushing, control, exiting, working, drain, generation, quota>>

Drain(from, to) == drain.pc = from /\ drain' = [drain EXCEPT !.pc = to]

DrainStart ==
    /\ quota.drains /\ Drain("idle", "arm")
    /\ UNCHANGED <<spawning, pc, funnel, pushing, control, exiting, working, generation, finishing, quota>>

DrainArm ==
    /\ drain.pc = "arm"
    /\ drain' = [pc |-> "observe", snapshot |-> generation, due |-> drain.due]
    /\ UNCHANGED <<spawning, pc, funnel, pushing, control, exiting, working, generation, finishing, quota>>

\* An empty registry wins a tie with the deadline.
DrainObserve ==
    /\ Drain("observe", IF records = {} THEN "drained" ELSE IF drain.due THEN "expired" ELSE "park")
    /\ UNCHANGED <<spawning, pc, funnel, pushing, control, exiting, working, generation, finishing, quota>>

\* wait_timeout_while tests its predicate before it sleeps.
DrainPark ==
    /\ Drain("park", IF generation = drain.snapshot THEN "parked" ELSE "arm")
    /\ UNCHANGED <<spawning, pc, funnel, pushing, control, exiting, working, generation, finishing, quota>>

DrainWoken ==
    /\ generation # drain.snapshot \/ drain.due
    /\ Drain("parked", "arm")
    /\ UNCHANGED <<spawning, pc, funnel, pushing, control, exiting, working, generation, finishing, quota>>

DrainDeadline ==
    /\ ~drain.due /\ drain.pc \notin {"idle", "drained"}
    /\ drain' = [drain EXCEPT !.due = TRUE]
    /\ UNCHANGED <<spawning, pc, funnel, pushing, control, exiting, working, generation, finishing, quota>>

-----------------------------------------------------------------------------
SpawnThread(p) ==
    \/ Reserve(p) \/ SpawnFails(p) \/ SpawnNative(p) \/ RegisterRecord(p)
    \/ ReconcileRegisterOrphan(p) \/ Convert(p)
Slice(p) ==
    \/ EnterSlice(p) \/ SliceIdle(p) \/ ResolvePush(p)
    \/ WorkerAccept(p) \/ SetRegistration(p) \/ SliceEnds(p)
Handler(p) == PopControl(p) \/ ControlsDrained(p) \/ Slice(p) \/ Stop(p)
ReactorStep == DeliverReclamation \/ ReapCrashed \/ ReapOne
Caller(c) ==
    \/ ConfirmPushRegistration(c) \/ CancelPush(c) \/ PushControl(c) \/ WakeProcess(c)
    \/ RemoveControl(c) \/ TakeReply(c) \/ DeadlineDue(c) \/ ExpireSlot(c)
Closer(p) == ForceCloseWake(p) \/ ForceCloseUnqueue(p)
Waiter == DrainArm \/ DrainObserve \/ DrainPark \/ DrainWoken

Next ==
    \/ \E p \in Pids :
          \/ SpawnThread(p) \/ RunSlice(p) \/ Handler(p) \/ ErrorMessage(p) \/ Kill(p)
          \/ ForceCloseQueue(p) \/ Closer(p)
    \/ \E a \in Actors : Funnel(a)
    \/ \E c \in Pushes : RegisterPush(c) \/ Caller(c) \/ DeadlinePasses(c)
    \/ ReactorStep
    \/ DrainStart \/ Waiter \/ DrainDeadline
    \/ Shutdown \/ Finish

Spec == Init /\ [][Next]_vars

\* Threads and the scheduler make progress, each running its own funnel;
\* clients, killers, new connections, new pushes and deadlines owe nothing.
SpawnerRuns(p) == (SpawnThread(p) /\ spawn[p] # "idle") \/ Funnel(Spawner(p))
ProcessRuns(p) == (RunSlice(p) /\ p \in mail) \/ Handler(p) \/ Funnel(Process(p))
Fairness ==
    /\ \A p \in Pids : WF_vars(SpawnerRuns(p)) /\ WF_vars(ProcessRuns(p))
    /\ \A c \in Pushes : WF_vars(Caller(c))
    /\ WF_vars(ReactorStep \/ Funnel(Reactor))
    /\ WF_vars(\E p \in Pids : Closer(p)) /\ WF_vars(Waiter)
    /\ WF_vars(Finish \/ Funnel(Host))
FairSpec == Spec /\ Fairness

-----------------------------------------------------------------------------
(* Properties *)

Removing == {a \in Actors : funnel[a].step \in {"sweep", "release"} /\ funnel[a].had # "none"}

\* The admission counter is exactly the reservations still held by a spawn
\* thread, the records, and the removals that have not released theirs yet:
\* try_reserve_admission, AdmissionReservation and remove pair one release
\* with each reservation, whichever routes race.
AdmissionsExact ==
    admissions = Cardinality({p \in Pids : spawn[p] \in {"reserved", "spawned"}})
                 + Cardinality(records) + Cardinality(Removing)

\* No reply slot outlives its connection: with the record gone, a slot is
\* still owed either the removal's sweep or its own caller's rollback
\* (confirm_push_registration's "exactly one side always observes the slot").
NoStrandedSlot ==
    \A c \in slots :
        \/ push[c].pid \in records
        \/ push[c].pc \in {"confirm", "rollback"}
        \/ \E a \in Actors : funnel[a].pid = push[c].pid /\ funnel[a].step \in {"remove", "sweep"}

\* An Err from push_with_deadline guarantees that no Push control was
\* published: no process has taken it and none ever can.
ErrMeansUnpublished ==
    \A c \in Pushes : push[c].result = "err" => c \notin popped /\ ~InQueue(c)

\* receive never reports a terminal timeout for a reply that was delivered,
\* never reports the fallback timeout of expire_slot, and reports Disconnected
\* only when the connection is closing or gone, or could not write the push.
OutcomeTruthful ==
    \A c \in Pushes :
        /\ push[c].result = "expired" => chan[c] = "empty"
        /\ push[c].result # "timeout"
        /\ push[c].result = "disconnected" =>
              \/ push[c].pid \notin records \/ pc[push[c].pid] \in {"closing", "dead"}
              \/ c \in popped \ sent

\* A process's death settles, by the reactor, its overflow recovery or the
\* spawn thread's orphan check, and with no help from a deadline: its record
\* goes, the application hears that the worker is lost, and every caller
\* awaiting its reply is answered.  One worker is never reported lost: the one
\* whose record the supervisor's shutdown took between the application's
\* acceptance and set_registration, which then has nothing to mark.
DeathSettles ==
    []<>(\A p \in Pids \ ProcessTable :
            /\ p \notin records /\ p \notin workers \ missed
            /\ \A c \in Pushes : push[c].pid = p => push[c].pc # "await")

\* A control that was queued is taken while its process lives: no wake is
\* lost between the queue, the mailbox and the drain.
ControlTaken ==
    []<>(\A c \in Pushes : push[c].pc = "await" /\ InQueue(c) => ~Live(push[c].pid))

\* The drain waiter does not sleep through the last removal: it needs no
\* deadline to see an empty registry.
DrainNotLost == []<>~(drain.pc = "parked" /\ records = {})

\* A connection that ends leaves neither an admission nor a reply slot behind,
\* and the admissions never exceed the limit.
NothingStranded == TypeOK /\ AdmissionsExact /\ NoStrandedSlot

\* What a push reports is true, of an Err as of an awaited outcome.
PushReportsTruth == ErrMeansUnpublished /\ OutcomeTruthful

\* Whatever the registry has under way settles by itself: deaths, controls and
\* the drain.
RegistrySettles == DeathSettles /\ ControlTaken /\ DrainNotLost
=============================================================================
