------------------------- MODULE ConversationActor -------------------------
(***************************************************************************)
(* One conversation of crates/liminal: the actor process, its participant  *)
(* process and exit watcher, the host-side core that outlives all three,   *)
(* and the host threads that send, receive, close and finalize.            *)
(*                                                                         *)
(* Host threads queue a command and wake the actor; the actor pops one     *)
(* command per wake.  A send is forwarded to the participant, whose reply  *)
(* goes to a waiting receive or to the inbox (an embedded conversation; a  *)
(* server connection's reply queue is module PendingReplies).              *)
(***************************************************************************)
EXTENDS Naturals, Sequences, FiniteSets

CONSTANTS Callers,           \* host threads
          Kinds,             \* operations they perform
          FailOnCrash,       \* CrashPolicy::Fail (otherwise record and continue)
          MaxSpawns,         \* bound: actor incarnations
          Faults, MaxFaults, \* processes that may die, and how often together
          MaxOps,            \* bound: host calls
          Nobody

AllKinds == {"send", "receive", "receive_timeout", "query", "close", "finalize"}

ASSUME KindsAssumption == Kinds \subseteq AllKinds
ASSUME FlagsAssumption ==
    FailOnCrash \in BOOLEAN /\ Faults \subseteq {"actor", "participant", "watcher"}
ASSUME BoundsAssumption ==
    {MaxSpawns, MaxFaults, MaxOps} \subseteq Nat /\ MaxSpawns > 0
ASSUME NobodyAssumption == Nobody \notin Callers

VARIABLES phase, finalized,
          pid, alive,        \* current actor incarnation, in the process table?
          mailbox,           \* its mailbox: wakes and trapped EXITs
          slice,             \* handler the actor is in the middle of
          linked, booted,    \* link to the participant; Boot completed (history)
          registered,        \* actor entry of the runtime registry
          watcher,           \* [incarnation -> state of its exit watcher]
          commands, nextId,
          lock,              \* restart_lock holder
          inbox, pending,    \* buffered replies; parked receives
          part,              \* participant process and its runtime registration
          requests,          \* requests forwarded to the participant
          recorded,          \* times the participant's death was recorded
          notify,            \* one exit-notifier registrant and its signals
          token,             \* its pid is in close_terminations
          call, reply,       \* [Callers -> host call, its reply channel]
          sent, produced, taken, dropped,  \* history of messages and replies
          faults, ops

actor == <<pid, alive, mailbox, slice, linked, booted, registered>>
people == <<part, requests, recorded, notify, token, watcher>>
queues == <<inbox, pending>>
history == <<sent, produced, taken, dropped>>
vars == <<phase, finalized, actor, people, queues, history, commands, nextId, lock,
          call, reply, faults, ops>>

Wake == "command"
NoSlice == [step |-> "idle", caller |-> Nobody, id |-> 0, pid |-> 0]
Idle == [pc |-> "idle", kind |-> "query", id |-> 0, target |-> 0]
Finalizing == {"fin_phase", "fin_release"}
Waiting == {"wake", "wait", "boot_wake", "boot_wait"}

TypeOK ==
    /\ phase \in {"created", "active", "closed", "failed"}
    /\ {finalized, alive, linked, booted, registered, token} \subseteq BOOLEAN
    /\ pid \in 1..MaxSpawns
    /\ mailbox \in Seq({Wake, "participant_error", "participant_normal", "watcher"})
    /\ slice \in [step : {"idle", "close_mark", "close_release", "watcher_fail",
                          "watcher_mark", "watcher_release"},
                  caller : Callers \cup {Nobody}, id : Nat, pid : Nat]
    /\ watcher \in [1..MaxSpawns -> {"none", "armed", "linked", "exit", "gone"}]
    /\ commands \in Seq([id : Nat, kind : AllKinds \cup {"boot"}, caller : Callers])
    /\ nextId \in Nat
    /\ lock \in Callers \cup {Nobody}
    /\ inbox \in Seq(Nat) /\ requests \in Seq(Nat)
    /\ pending \in Seq([caller : Callers, id : Nat])
    /\ part \in [live : BOOLEAN, woken : BOOLEAN, registered : BOOLEAN]
    /\ recorded \in 0..1
    /\ notify \in [state : {"none", "waiting", "signalled"}, signals : Nat]
    /\ call \in [Callers -> [pc : {"idle", "ensure", "push", "boot_push"} \cup Waiting \cup
                                  Finalizing,
                             kind : AllKinds, id : Nat, target : Nat]]
    /\ reply \in [Callers -> {"none", "ok", "err"}]
    /\ sent \in Nat /\ produced \in Seq(Nat) /\ taken \in Seq(Nat) /\ dropped \in Seq(Nat)
    /\ faults \in 0..MaxFaults /\ ops \in 0..MaxOps

(* spawn_with_participant has returned: the actor is booted and linked.    *)
Init ==
    /\ phase = "created" /\ finalized = FALSE
    /\ pid = 1 /\ alive = TRUE /\ mailbox = <<>> /\ slice = NoSlice
    /\ linked = TRUE /\ booted = TRUE /\ registered = TRUE
    /\ watcher = [i \in 1..MaxSpawns |-> IF i = 1 THEN "linked" ELSE "none"]
    /\ commands = <<>> /\ nextId = 1 /\ lock = Nobody
    /\ inbox = <<>> /\ pending = <<>> /\ requests = <<>>
    /\ part = [live |-> TRUE, woken |-> FALSE, registered |-> TRUE]
    /\ recorded = 0 /\ token = FALSE /\ notify = [state |-> "none", signals |-> 0]
    /\ call = [c \in Callers |-> Idle] /\ reply = [c \in Callers |-> "none"]
    /\ sent = 0 /\ produced = <<>> /\ taken = <<>> /\ dropped = <<>>
    /\ faults = 0 /\ ops = 0

-----------------------------------------------------------------------------
(* Pieces shared by several handlers.                                      *)
Listening(c, id) == call[c].id = id /\ call[c].pc \in Waiting

(* send_reply: lost on a caller that gave up.                              *)
Answers(r, who) ==
    reply' = [c \in Callers |-> IF \E w \in who : w.caller = c /\ Listening(c, w.id)
                                THEN r ELSE reply[c]]

Elements(s) == {s[i] : i \in DOMAIN s}

(* mark_finalized_and_drain_commands: the flag and the queue in one        *)
(* critical section; every queued caller is answered.                      *)
MarkFinalized ==
    /\ finalized' = TRUE
    /\ commands' = <<>>
    /\ Answers("err", Elements(commands))

(* terminate_process on the participant: with the Normal reason the linked *)
(* actor traps an EXIT, the participant's registration goes.               *)
EndParticipant == part' = [live |-> FALSE, woken |-> FALSE, registered |-> FALSE]
ExitSignal(kind) == IF part.live /\ linked THEN <<kind>> ELSE <<>>
EndWatcher == watcher' = [watcher EXCEPT ![pid] = "gone"]

-----------------------------------------------------------------------------
(* Host threads.                                                           *)
Goto(c, step) == call' = [call EXCEPT ![c].pc = step]

Return(c) ==
    /\ call' = [call EXCEPT ![c] = Idle]
    /\ reply' = [reply EXCEPT ![c] = "none"]

Begin(c, kind) ==
    /\ call[c].pc = "idle"
    /\ kind \in Kinds
    /\ ops < MaxOps
    /\ ops' = ops + 1
    /\ call' = [call EXCEPT ![c] = [Idle EXCEPT !.pc = "ensure", !.kind = kind]]
    /\ UNCHANGED <<phase, finalized, actor, people, queues, history, commands, nextId, lock,
                   reply, faults>>

(* ensure_running under restart_lock.  A closed conversation refuses; a    *)
(* query is then answered from the host-side snapshot.                     *)
EnsureRefused(c) ==
    /\ call[c].pc = "ensure" /\ call[c].kind # "finalize"
    /\ lock = Nobody
    /\ finalized \/ phase = "closed"
    /\ Return(c)
    /\ UNCHANGED <<phase, finalized, actor, people, queues, history, commands, nextId, lock,
                   faults, ops>>

EnsureLive(c) ==
    /\ call[c].pc = "ensure" /\ call[c].kind # "finalize"
    /\ lock = Nobody
    /\ ~finalized /\ phase # "closed"
    /\ alive
    /\ call' = [call EXCEPT ![c].pc = "push", ![c].target = pid]
    /\ UNCHANGED <<phase, finalized, actor, people, queues, history, commands, nextId, lock,
                   reply, faults, ops>>

(* spawn_actor_for: a new actor, registered, with an armed watcher; the    *)
(* gate stays held until Boot has been answered.                           *)
SpawnActor(c) ==
    /\ lock' = c
    /\ pid' = pid + 1 /\ alive' = TRUE /\ mailbox' = <<>> /\ UNCHANGED slice
    /\ linked' = FALSE /\ booted' = FALSE /\ registered' = TRUE
    /\ watcher' = [watcher EXCEPT ![pid + 1] = "armed"]
    /\ call' = [call EXCEPT ![c].pc = "boot_push", ![c].target = pid + 1]

EnsureSpawn(c) ==
    /\ call[c].pc = "ensure" /\ call[c].kind # "finalize"
    /\ lock = Nobody
    /\ ~finalized /\ phase # "closed"
    /\ ~alive /\ pid < MaxSpawns
    /\ SpawnActor(c)
    /\ UNCHANGED <<phase, finalized, part, requests, recorded, notify, token, queues, history,
                   commands, nextId, reply, faults, ops>>

(* rollback_actor_attempt: the attempt's actor and watcher are terminated  *)
(* (Normal: the participant survives), its registration is removed.        *)
Rollback(c) ==
    /\ alive' = FALSE /\ mailbox' = <<>> /\ linked' = FALSE
    /\ registered' = FALSE
    /\ EndWatcher
    /\ lock' = Nobody
    /\ Return(c)
    /\ UNCHANGED <<phase, finalized, pid, slice, booted, part, requests, recorded, notify, token,
                   queues, history, nextId, faults, ops>>

(* enqueue_for_pid: admission shares the queue lock with finalization.     *)
PushUnchecked(c) ==
    /\ call[c].pc \in {"push", "boot_push"}
    /\ nextId' = nextId + 1
    /\ commands' = Append(commands, [id |-> nextId, caller |-> c,
          kind |-> IF call[c].pc = "push" THEN call[c].kind ELSE "boot"])
    /\ call' = [call EXCEPT ![c].id = nextId,
                            ![c].pc = IF @ = "push" THEN "wake" ELSE "boot_wake"]
    /\ UNCHANGED <<phase, finalized, actor, people, queues, history, lock, reply, faults, ops>>

Push(c) ==
    /\ call[c].pc \in {"push", "boot_push"}
    /\ ~finalized
    /\ nextId' = nextId + 1
    /\ commands' = Append(commands, [id |-> nextId, caller |-> c,
          kind |-> IF call[c].pc = "push" THEN call[c].kind ELSE "boot"])
    /\ call' = [call EXCEPT ![c].id = nextId,
                            ![c].pc = IF @ = "push" THEN "wake" ELSE "boot_wake"]
    /\ UNCHANGED <<phase, finalized, actor, people, queues, history, lock, reply, faults, ops>>

PushRefused(c) ==
    /\ call[c].pc \in {"push", "boot_push"} /\ finalized
    /\ IF call[c].pc = "boot_push"
       THEN Rollback(c)
       ELSE /\ Return(c)
            /\ UNCHANGED <<phase, finalized, actor, people, queues, history, nextId, lock,
                           faults, ops>>
    /\ UNCHANGED commands

TargetAlive(c) == alive /\ call[c].target = pid

(* remove_command: ids are unique, so at most one command leaves the queue.*)
Position(id) == CHOOSE i \in DOMAIN commands : commands[i].id = id
Without(id) ==
    IF \A i \in DOMAIN commands : commands[i].id # id THEN commands
    ELSE [i \in 1..(Len(commands) - 1) |->
             IF i < Position(id) THEN commands[i] ELSE commands[i + 1]]

WakeActor(c) ==
    /\ call[c].pc \in {"wake", "boot_wake"}
    /\ TargetAlive(c)
    /\ mailbox' = Append(mailbox, Wake)
    /\ Goto(c, IF call[c].pc = "wake" THEN "wait" ELSE "boot_wait")
    /\ UNCHANGED <<phase, finalized, pid, alive, slice, linked, booted, registered, people,
                   queues, history, commands, nextId, lock, reply, faults, ops>>

WakeFails(c) ==
    /\ call[c].pc = "wake" /\ ~TargetAlive(c)
    /\ commands' = Without(call[c].id)
    /\ Return(c)
    /\ UNCHANGED <<phase, finalized, actor, people, queues, history, nextId, lock, faults, ops>>

BootWakeFails(c) ==
    /\ call[c].pc = "boot_wake" /\ ~TargetAlive(c)
    /\ commands' = Without(call[c].id)
    /\ Rollback(c)

(* Boot succeeded; finalization is checked once more before the actor is   *)
(* handed out.                                                             *)
BootOk(c) ==
    /\ call[c].pc = "boot_wait" /\ reply[c] = "ok"
    /\ IF finalized
       THEN Rollback(c)
       ELSE /\ lock' = Nobody
            /\ Goto(c, "push")
            /\ reply' = [reply EXCEPT ![c] = "none"]
            /\ UNCHANGED <<phase, finalized, actor, people, queues, history, nextId, faults, ops>>
    /\ UNCHANGED commands

(* Boot answered with an error, or BOOT_REPLY_TIMEOUT passed.              *)
BootFails(c) ==
    /\ call[c].pc = "boot_wait"
    /\ reply[c] # "ok"
    /\ commands' = Without(call[c].id)
    /\ Rollback(c)

(* wait_for has no deadline; receive_timeout gives up and leaves its       *)
(* command or its parked waiter behind.                                    *)
TakeReply(c) ==
    /\ call[c].pc = "wait" /\ reply[c] # "none"
    /\ Return(c)
    /\ UNCHANGED <<phase, finalized, actor, people, queues, history, commands, nextId, lock,
                   faults, ops>>

ReceiveTimesOut(c) ==
    /\ call[c].pc = "wait" /\ call[c].kind = "receive_timeout" /\ reply[c] = "none"
    /\ Return(c)
    /\ UNCHANGED <<phase, finalized, actor, people, queues, history, commands, nextId, lock,
                   faults, ops>>

(* finalize: under the same gate, mark and drain, then the phase, then     *)
(* release everything; a second finalize finds the marker.                 *)
FinalizeMark(c) ==
    /\ call[c].pc = "ensure" /\ call[c].kind = "finalize"
    /\ lock = Nobody /\ ~finalized
    /\ lock' = c
    /\ MarkFinalized
    /\ Goto(c, "fin_phase")
    /\ UNCHANGED <<phase, actor, people, inbox, pending, history,
                   nextId, faults, ops>>

FinalizeAgain(c) ==
    /\ call[c].pc = "ensure" /\ call[c].kind = "finalize"
    /\ lock = Nobody /\ finalized
    /\ Return(c)
    /\ UNCHANGED <<phase, finalized, actor, people, queues, history, commands, nextId, lock,
                   faults, ops>>

FinalizePhase(c) ==
    /\ call[c].pc = "fin_phase"
    /\ phase' = IF phase = "failed" THEN "failed" ELSE "closed"
    /\ Goto(c, "fin_release")
    /\ UNCHANGED <<finalized, actor, people, queues, history, commands, nextId, lock, reply,
                   faults, ops>>

(* Parked receives fail; participant, actor and watcher are terminated.    *)
FinalizeRelease(c) ==
    /\ call[c].pc = "fin_release"
    /\ pending' = <<>>
    /\ token' = TRUE /\ EndParticipant
    /\ alive' = FALSE /\ mailbox' = <<>> /\ linked' = FALSE /\ registered' = FALSE
    /\ EndWatcher
    /\ lock' = Nobody
    /\ call' = [call EXCEPT ![c] = Idle]
    /\ Answers("err", Elements(pending))
    /\ UNCHANGED <<phase, finalized, pid, slice, booted, requests, recorded, notify, inbox, history, commands, nextId, faults, ops>>

HostStep(c) ==
    \/ EnsureRefused(c) \/ EnsureLive(c) \/ EnsureSpawn(c)
    \/ Push(c) \/ PushRefused(c)
    \/ WakeActor(c) \/ WakeFails(c) \/ BootWakeFails(c) \/ BootOk(c) \/ BootFails(c)
    \/ TakeReply(c) \/ ReceiveTimesOut(c)
    \/ FinalizeMark(c) \/ FinalizeAgain(c) \/ FinalizePhase(c) \/ FinalizeRelease(c)

-----------------------------------------------------------------------------
(* The actor process.  A slice that is executing when its process is       *)
(* terminated runs to its end; the scheduler has one thread, so no later   *)
(* incarnation runs before it has.                                         *)
StopSelf ==
    IF slice.pid = pid
    THEN alive' = FALSE /\ mailbox' = <<>> /\ linked' = FALSE
    ELSE UNCHANGED <<alive, mailbox, linked>>

Activatable == phase \in {"created", "active"}

(* record_participant_exit: the close's own termination is suppressed; a   *)
(* death already recorded is skipped; a closed conversation keeps its      *)
(* phase; otherwise the Fail policy fails every parked receive.            *)
Signal ==
    IF notify.state = "waiting"
    THEN [state |-> "signalled", signals |-> notify.signals + 1]
    ELSE notify

RecordExit(reason, boot, answer) ==
    LET new == ~(token /\ reason = "normal") /\ recorded = 0
        fails == new /\ FailOnCrash /\ ~finalized /\ phase # "closed"
    IN /\ token' = FALSE
       /\ recorded' = IF new THEN recorded + 1 ELSE recorded
       /\ notify' = IF new THEN Signal ELSE notify
       /\ phase' = IF fails THEN "failed" ELSE phase
       /\ pending' = IF fails THEN <<>> ELSE pending
       /\ reply' = [c \in Callers |->
             IF \E w \in Elements(pending) : fails /\ w.caller = c /\ Listening(c, w.id)
             THEN "err"
             ELSE IF \E m \in boot : m.caller = c /\ Listening(c, m.id) THEN answer ELSE reply[c]]

(* Boot, link_participants: a dead participant is recorded, a live one     *)
(* linked; the watcher is linked last, or Boot fails when it is gone, with *)
(* the participant's link or recorded death already in place.              *)
LinkParticipant(m, answer) ==
    IF part.live
    THEN /\ linked' = TRUE
         /\ Answers(answer, {m})
         /\ UNCHANGED <<phase, recorded, notify, token, pending, part>>
    ELSE /\ RecordExit("unknown", {m}, answer)
         /\ part' = [part EXCEPT !.registered = FALSE]
         /\ UNCHANGED linked

BootSlice(m) ==
    /\ m.kind = "boot"
    /\ \/ /\ watcher[pid] = "armed"
          /\ watcher' = [watcher EXCEPT ![pid] = "linked"]
          /\ booted' = TRUE
          /\ LinkParticipant(m, "ok")
       \/ /\ watcher[pid] # "armed"
          /\ LinkParticipant(m, "err")
          /\ UNCHANGED <<watcher, booted>>
    /\ UNCHANGED <<alive, slice, registered, requests, inbox,
                   history, finalized>>

(* Send: recorded and forwarded; a dead participant takes the request back.*)
SendSlice(m) ==
    /\ m.kind = "send"
    /\ \/ /\ Activatable
          /\ phase' = "active"
          /\ sent' = sent + 1
          /\ IF part.live
             THEN /\ requests' = Append(requests, sent + 1)
                  /\ part' = [part EXCEPT !.woken = TRUE]
                  /\ Answers("ok", {m})
             ELSE Answers("err", {m}) /\ UNCHANGED <<requests, part>>
       \/ /\ ~Activatable
          /\ Answers("err", {m})
          /\ UNCHANGED <<phase, sent, requests, part>>
    /\ UNCHANGED <<alive, slice, linked, booted, registered, recorded, notify, token, watcher, queues,
                   produced, taken, dropped, finalized>>

(* Receive pops the inbox first.  Failed with an empty inbox reports the   *)
(* crash; a phase that cannot be active is an error; otherwise the reply   *)
(* is handed over, or the receive is parked unless finalized.              *)
ReceiveHanded(m) ==
    IF Listening(m.caller, m.id)
    THEN taken' = Append(taken, Head(inbox)) /\ UNCHANGED dropped
    ELSE dropped' = Append(dropped, Head(inbox)) /\ UNCHANGED taken

ReceiveSlice(m) ==
    /\ m.kind \in {"receive", "receive_timeout"}
    /\ inbox' = IF inbox = <<>> THEN inbox ELSE Tail(inbox)
    /\ IF ~Activatable
       THEN /\ Answers("err", {m})
            /\ UNCHANGED <<phase, pending, taken, dropped>>
       ELSE /\ phase' = "active"
            /\ IF inbox # <<>>
               THEN ReceiveHanded(m) /\ Answers("ok", {m}) /\ UNCHANGED pending
               ELSE /\ UNCHANGED <<taken, dropped>>
                    /\ IF finalized
                       THEN Answers("err", {m}) /\ UNCHANGED pending
                       ELSE /\ pending' = Append(pending, [caller |-> m.caller, id |-> m.id])
                            /\ UNCHANGED reply
    /\ UNCHANGED <<alive, slice, linked, booted, registered, people, sent, produced, finalized>>

QuerySlice(m) ==
    /\ m.kind = "query"
    /\ Answers("ok", {m})
    /\ UNCHANGED <<phase, alive, slice, linked, booted, registered, people, queues, history,
                   finalized>>

(* Close, first step: the phase (Failed stays Failed).                     *)
CloseSlice(m) ==
    /\ m.kind = "close"
    /\ phase' = IF phase = "failed" THEN "failed" ELSE "closed"
    /\ slice' = [step |-> "close_mark", caller |-> m.caller, id |-> m.id, pid |-> pid]
    /\ UNCHANGED <<alive, linked, booted, registered, people, queues, history, reply, finalized>>

ProcessNextCommand ==
    /\ alive /\ slice = NoSlice
    /\ mailbox # <<>> /\ Head(mailbox) = Wake
    /\ mailbox' = Tail(mailbox)
    /\ IF commands = <<>>
       THEN /\ UNCHANGED <<phase, alive, slice, linked, booted, registered, people, queues,
                           history, reply, finalized, commands>>
       ELSE LET m == Head(commands) IN
            /\ commands' = Tail(commands)
            /\ \/ BootSlice(m) \/ SendSlice(m) \/ ReceiveSlice(m) \/ QuerySlice(m)
               \/ CloseSlice(m)
    /\ UNCHANGED <<pid, nextId, lock, call, faults, ops>>

(* mark_finalized_and_drain_commands, then the parked receives, the        *)
(* participant, the registrations and the watcher; the slice then asks     *)
(* beamr to stop the process.                                              *)
CloseMark ==
    /\ slice.step = "close_mark"
    /\ slice' = [slice EXCEPT !.step = "close_release"]
    /\ IF finalized
       THEN UNCHANGED <<finalized, commands, reply>>
       ELSE MarkFinalized
    /\ UNCHANGED <<phase, pid, alive, mailbox, linked, booted, registered, people, inbox,
                   pending, history, nextId, lock, call, faults, ops>>

CloseRelease ==
    /\ slice.step = "close_release"
    /\ pending' = <<>>
    /\ token' = TRUE /\ EndParticipant
    /\ StopSelf /\ registered' = FALSE
    /\ slice' = NoSlice
    /\ EndWatcher
    /\ reply' = [c \in Callers |->
          IF slice.caller = c /\ Listening(c, slice.id) THEN "ok"
          ELSE IF \E w \in Elements(pending) : w.caller = c /\ Listening(c, w.id) THEN "err"
          ELSE reply[c]]
    /\ UNCHANGED <<phase, finalized, pid, booted, requests, recorded, notify, inbox, history, commands, nextId, lock, call, faults, ops>>

(* handle_participant_exit: a trapped EXIT of the participant.             *)
HandleParticipantExit ==
    /\ alive /\ slice = NoSlice
    /\ mailbox # <<>> /\ Head(mailbox) \in {"participant_error", "participant_normal"}
    /\ mailbox' = Tail(mailbox)
    /\ part' = [part EXCEPT !.registered = FALSE]
    /\ RecordExit(IF Head(mailbox) = "participant_normal" THEN "normal" ELSE "error", {}, "ok")
    /\ UNCHANGED <<finalized, pid, alive, slice, linked, booted, registered, requests, watcher,
                   inbox, history, commands, nextId, lock, call,
                   faults, ops>>

(* handle_watcher_exit: the current watcher died.  The finalized check is  *)
(* not under the state lock that the failure is recorded under.            *)
HandleWatcherExit ==
    /\ alive /\ slice = NoSlice
    /\ mailbox # <<>> /\ Head(mailbox) = "watcher"
    /\ mailbox' = Tail(mailbox)
    /\ slice' = IF finalized THEN slice ELSE [NoSlice EXCEPT !.step = "watcher_fail", !.pid = pid]
    /\ UNCHANGED <<phase, finalized, pid, alive, linked, booted, registered, people, queues,
                   history, commands, nextId, lock, call, reply, faults, ops>>

WatcherExitFails ==
    /\ slice.step = "watcher_fail"
    /\ phase' = "failed"
    /\ slice' = [slice EXCEPT !.step = "watcher_mark"]
    /\ UNCHANGED <<finalized, pid, alive, mailbox, linked, booted, registered, people, queues,
                   history, commands, nextId, lock, call, reply, faults, ops>>

(* finalize_with(false): a host finalize may have marked first, and then   *)
(* owns the release; either way this slice stops itself.                   *)
WatcherExitMark ==
    /\ slice.step = "watcher_mark"
    /\ IF finalized
       THEN /\ StopSelf /\ slice' = NoSlice
            /\ UNCHANGED <<finalized, commands, reply>>
       ELSE /\ MarkFinalized
            /\ slice' = [slice EXCEPT !.step = "watcher_release"]
            /\ UNCHANGED <<alive, mailbox, linked>>
    /\ UNCHANGED <<phase, pid, booted, registered, people, inbox, pending, history, nextId, lock, call, faults, ops>>

WatcherExitRelease ==
    /\ slice.step = "watcher_release"
    /\ pending' = <<>>
    /\ token' = TRUE /\ EndParticipant
    /\ StopSelf /\ registered' = FALSE
    /\ slice' = NoSlice
    /\ EndWatcher
    /\ Answers("err", Elements(pending))
    /\ UNCHANGED <<phase, finalized, pid, booted, requests, recorded, notify, inbox, history, commands, nextId, lock, call, faults, ops>>

ActorStep ==
    \/ ProcessNextCommand \/ CloseMark \/ CloseRelease \/ HandleParticipantExit
    \/ HandleWatcherExit \/ WatcherExitFails \/ WatcherExitMark \/ WatcherExitRelease
-----------------------------------------------------------------------------
(* The participant: run_slice drains its queue; deliver_local_reply hands  *)
(* each reply to a parked receive or buffers it, under the waiter lock.    *)
DeliverBuffered(r) ==
    /\ inbox' = Append(inbox, r)
    /\ UNCHANGED <<pending, taken, dropped, reply>>

DeliverLocalReply(r) ==
    IF pending = <<>>
    THEN /\ inbox' = Append(inbox, r)
         /\ UNCHANGED <<pending, taken, dropped, reply>>
    ELSE LET w == Head(pending) IN
         /\ pending' = Tail(pending)
         /\ Answers("ok", {w})
         /\ IF Listening(w.caller, w.id)
            THEN taken' = Append(taken, r) /\ UNCHANGED dropped
            ELSE dropped' = Append(dropped, r) /\ UNCHANGED taken
         /\ UNCHANGED inbox

ParticipantStep ==
    /\ part.live /\ part.woken
    /\ IF ~part.registered \/ requests = <<>>
       THEN /\ part' = [part EXCEPT !.woken = FALSE]
            /\ UNCHANGED <<requests, produced, queues, taken, dropped, reply>>
       ELSE /\ requests' = Tail(requests)
            /\ produced' = Append(produced, Head(requests))
            /\ DeliverLocalReply(Head(requests))
            /\ UNCHANGED part
    /\ UNCHANGED <<phase, finalized, actor, recorded, notify, token, watcher, sent, commands,
                   nextId, lock, call, faults, ops>>

(* register_exit_notifier: replays a death that is already recorded.       *)
RegisterNoReplay ==
    /\ notify.state = "none"
    /\ notify' = [notify EXCEPT !.state = "waiting"]
    /\ UNCHANGED <<phase, finalized, actor, part, requests, recorded, token, watcher, queues,
                   history, commands, nextId, lock, call, reply, faults, ops>>

RegisterExitNotifier ==
    /\ notify.state = "none"
    /\ notify' = IF recorded > 0 THEN [state |-> "signalled", signals |-> 1]
                 ELSE [notify EXCEPT !.state = "waiting"]
    /\ UNCHANGED <<phase, finalized, actor, part, requests, recorded, token, watcher, queues,
                   history, commands, nextId, lock, call, reply, faults, ops>>

-----------------------------------------------------------------------------
(* Faults.  An abnormal actor exit takes its mailbox with it, cascades to  *)
(* the linked participant and is trapped by the linked watcher.            *)
Fault(process) ==
    /\ process \in Faults
    /\ faults < MaxFaults
    /\ faults' = faults + 1

ActorCrash ==
    /\ alive /\ slice = NoSlice
    /\ Fault("actor")
    /\ alive' = FALSE /\ mailbox' = <<>> /\ linked' = FALSE
    /\ part' = IF linked THEN [part EXCEPT !.live = FALSE, !.woken = FALSE] ELSE part
    /\ watcher' = [watcher EXCEPT ![pid] = IF @ = "linked" THEN "exit" ELSE @]
    /\ UNCHANGED <<phase, finalized, pid, slice, booted, registered, requests, recorded, notify,
                   token, queues, history, commands, nextId, lock, call, reply, ops>>

(* ActorExitWatcher::handle on the actor's EXIT: finalize_after_actor_exit.*)
WatcherCleanup(i) ==
    /\ watcher[i] = "exit"
    /\ watcher' = [watcher EXCEPT ![i] = "gone"]
    /\ registered' = (registered /\ i # pid)
    /\ EndParticipant
    /\ mailbox' = IF alive THEN mailbox \o ExitSignal("participant_normal") ELSE mailbox
    /\ UNCHANGED <<phase, finalized, pid, alive, slice, linked, booted, requests, recorded,
                   notify, token, queues, history, commands, nextId, lock, call, reply, faults,
                   ops>>

ParticipantCrash ==
    /\ part.live
    /\ Fault("participant")
    /\ part' = [part EXCEPT !.live = FALSE, !.woken = FALSE]
    /\ mailbox' = IF alive THEN mailbox \o ExitSignal("participant_error") ELSE mailbox
    /\ UNCHANGED <<phase, finalized, pid, alive, slice, linked, booted, registered, requests,
                   recorded, notify, token, watcher, queues, history, commands, nextId, lock,
                   call, reply, ops>>

WatcherKilled ==
    /\ watcher[pid] \in {"armed", "linked"}
    /\ Fault("watcher")
    /\ mailbox' = IF alive /\ watcher[pid] = "linked" THEN Append(mailbox, "watcher") ELSE mailbox
    /\ EndWatcher
    /\ UNCHANGED <<phase, finalized, pid, alive, slice, linked, booted, registered, part,
                   requests, recorded, notify, token, queues, history, commands, nextId, lock,
                   call, reply, ops>>

Next ==
    \/ \E c \in Callers : HostStep(c) \/ \E kind \in Kinds : Begin(c, kind)
    \/ ActorStep \/ ParticipantStep \/ RegisterExitNotifier
    \/ ActorCrash \/ ParticipantCrash \/ WatcherKilled
    \/ \E i \in 1..MaxSpawns : WatcherCleanup(i)

Spec == Init /\ [][Next]_vars

(* Host threads run to the end of their call, and the scheduler runs every *)
(* process that has a message.  Faults and new calls are not owed.         *)
FairSpec ==
    /\ Spec
    /\ \A c \in Callers : WF_vars(HostStep(c))
    /\ WF_vars(ActorStep) /\ WF_vars(ParticipantStep)
    /\ \A i \in 1..MaxSpawns : WF_vars(WatcherCleanup(i))

-----------------------------------------------------------------------------
(* enqueue_for_pid promises that no caller blocks on a command             *)
(* finalization can no longer see: a caller that still waits has its       *)
(* command queued, its receive parked, or its close being executed, across *)
(* any interleaving of calls, crashes, restarts and finalization, and      *)
(* finalization leaves no command queued.                                  *)
WaiterVisible ==
    /\ finalized => commands = <<>>
    /\ \A c \in Callers :
          call[c].pc \in Waiting /\ reply[c] = "none" =>
              \/ \E m \in Elements(commands) : m.id = call[c].id
              \/ \E w \in Elements(pending) : w.id = call[c].id
              \/ slice.id = call[c].id

(* A finalized conversation leaves nothing behind: once the calls and the  *)
(* slice in progress have ended there is no actor, no participant, no      *)
(* watcher, no registration, no queued command and no parked receive.      *)
NothingLeftBehind ==
    finalized /\ lock = Nobody /\ slice = NoSlice /\ (\A c \in Callers : call[c].pc = "idle")
        => /\ ~alive /\ ~registered
           /\ ~part.live /\ ~part.registered
           /\ watcher[pid] \notin {"armed", "linked"}
           /\ commands = <<>> /\ pending = <<>>

(* Finalization is complete: no caller waits where it cannot be seen,      *)
(* nothing is left behind, and the state is well typed throughout.         *)
FinalizationComplete == TypeOK /\ WaiterVisible /\ NothingLeftBehind

(* deliver_local_reply and apply_receive share the waiter lock so that     *)
(* neither side can pass the other: a receive is never parked beside a     *)
(* buffered reply, and while the conversation has not failed every reply   *)
(* is buffered, was returned to a receive, or was lost to a receive that   *)
(* had timed out; the receives return replies in the order of the sends.   *)
HandoffIsExact ==
    /\ pending = <<>> \/ inbox = <<>>
    /\ phase # "failed" => Len(produced) = Len(inbox) + Len(taken) + Len(dropped)
    /\ \A i, j \in DOMAIN taken : i < j => taken[i] < taken[j]

(* record_participant_exit and register_exit_notifier serialize on the     *)
(* state lock: a death is recorded once, however often the actor restarts  *)
(* and rediscovers it, and a registrant is signalled exactly once for it.  *)
CrashReportedOnce == notify.state # "none" => notify.signals = recorded

(* The terminal phase stands: neither a racing participant death, nor a    *)
(* stale command of an earlier incarnation, nor a second close or finalize *)
(* reopens or changes Closed or Failed (record_participant_exit, activate).*)
(* The one step left out is the watcher's: its marking of Failed does not  *)
(* look at the finalized flag again.                                       *)
TerminalPhaseStands ==
    [][(phase \in {"closed", "failed"}) => phase' = phase \/ slice.step = "watcher_fail"]_vars

(* Finalization releases every blocked caller: a call waiting when the     *)
(* conversation is finalized returns.                                      *)
FinalizeFreesCallers ==
    \A c \in Callers : (finalized /\ call[c].pc # "idle") ~> (call[c].pc = "idle")

(* A finalized conversation is final: its phase stands and its callers     *)
(* return.                                                                 *)
FinalizeSettles == TerminalPhaseStands /\ FinalizeFreesCallers
=============================================================================
