---------------------------- MODULE ChannelActor ----------------------------
(***************************************************************************)
(* One channel of crates/liminal: the actor process that owns fan-out, the *)
(* command queue that outlives it, the host threads that call it, and the  *)
(* supervisor that restarts it on demand.                                  *)
(*                                                                         *)
(* A host call (publish, subscribe, ...) first makes sure the actor runs,  *)
(* then pushes a command on the shared queue, wakes the actor with one     *)
(* mailbox atom and polls for the reply.  The actor pops one command per   *)
(* atom.  The queue survives a crash; the mailbox does not.                *)
(***************************************************************************)
EXTENDS Naturals, Sequences, FiniteSets

CONSTANTS Callers,        \* host threads
          Subs,           \* subscriber process ids; each is used once
          Keys,           \* idempotency keys of publishes
          Durable,        \* whether the channel persists before fan-out
          Deployments,    \* restart policies, operations in use and subscriber pids
          MaxCrashes,     \* bound: crashes of the actor process
          MaxOps,         \* bound: host calls
          SlowActor,      \* whether a call may time out while its command is pending
          DropsInBoot,    \* whether a handle may be dropped during a re-link
          Nobody          \* no caller, no subscriber

AllKinds == {"publish", "subscribe", "unsubscribe", "evolve", "query", "close"}

ASSUME DeploymentsAssumption ==
    Deployments \subseteq [budget : Nat, kinds : SUBSET AllKinds, pids : SUBSET Subs]
ASSUME FlagsAssumption == {Durable, SlowActor, DropsInBoot} \subseteq BOOLEAN
ASSUME BoundsAssumption == {MaxCrashes, MaxOps} \subseteq Nat
ASSUME NobodyAssumption == Nobody \notin Callers \cup Subs \cup Keys
ASSUME CallersAssumption == IsFiniteSet(Callers)

VARIABLES pid,          \* current_pid: incarnation of the actor process
          alive,        \* whether that pid is in the process table
          mailbox,      \* its mailbox: wake atoms and EXIT signals
          boot,         \* apply_boot in progress: registrations taken out
          booted,       \* history: this incarnation completed its Boot
          commands,     \* the shared command queue
          nextId,       \* next_command_id
          subscribers,  \* fan-out list
          links,        \* links of the actor process
          closed, schema,
          budget,       \* ChannelRestartPolicy::max_restarts of the supervisor
          kinds,        \* operations the host threads perform
          restarts, lock,   \* restart counter and restart_lock holder
          live,         \* subscriber processes that are running
          unused,       \* subscriber pids not yet spawned
          member,       \* history: subscribed, and not asked to leave
          forgotten,    \* history: registrations an abandoned Boot dropped
          call,         \* [Callers -> its host call]
          reply,        \* [Callers -> reply channel of the awaited command]
          claim,        \* [Keys -> dedup state of the key]
          persisted,    \* ids of durably appended publishes
          inbox,        \* [Subs -> envelopes delivered, in order]
          refused,      \* history: <<subscriber, op>> its inbox did not take
          crashes, ops

actorVars == <<pid, alive, mailbox, boot, booted, links>>
coreVars == <<commands, nextId, subscribers, closed, schema>>
hostVars == <<budget, kinds, live, unused, member, forgotten, claim, persisted, ops>>
vars == <<actorVars, coreVars, hostVars, restarts, lock, call, reply, inbox, refused, crashes>>

Wake == "command"
Waiting == {"wake", "poll", "check"}   \* a caller that waits for a reply
ASSUME WakeAssumption == Wake \notin Subs

NoBoot == [on |-> FALSE, todo |-> {}, kept |-> {}, next |-> Nobody, id |-> 0]
Idle == [pc |-> "idle", kind |-> "query", sub |-> Nobody, key |-> Nobody,
         booting |-> FALSE, id |-> 0, target |-> 0, op |-> 0, audience |-> {}]

Command == [id : Nat, kind : AllKinds \cup {"boot"}, sub : Subs \cup {Nobody},
            key : Keys \cup {Nobody}, op : Nat, caller : Callers]
Envelope == [key : Keys, op : Nat, caller : Callers, schema : Nat]

TypeOK ==
    /\ budget \in Nat /\ kinds \subseteq AllKinds /\ pid \in 1..(budget + 1)
    /\ alive \in BOOLEAN /\ booted \in BOOLEAN /\ closed \in BOOLEAN
    /\ mailbox \in Seq({Wake} \cup Subs)
    /\ (\E i \in DOMAIN mailbox : mailbox[i] = Wake) => commands # <<>>
    /\ boot \in [on : BOOLEAN, todo : SUBSET Subs, kept : SUBSET Subs,
                 next : Subs \cup {Nobody}, id : Nat]
    /\ commands \in Seq(Command)
    /\ nextId \in Nat /\ schema \in Nat /\ restarts \in Nat
    /\ links \subseteq Subs /\ subscribers \subseteq Subs
    /\ lock \in Callers \cup {Nobody}
    /\ live \subseteq Subs /\ unused \subseteq Subs \ live /\ member \subseteq live
    /\ forgotten \subseteq Subs
    /\ call \in [Callers -> [pc : {"idle", "core", "lock", "read", "push", "wake",
                                   "poll", "check"},
                             kind : AllKinds, sub : Subs \cup {Nobody},
                             key : Keys \cup {Nobody}, booting : BOOLEAN, id : Nat,
                             target : Nat, op : Nat, audience : SUBSET Subs]]
    /\ reply \in [Callers -> {"none", "ok", "err"}]
    /\ claim \in [Keys -> {"free", "claimed", "done"}]
    /\ persisted \subseteq 1..MaxOps
    /\ inbox \in [Subs -> Seq(Envelope)]
    /\ refused \subseteq Subs \X Nat
    /\ crashes \in 0..MaxCrashes /\ ops \in 0..MaxOps

(* A booted channel with some subscribers already registered.              *)
Init ==
    /\ pid = 1 /\ alive = TRUE /\ booted = TRUE
    /\ \E d \in Deployments :
          /\ budget = d.budget /\ kinds = d.kinds
          /\ subscribers \in SUBSET d.pids /\ unused = d.pids \ subscribers
    /\ mailbox = <<>> /\ boot = NoBoot
    /\ commands = <<>> /\ nextId = 1
    /\ links = subscribers /\ closed = FALSE /\ schema = 0
    /\ restarts = 0 /\ lock = Nobody
    /\ live = subscribers /\ member = subscribers
    /\ forgotten = {}
    /\ call = [c \in Callers |-> Idle]
    /\ reply = [c \in Callers |-> "none"]
    /\ claim = [k \in Keys |-> "free"]
    /\ persisted = {} /\ inbox = [s \in Subs |-> <<>>] /\ refused = {}
    /\ crashes = 0 /\ ops = 0

-----------------------------------------------------------------------------
(* Host side.                                                              *)
Goto(c, step) == call' = [call EXCEPT ![c].pc = step]

Begin(c, kind, s, k) ==
    /\ call[c].pc = "idle"
    /\ kind \in kinds
    /\ ops < MaxOps
    /\ ops' = ops + 1
    /\ call' = [call EXCEPT ![c] = [Idle EXCEPT !.pc = "core", !.kind = kind, !.sub = s,
                                     !.key = k, !.op = ops + 1, !.audience = member]]
    /\ UNCHANGED <<budget, kinds, forgotten, actorVars, coreVars, restarts, lock, reply, inbox, refused, crashes>>

(* publish with an idempotency key: the key is claimed, a durable channel  *)
(* appends the message before anything is fanned out.                      *)
BeginPublish(c, k) ==
    /\ claim[k] = "free"
    /\ claim' = [claim EXCEPT ![k] = "claimed"]
    /\ persisted' = IF Durable THEN persisted \cup {ops + 1} ELSE persisted
    /\ Begin(c, "publish", Nobody, k)
    /\ UNCHANGED <<live, unused, member>>

(* The durable append fails: the claim is released, nothing was enqueued.  *)
PersistFails(c, k) ==
    /\ call[c].pc = "idle" /\ "publish" \in kinds
    /\ Durable /\ claim[k] = "free"
    /\ ops < MaxOps
    /\ ops' = ops + 1
    /\ UNCHANGED <<budget, kinds, actorVars, coreVars, live, unused, member, forgotten, claim, persisted,
                   restarts, lock, call, reply, inbox, refused, crashes>>

(* A subscribe spawns the subscriber process that its command registers.   *)
BeginSubscribe(c, s) ==
    /\ s \in unused
    /\ unused' = unused \ {s}
    /\ live' = live \cup {s}
    /\ Begin(c, "subscribe", s, Nobody)
    /\ UNCHANGED <<member, claim, persisted>>

BeginUnsubscribe(c, s) ==
    /\ s \in member
    /\ member' = member \ {s}
    /\ Begin(c, "unsubscribe", s, Nobody)
    /\ UNCHANGED <<claim, persisted, live, unused>>

BeginOther(c) ==
    /\ \E kind \in {"evolve", "query", "close"} : Begin(c, kind, Nobody, Nobody)
    /\ UNCHANGED <<claim, persisted, live, unused, member>>

(* What the host does with the result: a publish completes or releases its *)
(* key, a failed subscribe drops the handle, which ends its process.       *)
Killed(s) ==
    /\ live' = live \ {s}
    /\ links' = links \ {s}
    /\ mailbox' = IF alive /\ s \in links THEN Append(mailbox, s) ELSE mailbox

Return(c, ok) ==
    /\ call' = [call EXCEPT ![c] = Idle]
    /\ reply' = [reply EXCEPT ![c] = "none"]
    /\ claim' = IF call[c].kind = "publish"
                THEN [claim EXCEPT ![call[c].key] = IF ok THEN "done" ELSE "free"]
                ELSE claim
    /\ member' = IF call[c].kind = "subscribe" /\ ok THEN member \cup {call[c].sub} ELSE member
    /\ IF call[c].kind = "subscribe" /\ ~ok THEN Killed(call[c].sub)
                                             ELSE UNCHANGED <<live, links, mailbox>>
    /\ UNCHANGED <<budget, kinds, pid, alive, boot, booted, nextId, subscribers, closed, schema, unused,
                   forgotten, persisted, ops, inbox, refused, crashes>>

(* ensure_running, fast path and its dead branch.                          *)
LivePid(c) ==
    /\ call[c].pc = "core"
    /\ Goto(c, IF alive THEN "read" ELSE "lock")
    /\ UNCHANGED <<actorVars, coreVars, hostVars, restarts, lock, reply, inbox, refused, crashes>>

(* The restart, under restart_lock: re-check, charge the budget, spawn     *)
(* with trapped exits, publish the pid; Boot is the next step.             *)
Spawn(c) ==
    /\ lock' = c
    /\ pid' = pid + 1 /\ alive' = TRUE /\ booted' = FALSE
    /\ mailbox' = <<>> /\ links' = {} /\ boot' = NoBoot
    /\ call' = [call EXCEPT ![c].pc = "read", ![c].booting = TRUE]

RecheckUnderLock == alive

BudgetLeft == restarts < budget

Restart(c) ==
    /\ call[c].pc = "lock"
    /\ lock = Nobody
    /\ ~RecheckUnderLock
    /\ BudgetLeft
    /\ restarts' = restarts + 1
    /\ Spawn(c)
    /\ UNCHANGED <<coreVars, hostVars, reply, inbox, refused, crashes>>

RestartFoundLive(c) ==
    /\ call[c].pc = "lock"
    /\ lock = Nobody
    /\ RecheckUnderLock
    /\ Goto(c, "read")
    /\ UNCHANGED <<actorVars, coreVars, hostVars, restarts, lock, reply, inbox, refused, crashes>>

RestartBudgetExhausted(c) ==
    /\ call[c].pc = "lock"
    /\ lock = Nobody
    /\ ~RecheckUnderLock
    /\ ~BudgetLeft
    /\ restarts' = restarts + 1
    /\ Return(c, FALSE)
    /\ UNCHANGED <<commands, lock>>

(* enqueue, in the code's three steps: read current_pid, push the command, *)
(* wake that pid; a dead pid takes the command back.                       *)
ReadPid(c) ==
    /\ call[c].pc = "read"
    /\ call' = [call EXCEPT ![c].pc = "push", ![c].target = pid]
    /\ UNCHANGED <<actorVars, coreVars, hostVars, restarts, lock, reply, inbox, refused, crashes>>

PushFront(c) ==
    /\ call[c].pc = "push"
    /\ nextId' = nextId + 1
    /\ commands' = <<[id |-> nextId, kind |-> IF call[c].booting THEN "boot" ELSE call[c].kind,
                      sub |-> call[c].sub, key |-> call[c].key, op |-> call[c].op,
                      caller |-> c]>> \o commands
    /\ call' = [call EXCEPT ![c].pc = "wake", ![c].id = nextId]
    /\ UNCHANGED <<actorVars, subscribers, closed, schema, hostVars, restarts, lock,
                   reply, inbox, refused, crashes>>

Push(c) ==
    /\ call[c].pc = "push"
    /\ nextId' = nextId + 1
    /\ commands' = Append(commands,
          [id |-> nextId, kind |-> IF call[c].booting THEN "boot" ELSE call[c].kind,
           sub |-> call[c].sub, key |-> call[c].key, op |-> call[c].op, caller |-> c])
    /\ call' = [call EXCEPT ![c].pc = "wake", ![c].id = nextId]
    /\ UNCHANGED <<actorVars, subscribers, closed, schema, hostVars, restarts, lock,
                   reply, inbox, refused, crashes>>

TargetAlive(c) == alive /\ call[c].target = pid

WakeActor(c) ==
    /\ call[c].pc = "wake"
    /\ TargetAlive(c)
    /\ mailbox' = Append(mailbox, Wake)
    /\ Goto(c, "poll")
    /\ UNCHANGED <<pid, alive, boot, booted, links, coreVars, hostVars, restarts, lock,
                   reply, inbox, refused, crashes>>

FailKeepsLock(c) ==
    /\ Return(c, FALSE)
    /\ UNCHANGED <<lock, restarts>>

(* A failed call: the command loses its caller, and a failed Boot also     *)
(* gives the restart lock back.                                            *)
Fail(c) ==
    /\ Return(c, FALSE)
    /\ lock' = IF call[c].booting THEN Nobody ELSE lock
    /\ UNCHANGED restarts

(* remove_command: ids are handed out once, so at most one command goes.   *)
Position(id) == CHOOSE i \in DOMAIN commands : commands[i].id = id
Without(id) ==
    IF \A i \in DOMAIN commands : commands[i].id # id THEN commands
    ELSE [i \in 1..(Len(commands) - 1) |->
             IF i < Position(id) THEN commands[i] ELSE commands[i + 1]]

WakeFails(c) ==
    /\ call[c].pc = "wake"
    /\ ~TargetAlive(c)
    /\ commands' = Without(call[c].id)
    /\ Fail(c)

(* poll_reply: take the reply; or, having found none, look at the process  *)
(* table and then at the deadline.                                         *)
TakeBootReply(c) ==
    /\ call[c].pc = "poll" /\ call[c].booting
    /\ reply[c] = "ok"
    /\ lock' = Nobody
    /\ reply' = [reply EXCEPT ![c] = "none"]
    /\ call' = [call EXCEPT ![c].pc = "read", ![c].booting = FALSE]
    /\ UNCHANGED <<actorVars, coreVars, hostVars, restarts, inbox, refused, crashes>>

TakeReply(c) ==
    /\ call[c].pc = "poll" /\ ~call[c].booting
    /\ reply[c] # "none"
    /\ Return(c, reply[c] = "ok")
    /\ UNCHANGED <<commands, restarts, lock>>

TakeBootError(c) ==
    /\ call[c].pc = "poll" /\ call[c].booting
    /\ reply[c] = "err"
    /\ Fail(c)
    /\ UNCHANGED commands

PollEmpty(c) ==
    /\ call[c].pc = "poll"
    /\ reply[c] = "none"
    /\ Goto(c, "check")
    /\ UNCHANGED <<actorVars, coreVars, hostVars, restarts, lock, reply, inbox, refused, crashes>>

FoundDead(c) ==
    /\ call[c].pc = "check"
    /\ ~TargetAlive(c)
    /\ Fail(c)
    /\ UNCHANGED commands

PollAgain(c) ==
    /\ call[c].pc = "check"
    /\ TargetAlive(c)
    /\ Goto(c, "poll")
    /\ UNCHANGED <<actorVars, coreVars, hostVars, restarts, lock, reply, inbox, refused, crashes>>

(* The deadline passes.  Unless SlowActor, only a command that no wake in  *)
(* the mailbox or on its way will pop times out.                           *)
NoWakeComing == mailbox = <<>> /\ ~boot.on /\ \A c \in Callers : call[c].pc # "wake"

TimedOut(c) ==
    /\ call[c].pc = "check"
    /\ TargetAlive(c)
    /\ SlowActor \/ (NoWakeComing /\ reply[c] = "none")
    /\ Fail(c)
    /\ UNCHANGED commands

HostStep(c) ==
    \/ \E k \in Keys : BeginPublish(c, k) \/ PersistFails(c, k)
    \/ \E s \in Subs : BeginSubscribe(c, s) \/ BeginUnsubscribe(c, s)
    \/ BeginOther(c)
    \/ LivePid(c) \/ Restart(c) \/ RestartFoundLive(c) \/ RestartBudgetExhausted(c)
    \/ ReadPid(c) \/ Push(c) \/ WakeActor(c) \/ WakeFails(c)
    \/ TakeBootReply(c) \/ TakeReply(c) \/ TakeBootError(c)
    \/ PollEmpty(c) \/ FoundDead(c) \/ PollAgain(c) \/ TimedOut(c)

-----------------------------------------------------------------------------
(* The actor process: one mailbox message at a time.                       *)

(* reply.send: it reaches the caller only while it still waits for this    *)
(* command; otherwise the receiver is gone.                                *)
Listening(c, id) == call[c].id = id /\ call[c].pc \in Waiting

Answer(m, r) ==
    reply' = IF Listening(m.caller, m.id)
             THEN [reply EXCEPT ![m.caller] = r] ELSE reply

ApplyBoot(m) ==
    /\ m.kind = "boot"
    /\ boot' = [NoBoot EXCEPT !.on = TRUE, !.todo = subscribers, !.id = m.id]
    /\ subscribers' = {}
    /\ UNCHANGED <<pid, alive, booted, links, closed, schema, inbox, refused, reply>>

(* A closed channel and a payload the schema refuses are errors; otherwise *)
(* the envelope is offered to every registered inbox still open.  The      *)
(* subscriber's predicate or a full inbox may turn it down: the publish is *)
(* answered Ok all the same.                                               *)
ApplyPublish(m) ==
    /\ m.kind = "publish"
    /\ \/ Answer(m, "err") /\ UNCHANGED <<inbox, refused>>
       \/ /\ ~closed
          /\ \E no \in SUBSET (subscribers \cap live) :
                /\ refused' = refused \cup (no \X {m.op})
                /\ inbox' = [s \in Subs |->
                      IF s \in (subscribers \cap live) \ no
                      THEN Append(inbox[s], [key |-> m.key, op |-> m.op, caller |-> m.caller,
                                             schema |-> schema])
                      ELSE inbox[s]]
          /\ Answer(m, "ok")
    /\ UNCHANGED <<pid, alive, boot, booted, links, subscribers, closed, schema>>

ApplySubscribe(m) ==
    /\ m.kind = "subscribe"
    /\ IF closed \/ m.sub \notin live
       THEN Answer(m, "err") /\ UNCHANGED <<links, subscribers>>
       ELSE /\ links' = links \cup {m.sub}
            /\ subscribers' = subscribers \cup {m.sub}
            /\ Answer(m, "ok")
    /\ UNCHANGED <<pid, alive, boot, booted, closed, schema, inbox, refused>>

ApplyUnsubscribe(m) ==
    /\ m.kind = "unsubscribe"
    /\ links' = links \ {m.sub}
    /\ subscribers' = subscribers \ {m.sub}
    /\ Answer(m, "ok")
    /\ UNCHANGED <<pid, alive, boot, booted, closed, schema, inbox, refused>>

(* evolve adds one field or is refused; schema_id and list_subscribers     *)
(* only read.                                                              *)
ApplyEvolveOrQuery(m) ==
    /\ m.kind \in {"evolve", "query"}
    /\ \/ /\ m.kind = "evolve"
          /\ schema' = schema + 1
          /\ Answer(m, "ok")
       \/ /\ Answer(m, IF m.kind = "query" THEN "ok" ELSE "err")
          /\ UNCHANGED schema
    /\ UNCHANGED <<pid, alive, boot, booted, links, subscribers, closed, inbox, refused>>

(* close releases the subscribers and stops the process.                   *)
ApplyClose(m) ==
    /\ m.kind = "close"
    /\ closed' = TRUE
    /\ subscribers' = {}
    /\ alive' = FALSE /\ links' = {}
    /\ Answer(m, "ok")
    /\ UNCHANGED <<pid, boot, booted, schema, inbox, refused>>

Apply(m) ==
    \/ ApplyBoot(m) \/ ApplyPublish(m) \/ ApplySubscribe(m) \/ ApplyUnsubscribe(m)
    \/ ApplyEvolveOrQuery(m) \/ ApplyClose(m)

(* process_command_nif on the wake atom: pop exactly one command.  There is *)
(* never a wake without one (TypeOK): a failed wake takes its command back. *)
ProcessNextCommand ==
    /\ alive /\ ~boot.on
    /\ mailbox # <<>> /\ Head(mailbox) = Wake
    /\ commands # <<>>
    /\ commands' = Tail(commands)
    /\ Apply(Head(commands))
    /\ mailbox' = IF alive' THEN Tail(mailbox) ELSE <<>>
    /\ UNCHANGED <<nextId, hostVars, restarts, lock, call, crashes>>

(* apply_boot, per registration: look the process up, then link it; a      *)
(* process that is gone is dropped from the list.                          *)
BootLookup(s) ==
    /\ boot.on /\ boot.next = Nobody
    /\ s \in boot.todo
    /\ boot' = [boot EXCEPT !.todo = @ \ {s}, !.next = IF s \in live THEN s ELSE Nobody]
    /\ UNCHANGED <<pid, alive, mailbox, booted, links, coreVars, hostVars, restarts, lock,
                   call, reply, inbox, refused, crashes>>

BootAnswer(r) ==
    reply' = [c \in Callers |->
                IF Listening(c, boot.id) THEN r ELSE reply[c]]

BootWithoutLink ==
    /\ boot.on /\ boot.next # Nobody
    /\ boot' = [boot EXCEPT !.kept = @ \cup {boot.next}, !.next = Nobody]
    /\ UNCHANGED <<pid, alive, mailbox, booted, links, coreVars, hostVars, restarts, lock,
                   call, reply, inbox, refused, crashes>>

BootLink ==
    /\ boot.on /\ boot.next # Nobody
    /\ IF boot.next \in live
       THEN /\ links' = links \cup {boot.next}
            /\ boot' = [boot EXCEPT !.kept = @ \cup {boot.next}, !.next = Nobody]
            /\ UNCHANGED <<forgotten, reply>>
       ELSE /\ boot' = NoBoot
            /\ forgotten' = forgotten \cup boot.todo \cup boot.kept
            /\ BootAnswer("err")
            /\ UNCHANGED links
    /\ UNCHANGED <<pid, alive, mailbox, booted, coreVars, budget, kinds, live, unused, member, claim,
                   persisted, ops, restarts, lock, call, inbox, refused, crashes>>

BootForgetsList ==
    /\ boot.on /\ boot.next = Nobody /\ boot.todo = {}
    /\ boot' = NoBoot
    /\ booted' = TRUE
    /\ BootAnswer("ok")
    /\ UNCHANGED <<pid, alive, mailbox, links, coreVars, hostVars, restarts, lock, call,
                   inbox, refused, crashes>>

BootDone ==
    /\ boot.on /\ boot.next = Nobody /\ boot.todo = {}
    /\ subscribers' = boot.kept
    /\ boot' = NoBoot
    /\ booted' = TRUE
    /\ BootAnswer("ok")
    /\ UNCHANGED <<pid, alive, mailbox, links, commands, nextId, closed, schema, hostVars,
                   restarts, lock, call, inbox, refused, crashes>>

(* A trapped EXIT prunes the dead subscriber.                              *)
HandleSubscriberExit ==
    /\ alive /\ ~boot.on
    /\ mailbox # <<>> /\ Head(mailbox) # Wake
    /\ subscribers' = subscribers \ {Head(mailbox)}
    /\ mailbox' = Tail(mailbox)
    /\ UNCHANGED <<pid, alive, boot, booted, links, commands, nextId, closed, schema,
                   hostVars, restarts, lock, call, reply, inbox, refused, crashes>>

(* The process dies between two messages; its mailbox and links go with it.*)
Crash ==
    /\ alive /\ ~boot.on
    /\ crashes < MaxCrashes
    /\ crashes' = crashes + 1
    /\ alive' = FALSE
    /\ mailbox' = <<>> /\ links' = {}
    /\ UNCHANGED <<pid, boot, booted, coreVars, hostVars, restarts, lock, call, reply, inbox, refused>>

(* A subscription handle is dropped: its process is terminated.            *)
DropHandle(s) ==
    /\ s \in member
    /\ boot.on => DropsInBoot
    /\ member' = member \ {s}
    /\ Killed(s)
    /\ UNCHANGED <<budget, kinds, pid, alive, boot, booted, coreVars, unused, forgotten, claim, persisted, ops,
                   restarts, lock, call, reply, inbox, refused, crashes>>

ActorStep ==
    \/ ProcessNextCommand
    \/ \E s \in Subs : BootLookup(s)
    \/ BootLink \/ BootDone \/ HandleSubscriberExit

Next ==
    \/ \E c \in Callers : HostStep(c)
    \/ ActorStep
    \/ Crash
    \/ \E s \in Subs : DropHandle(s)

Spec == Init /\ [][Next]_vars

(* A started call keeps running; the scheduler keeps running a live actor; *)
(* a deadline that is looked at over and over is eventually past.          *)
Progress(c) ==
    \/ LivePid(c) \/ Restart(c) \/ RestartFoundLive(c) \/ RestartBudgetExhausted(c)
    \/ ReadPid(c) \/ Push(c) \/ WakeActor(c) \/ WakeFails(c)
    \/ TakeBootReply(c) \/ TakeReply(c) \/ TakeBootError(c)
    \/ PollEmpty(c) \/ FoundDead(c) \/ PollAgain(c)
Fairness == /\ \A c \in Callers : WF_vars(Progress(c)) /\ SF_vars(TimedOut(c))
            /\ WF_vars(ActorStep)
FairSpec == Spec /\ Fairness

-----------------------------------------------------------------------------
(* A publish that is answered Ok was put in the inbox of every subscriber  *)
(* that had joined before it began and has not been asked to leave, across *)
(* crashes, restarts and stale commands (apply_publish, apply_boot).  Two  *)
(* exceptions: an inbox that refused the envelope (deliver answers false   *)
(* and the publish is Ok all the same), and the registrations of a Boot    *)
(* abandoned half way, whose list apply_boot had taken out.                *)
AckedPublishReachesMembers ==
    \A c \in Callers :
        call[c].kind = "publish" /\ ~call[c].booting /\ reply[c] = "ok" =>
            \A s \in (call[c].audience \cap member) \ forgotten :
                \/ <<s, call[c].op>> \in refused
                \/ \E i \in DOMAIN inbox[s] : inbox[s][i].op = call[c].op

(* Envelopes of one publisher reach every inbox in the order it published  *)
(* them and never twice for one call, although a command may be served     *)
(* after its caller gave up (process_next_command); and publish_with_      *)
(* delivery persists first, so what a subscriber of a durable channel has  *)
(* received is in the store.                                               *)
InOrderAndDurable ==
    \A s \in Subs :
        /\ \A i, j \in DOMAIN inbox[s] :
              i < j /\ inbox[s][i].caller = inbox[s][j].caller =>
                  inbox[s][i].op < inbox[s][j].op
        /\ Durable => \A i \in DOMAIN inbox[s] : inbox[s][i].op \in persisted

(* Once Boot has completed, the death of any registered subscriber is      *)
(* noticed: it is linked, or its EXIT is already in the mailbox.           *)
DeathIsNoticed ==
    alive /\ booted /\ ~boot.on =>
        \A s \in subscribers : s \in links \/ \E i \in DOMAIN mailbox : mailbox[i] = s

(* The fan-out list is sound: every member's death is noticed, no wake is  *)
(* without its command, and the restart budget is kept.                    *)
FanOutListSound == TypeOK /\ DeathIsNoticed

(* Every host call returns: a reply, a dead actor, a spent restart budget  *)
(* or COMMAND_TIMEOUT ends the wait, and restart_lock is always given back.*)
CallReturns == \A c \in Callers : call[c].pc # "idle" ~> call[c].pc = "idle"
=============================================================================
