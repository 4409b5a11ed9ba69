----------------------------- MODULE Delivery -----------------------------
(***************************************************************************)
(* The path of a published message to its subscribers' sockets, and the    *)
(* shutdown sequence that must not overtake it: subscription inboxes with   *)
(* their depth cap and the per-connection byte budget, the delivery pump    *)
(* with its slice budget and held frames, the bounded outbound buffer, the  *)
(* connection process's run / probe / park edges, READY wakes, the flush    *)
(* barrier and the shutdown controls.  One step is one mutex section or one *)
(* atomic access, so publishers, subscribers and the shutdown thread        *)
(* interleave between them as they do in the server.                        *)
(***************************************************************************)
EXTENDS Naturals, Sequences, SequencesExt, FiniteSetsExt

CONSTANTS Conns,        \* connections (their set is fixed: accept has stopped)
          Publishers,   \* bound: the connections whose clients publish
          Members,      \* the channel's subscriptions, in registration order
          Owner,        \* [subscription -> the connection that holds it]
          MaxPub,       \* bound: publishes ever sent
          Bytes,        \* [message -> payload length]
          Oversize,     \* messages whose frame exceeds the outbound capacity
          ByteCap,      \* limits.max_connection_inbox_bytes
          SliceBudget,  \* limits.delivery_slice_budget
          Quotas        \* the environments considered, one per behaviour: what
                        \* clients and clocks may do, max_subscription_inbox_depth
                        \* and the outbound capacity in frames

Msgs == 1..MaxPub
Subs == Range(Members)
None == "none"

ASSUME DeliveryAssumption ==
    /\ {MaxPub, ByteCap, SliceBudget} \subseteq Nat
    /\ Publishers \subseteq Conns /\ None \notin Subs
    /\ Quotas \subseteq [pubs : 0..MaxPub, subs : SUBSET Subs, unsubscribes : SUBSET Subs,
                          loses : SUBSET Conns, stops : BOOLEAN, deadlines : BOOLEAN,
                          slow : BOOLEAN, depth : Nat, room : Nat]
    /\ Owner \in [Subs -> Conns] /\ Bytes \in [Msgs -> Nat] /\ Oversize \subseteq Msgs

VARIABLES sock,      \* [connection -> publishes its client sent, not read yet]
          pubs,      \* publishes sent so far
          queue,     \* [subscription -> inbox: messages charged to the budget]
          overflowed,\* subscriptions whose inbox refused an admission
          open,      \* subscriptions held by their connection
          used,      \* [connection -> bytes charged to ConnectionInboxBudget]
          owed,      \* [connection -> bytes dequeued and not yet released]
          seqs,      \* [subscription -> last delivery sequence assigned]
          held,      \* [subscription -> the frame waiting for room, or none]
          out,       \* [connection -> outbound buffer]
          wire,      \* [connection -> frames its client can read]
          pc,        \* [connection -> where its process is]
          call,      \* [connection -> the publish its slice waits for, 0: none]
          fan,       \* publishes in the channel actor's queue, the first being served
          pump,      \* [connection -> progress of service_subscriptions]
          parked, ready,  \* connections whose record has the flag set
          mail,      \* connections with an atom in the mailbox
          controls,  \* [connection -> control queue]
          notified,  \* connections with shutdown_notification_attempted
          records,   \* connections with a host record
          sd,        \* the shutdown thread
          armed,     \* settle_armed
          moved,     \* settle_generation differs from the barrier's last snapshot
          quota,     \* what this behaviour's environment may do (a bound)
          before,    \* history: publishes sent before the barrier was armed
          late       \* history: publishes whose caller was told they failed

inboxes == <<queue, overflowed, open, used, owed>>
frames == <<seqs, held, out, wire>>
edges == <<parked, ready, mail, controls, notified, records>>
channel == <<call, fan, late>>
barrier == <<sd, armed, moved, quota, before>>
vars == <<sock, pubs, inboxes, frames, pc, channel, pump, edges, barrier>>

OwnSubs(c) == {s \in open : Owner[s] = c}
Deliver(s, n, m) == [kind |-> "deliver", sub |-> s, seq |-> n, msg |-> m]
SubscribeError(s) == [kind |-> "error", sub |-> s, seq |-> 0, msg |-> 0]
Disconnect == [kind |-> "disconnect", sub |-> None, seq |-> 0, msg |-> 0]
NoPump == [todo |-> {}, at |-> None, rem |-> 0, shed |-> {}]
Charged(q) == FoldSeq(LAMBDA m, n : Bytes[m] + n, 0, q)

Init ==
    /\ quota \in Quotas
    /\ sock = [c \in Conns |-> <<>>] /\ pubs = 0
    /\ queue = [s \in Subs |-> <<>>] /\ overflowed = {} /\ open = quota.subs
    /\ used = [c \in Conns |-> 0] /\ owed = [c \in Conns |-> 0]
    /\ seqs = [s \in Subs |-> 0] /\ held = [s \in Subs |-> <<>>]
    /\ out = [c \in Conns |-> <<>>] /\ wire = [c \in Conns |-> <<>>]
    /\ pc = [c \in Conns |-> "wait"] /\ call = [c \in Conns |-> 0]
    /\ fan = <<>> /\ late = {}
    /\ pump = [c \in Conns |-> NoPump]
    /\ parked = Conns /\ ready = {} /\ mail = {}
    /\ controls = [c \in Conns |-> <<>>] /\ notified = {} /\ records = Conns
    /\ sd = [at |-> "serving", todo |-> {}, passed |-> FALSE]
    /\ armed = FALSE /\ moved = FALSE /\ before = {}

\* Mutant: a close that forgets to give its bytes back.
CloseInboxKeepsCharge(s) ==
    /\ open' = open \ {s} /\ queue' = [queue EXCEPT ![s] = <<>>]
    /\ owed' = owed

\* SubscriptionInbox::close: the queue is drained and its bytes summed under the
\* lock; they are given back after the unlock, by Release.
CloseInbox(s) ==
    /\ open' = open \ {s} /\ queue' = [queue EXCEPT ![s] = <<>>]
    /\ owed' = [owed EXCEPT ![Owner[s]] = @ + Charged(queue[s])]

\* ConnectionInboxBudget::release, a saturating subtraction.
Release(c) ==
    /\ owed[c] > 0
    /\ used' = [used EXCEPT ![c] = IF @ > owed[c] THEN @ - owed[c] ELSE 0]
    /\ owed' = [owed EXCEPT ![c] = 0]
    /\ UNCHANGED <<sock, pubs, queue, overflowed, open, frames, pc, channel, pump, edges, barrier>>

(***************************************************************************)
(* Clients.                                                                *)
(***************************************************************************)
SendPublish(c) ==
    /\ c \in Publishers \cap records /\ pubs < quota.pubs
    /\ pubs' = pubs + 1 /\ sock' = [sock EXCEPT ![c] = Append(@, pubs + 1)]
    /\ UNCHANGED <<inboxes, frames, pc, channel, pump, edges, barrier>>

SendUnsubscribe(s) ==
    /\ s \in open \cap quota.unsubscribes /\ Owner[s] \in records /\ ~Contains(sock[Owner[s]], s)
    /\ sock' = [sock EXCEPT ![Owner[s]] = Append(@, s)]
    /\ UNCHANGED <<pubs, inboxes, frames, pc, channel, pump, edges, barrier>>

(***************************************************************************)
(* The head of a slice: mark_running, the mailbox drain with its controls,  *)
(* acknowledge_ready.  A process waits until an atom is in its mailbox or   *)
(* its socket is ready for what it armed.                                   *)
(***************************************************************************)
\* Mutant: a process that leaves residue arms readability only.
MarkRunningReadableOnly(c) ==
    /\ \/ pc[c] = "wait" /\ (c \in mail \/ sock[c] # <<>>)
       \/ pc[c] = "continue"
    /\ parked' = parked \ {c} /\ pc' = [pc EXCEPT ![c] = "mailbox"]
    /\ UNCHANGED <<sock, pubs, inboxes, frames, channel, pump, ready, mail, controls, notified,
                   records, barrier>>


MarkRunning(c) ==
    /\ \/ pc[c] = "wait" /\ (c \in mail \/ sock[c] # <<>> \/ out[c] # <<>>)
       \/ pc[c] = "continue"
    /\ parked' = parked \ {c} /\ pc' = [pc EXCEPT ![c] = "mailbox"]
    /\ UNCHANGED <<sock, pubs, inboxes, frames, channel, pump, ready, mail, controls, notified,
                   records, barrier>>

\* SubscriptionInner's Drop for every subscription a process held, with the
\* record's removal: what every way out of the process ends with.
Gone(c) ==
    /\ pc' = [pc EXCEPT ![c] = "gone"]
    /\ records' = records \ {c} /\ parked' = parked \ {c}
    /\ open' = open \ OwnSubs(c)
    /\ queue' = [s \in Subs |-> IF Owner[s] = c THEN <<>> ELSE queue[s]]
    /\ used' = [used EXCEPT ![c] = 0] /\ owed' = [owed EXCEPT ![c] = 0]
    /\ held' = [s \in Subs |-> IF Owner[s] = c THEN <<>> ELSE held[s]]
    /\ pump' = [pump EXCEPT ![c] = NoPump]

\* notify_shutdown: once per connection; subscribers only for NotifyShutdown; a
\* Disconnect that does not fit the outbound buffer is dropped, not retried.
NotifiedOut(c, control) ==
    IF c \in notified \/ (control = "notify" /\ OwnSubs(c) = {}) \/ Len(out[c]) >= quota.room
    THEN out[c] ELSE Append(out[c], Disconnect)
NotifiedBy(c, control) ==
    notified \cup IF control = "notify" /\ OwnSubs(c) = {} THEN {} ELSE {c}

HandleControl(c) ==
    /\ pc[c] = "mailbox" /\ c \in mail /\ controls[c] # <<>>
    /\ LET control == Head(controls[c]) IN
       /\ controls' = [controls EXCEPT ![c] = Tail(@)]
       /\ notified' = NotifiedBy(c, control)
       /\ \/ control = "notify"
             /\ out' = [out EXCEPT ![c] = NotifiedOut(c, control)]
             /\ UNCHANGED <<pc, pump, inboxes, held, wire, records, parked>>
          \/ control = "close" /\ Gone(c) /\ UNCHANGED overflowed
             /\ \E k \in 0..Len(NotifiedOut(c, control)) :
                   /\ wire' = [wire EXCEPT ![c] = @ \o SubSeq(NotifiedOut(c, control), 1, k)]
                   /\ out' = [out EXCEPT ![c] = <<>>]
    /\ UNCHANGED <<sock, pubs, seqs, channel, ready, mail, barrier>>

MailboxDrained(c) ==
    /\ pc[c] = "mailbox" /\ (c \in mail => controls[c] = <<>>)
    /\ mail' = mail \ {c} /\ pc' = [pc EXCEPT ![c] = "socket"]
    /\ UNCHANGED <<sock, pubs, inboxes, frames, channel, pump, parked, ready, controls, notified,
                   records, barrier>>

(***************************************************************************)
(* acknowledge_ready, then service_socket: nothing to read, a publish, an   *)
(* unsubscribe, or a failed socket.                                         *)
(***************************************************************************)
PumpDone(c) ==
    /\ pc[c] = "pump" /\ owed[c] = 0
    /\ pump[c].at = None /\ pump[c].todo = {} /\ pump[c].shed = {}

AcknowledgeReady(c) == ready' = ready \ {c}

StartPump(c) ==
    [pump EXCEPT ![c] = [todo |-> OwnSubs(c), at |-> None, rem |-> SliceBudget, shed |-> {}]]

ServicePending(c) ==
    /\ owed[c] = 0
    /\ \/ pc[c] = "socket" /\ sock[c] = <<>> /\ AcknowledgeReady(c)
       \/ pc[c] \in {"published", "unsubscribed"} /\ UNCHANGED ready
    /\ pc' = [pc EXCEPT ![c] = "pump"] /\ pump' = StartPump(c)
    /\ UNCHANGED <<sock, pubs, inboxes, frames, channel, parked, mail, controls, notified, records,
                   barrier>>

\* The command is queued for the channel actor; the slice waits in the call.
ReadPublish(c) ==
    /\ pc[c] = "socket" /\ sock[c] # <<>> /\ Head(sock[c]) \in Msgs
    /\ sock' = [sock EXCEPT ![c] = Tail(@)]
    /\ call' = [call EXCEPT ![c] = Head(sock[c])]
    /\ fan' = Append(fan, [msg |-> Head(sock[c]), to |-> Members, stage |-> "admit"])
    /\ pc' = [pc EXCEPT ![c] = "publish"] /\ AcknowledgeReady(c)
    /\ UNCHANGED <<pubs, inboxes, frames, late, pump, parked, mail, controls, notified, records,
                   barrier>>

\* unsubscribe_response: the connection forgets the subscription and drops its
\* handle, which closes the inbox; the drained bytes are released by Release.
ReadUnsubscribe(c) ==
    /\ pc[c] = "socket" /\ sock[c] # <<>> /\ Head(sock[c]) \in Subs
    /\ LET s == Head(sock[c]) IN
       /\ IF s \in open
          THEN CloseInbox(s) /\ held' = [held EXCEPT ![s] = <<>>]
          ELSE UNCHANGED <<queue, open, owed, held>>
       /\ sock' = [sock EXCEPT ![c] = Tail(@)]
    /\ pc' = [pc EXCEPT ![c] = "unsubscribed"] /\ AcknowledgeReady(c)
    /\ UNCHANGED <<pubs, overflowed, used, seqs, out, wire, channel, pump, parked, mail, controls,
                   notified, records, barrier>>

SocketFails(c) ==
    /\ c \in quota.loses /\ (pc[c] = "socket" \/ PumpDone(c))
    /\ Gone(c)
    /\ UNCHANGED <<sock, pubs, overflowed, seqs, out, wire, channel, ready, mail, controls,
                   notified, barrier>>

(***************************************************************************)
(* The channel's fan-out of one publish: SubscriptionInbox::admit under the *)
(* inbox lock, then the notifier: ready_pending first, the READY atom after.*)
(***************************************************************************)
Admits(s, m) == Len(queue[s]) < quota.depth /\ used[Owner[s]] + Bytes[m] <= ByteCap

Serving(stage) == fan # <<>> /\ Head(fan).stage = stage
Member == Head(Head(fan).to)

Admit ==
    /\ Serving("admit") /\ Head(fan).to # <<>>
    /\ LET m == Head(fan).msg
       IN \/ /\ Member \notin open
             /\ fan' = [fan EXCEPT ![1].to = Tail(@)]
             /\ UNCHANGED <<queue, used, overflowed>>
          \/ /\ Member \in open
             /\ fan' = [fan EXCEPT ![1].stage = "flag"]
             /\ IF Admits(Member, m)
                THEN /\ queue' = [queue EXCEPT ![Member] = Append(@, m)]
                     /\ used' = [used EXCEPT ![Owner[Member]] = @ + Bytes[m]]
                     /\ UNCHANGED overflowed
                ELSE overflowed' = overflowed \cup {Member} /\ UNCHANGED <<queue, used>>
    /\ UNCHANGED <<sock, pubs, open, owed, frames, pc, call, late, pump, edges, barrier>>

FireFlag ==
    /\ Serving("flag")
    /\ ready' = ready \cup ({Owner[Member]} \cap records)
    /\ fan' = [fan EXCEPT ![1].stage = "send"]
    /\ UNCHANGED <<sock, pubs, inboxes, frames, pc, call, late, pump, parked, mail, controls,
                   notified, records, barrier>>

FireSend ==
    /\ Serving("send")
    /\ mail' = mail \cup ({Owner[Member]} \cap records)
    /\ fan' = [fan EXCEPT ![1].to = Tail(@), ![1].stage = "admit"]
    /\ UNCHANGED <<sock, pubs, inboxes, frames, pc, call, late, pump, parked, ready, controls,
                   notified, records, barrier>>

\* apply_publish has offered the message to every member and replies; the reply
\* to a caller that gave up is dropped.
FannedOut ==
    /\ Serving("admit") /\ Head(fan).to = <<>>
    /\ fan' = Tail(fan)
    /\ UNCHANGED <<sock, pubs, inboxes, frames, pc, call, late, pump, edges, barrier>>

InFan(m) == \E i \in DOMAIN fan : fan[i].msg = m

PublishReturns(c) ==
    /\ pc[c] = "publish" /\ ~InFan(call[c])
    /\ call' = [call EXCEPT ![c] = 0] /\ pc' = [pc EXCEPT ![c] = "published"]
    /\ UNCHANGED <<sock, pubs, inboxes, frames, fan, late, pump, edges, barrier>>

\* COMMAND_TIMEOUT: the caller goes on with an error, the command stays queued.
PublishTimesOut(c) ==
    /\ pc[c] = "publish" /\ quota.slow /\ InFan(call[c])
    /\ late' = late \cup {call[c]}
    /\ call' = [call EXCEPT ![c] = 0] /\ pc' = [pc EXCEPT ![c] = "published"]
    /\ UNCHANGED <<sock, pubs, inboxes, frames, fan, pump, edges, barrier>>

(***************************************************************************)
(* service_subscriptions.  An overflowed subscription is told and shed when *)
(* there is room to tell it; otherwise frames leave, the held one first,    *)
(* until the slice budget, the inbox or the outbound room is exhausted.     *)
(***************************************************************************)
HasRoom(c) == Len(out[c]) < quota.room

PumpSelect(c) ==
    /\ pc[c] = "pump" /\ owed[c] = 0 /\ pump[c].at = None
    /\ pump[c].todo # {}
    /\ \/ /\ pump[c].rem = 0
          /\ pump' = [pump EXCEPT ![c].todo = {}] /\ UNCHANGED out
       \/ /\ pump[c].rem > 0
          /\ \E s \in pump[c].todo :
                \/ /\ s \in overflowed /\ HasRoom(c)
                   /\ out' = [out EXCEPT ![c] = Append(@, SubscribeError(s))]
                   /\ pump' = [pump EXCEPT ![c].todo = @ \ {s}, ![c].shed = @ \cup {s}]
                \/ /\ s \in overflowed /\ ~HasRoom(c)
                   /\ pump' = [pump EXCEPT ![c].todo = @ \ {s}] /\ UNCHANGED out
                \/ /\ s \notin overflowed
                   /\ pump' = [pump EXCEPT ![c].todo = @ \ {s}, ![c].at = s] /\ UNCHANGED out
    /\ UNCHANGED <<sock, pubs, inboxes, seqs, held, wire, pc, channel, edges, barrier>>

\* Mutant: a held frame takes a new sequence number when it leaves.
NextFrameRenumbers(s) ==
    IF held[s] # <<>> THEN Deliver(s, seqs[s] + 1, held[s][1].msg)
    ELSE Deliver(s, seqs[s] + 1, Head(queue[s]))

\* The frame that leaves next on s: the held one keeps its sequence, a popped
\* envelope takes the next.
NextFrame(s) ==
    IF held[s] # <<>> THEN held[s][1] ELSE Deliver(s, seqs[s] + 1, Head(queue[s]))
Popped(s) ==
    IF held[s] # <<>> THEN UNCHANGED <<queue, owed, seqs>>
    ELSE /\ queue' = [queue EXCEPT ![s] = Tail(@)]
         /\ owed' = [owed EXCEPT ![Owner[s]] = Bytes[Head(queue[s])]]
         /\ seqs' = [seqs EXCEPT ![s] = @ + 1]

PumpFrame(c) ==
    /\ pc[c] = "pump" /\ owed[c] = 0 /\ pump[c].at # None
    /\ LET s == pump[c].at IN
       \/ /\ pump[c].rem = 0 \/ (held[s] = <<>> /\ queue[s] = <<>>)
          /\ pump' = [pump EXCEPT ![c].at = None]
          /\ UNCHANGED <<queue, owed, seqs, held, out, pc, open, used, records, parked>>
       \/ /\ pump[c].rem > 0 /\ (held[s] # <<>> \/ queue[s] # <<>>)
          /\ \/ /\ NextFrame(s).msg \in Oversize /\ seqs' = seqs /\ out' = out
                /\ Gone(c)
             \/ /\ NextFrame(s).msg \notin Oversize /\ HasRoom(c)
                /\ Popped(s) /\ held' = [held EXCEPT ![s] = <<>>]
                /\ out' = [out EXCEPT ![c] = Append(@, NextFrame(s))]
                /\ pump' = [pump EXCEPT ![c].rem = @ - 1]
                /\ UNCHANGED <<pc, open, used, records, parked>>
             \/ /\ NextFrame(s).msg \notin Oversize /\ ~HasRoom(c)
                /\ Popped(s) /\ held' = [held EXCEPT ![s] = <<NextFrame(s)>>]
                /\ pump' = [pump EXCEPT ![c].todo = {}, ![c].at = None]
                /\ UNCHANGED <<out, pc, open, used, records, parked>>
    /\ UNCHANGED <<sock, pubs, overflowed, wire, channel, ready, mail, controls, notified, barrier>>

\* shed_subscriptions, one subscription at a time.
ShedSubscription(c) ==
    /\ pc[c] = "pump" /\ owed[c] = 0 /\ pump[c].at = None /\ pump[c].todo = {}
    /\ \E s \in pump[c].shed :
          /\ pump' = [pump EXCEPT ![c].shed = @ \ {s}]
          /\ CloseInbox(s) /\ held' = [held EXCEPT ![s] = <<>>]
    /\ UNCHANGED <<sock, pubs, overflowed, used, seqs, out, wire, pc, channel, edges, barrier>>

(***************************************************************************)
(* drain_outbound, the final probe and the park.  A drain writes what the   *)
(* socket takes: the byte budget spent with frames left continues the       *)
(* process, a full socket leaves residue and arms writability.  The probe   *)
(* looks at the socket, the held frames and the inboxes first, at the       *)
(* controls, the READY flag and the mailbox last.                           *)
(***************************************************************************)
SourcesPending(c) ==
    \/ sock[c] # <<>>
    \/ \E s \in OwnSubs(c) : held[s] # <<>> \/ s \in overflowed \/ queue[s] # <<>>

DrainOutbound(c, k) ==
    /\ PumpDone(c)
    /\ wire' = [wire EXCEPT ![c] = @ \o SubSeq(out[c], 1, k)]
    /\ out' = [out EXCEPT ![c] = SubSeq(@, k + 1, Len(@))]
    /\ pump' = [pump EXCEPT ![c] = NoPump]
    /\ \/ pc' = [pc EXCEPT ![c] = IF SourcesPending(c) THEN "continue" ELSE "probed"]
       \/ k > 0 /\ k < Len(out[c]) /\ pc' = [pc EXCEPT ![c] = "continue"]
    /\ UNCHANGED <<sock, pubs, inboxes, seqs, held, channel, edges, barrier>>

MarkParked(c) ==
    /\ pc[c] = "probed"
    /\ IF controls[c] # <<>> \/ c \in ready \/ c \in mail
       THEN pc' = [pc EXCEPT ![c] = "continue"] /\ UNCHANGED parked
       ELSE pc' = [pc EXCEPT ![c] = "parked"] /\ parked' = parked \cup {c}
    /\ UNCHANGED <<sock, pubs, inboxes, frames, channel, pump, ready, mail, controls, notified,
                   records, barrier>>

\* mark_parked's second half, then NativeOutcome::Wait.
SignalSettle(c) ==
    /\ pc[c] = "parked"
    /\ moved' = (moved \/ armed)
    /\ pc' = [pc EXCEPT ![c] = "wait"]
    /\ UNCHANGED <<sock, pubs, inboxes, frames, channel, pump, edges, sd, armed, quota, before>>

(***************************************************************************)
(* run_shutdown_sequence, after accept has stopped.                         *)
(***************************************************************************)
Arm ==
    /\ sd.at = "serving" /\ quota.stops
    /\ sd' = [sd EXCEPT !.at = "wake", !.todo = records]
    /\ armed' = TRUE /\ before' = 1..pubs
    /\ UNCHANGED <<sock, pubs, inboxes, frames, pc, channel, pump, edges, moved, quota>>

\* wake_all_connections_for_flush: every connection's waker is fired.
WakeForFlush ==
    /\ sd.at = "wake" /\ sd.todo # {}
    /\ \E c \in sd.todo :
          /\ ready' = ready \cup ({c} \cap records) /\ mail' = mail \cup ({c} \cap records)
          /\ sd' = [sd EXCEPT !.todo = @ \ {c}]
    /\ UNCHANGED <<sock, pubs, inboxes, frames, pc, channel, pump, parked, controls, notified,
                   records, armed, moved, quota, before>>

Snapshot ==
    /\ \/ sd.at = "wake" /\ sd.todo = {}
       \/ sd.at = "sleep" /\ moved
    /\ sd' = [sd EXCEPT !.at = "observe"] /\ moved' = FALSE
    /\ UNCHANGED <<sock, pubs, inboxes, frames, pc, channel, pump, edges, armed, quota, before>>

\* Mutant: the barrier looks only at the parked flags.
QuiescedWithoutReady == \A c \in records : c \in parked

\* all_connections_delivery_quiesced, under the registry lock that mark_running
\* and mark_parked also take.
Quiesced == \A c \in records : c \in parked /\ c \notin ready

LeaveBarrier(passed) ==
    /\ sd' = [at |-> "notify", todo |-> records, passed |-> passed]
    /\ armed' = FALSE

Observe ==
    /\ sd.at = "observe"
    /\ IF Quiesced THEN LeaveBarrier(TRUE)
       ELSE sd' = [sd EXCEPT !.at = "sleep"] /\ UNCHANGED armed
    /\ UNCHANGED <<sock, pubs, inboxes, frames, pc, channel, pump, edges, moved, quota, before>>

FlushDeadline ==
    /\ sd.at = "sleep" /\ quota.deadlines /\ LeaveBarrier(FALSE)
    /\ UNCHANGED <<sock, pubs, inboxes, frames, pc, channel, pump, edges, moved, quota, before>>

\* notify_shutdown_subscribers, then after the drain budget
\* force_close_active_connections: a control and its atom for every record.
PushControl ==
    /\ sd.at \in {"notify", "close"} /\ sd.todo # {}
    /\ \E c \in sd.todo :
          /\ sd' = [sd EXCEPT !.todo = @ \ {c}]
          /\ IF c \in records
             THEN /\ controls' = [controls EXCEPT ![c] = Append(@, sd.at)]
                  /\ mail' = mail \cup {c}
             ELSE UNCHANGED <<controls, mail>>
    /\ UNCHANGED <<sock, pubs, inboxes, frames, pc, channel, pump, parked, ready, notified,
                   records, armed, moved, quota, before>>

DrainDeadline ==
    /\ sd.at = "notify" /\ sd.todo = {} /\ (quota.deadlines \/ records = {})
    /\ sd' = [sd EXCEPT !.at = IF records = {} THEN "done" ELSE "close", !.todo = records]
    /\ UNCHANGED <<sock, pubs, inboxes, frames, pc, channel, pump, edges, armed, moved, quota, before>>

Slice(c) ==
    \/ MarkRunning(c) \/ HandleControl(c) \/ MailboxDrained(c)
    \/ ServicePending(c) \/ ReadPublish(c) \/ ReadUnsubscribe(c) \/ Release(c)
    \/ PublishReturns(c)
    \/ PumpSelect(c) \/ PumpFrame(c) \/ ShedSubscription(c)
    \/ \E k \in 0..Len(out[c]) : DrainOutbound(c, k)
    \/ MarkParked(c) \/ SignalSettle(c)
ActorStep == Admit \/ FireFlag \/ FireSend \/ FannedOut
Shutdown == WakeForFlush \/ Snapshot \/ Observe \/ PushControl \/ DrainDeadline

Next ==
    \/ \E c \in Conns : SendPublish(c) \/ SocketFails(c) \/ PublishTimesOut(c) \/ Slice(c)
    \/ \E s \in Subs : SendUnsubscribe(s)
    \/ ActorStep \/ Arm \/ FlushDeadline \/ Shutdown

\* Every process keeps being scheduled, and a client keeps reading: a socket
\* that is offered frames again and again eventually takes one.
Fairness ==
    /\ \A c \in Conns : WF_vars(Slice(c))
    /\ \A c \in Conns : SF_vars(\E k \in 1..Len(out[c]) : DrainOutbound(c, k))
    /\ WF_vars(ActorStep) /\ WF_vars(Shutdown)

Spec == Init /\ [][Next]_vars /\ Fairness

(***************************************************************************)
(* Properties.                                                             *)
(***************************************************************************)
\* Every byte charged by an admission is given back exactly once, by the pop,
\* the close or the drop that removes its envelope: what the budget counts is
\* what the inboxes hold plus what is about to be released, and never above
\* the cap (ConnectionInboxBudget::try_charge / release).
BudgetExact ==
    \A c \in Conns :
        /\ used[c] = owed[c] + MapThenSumSet(LAMBDA s : Charged(queue[s]),
                                             {s \in Subs : Owner[s] = c})
        /\ used[c] <= ByteCap

\* What the client of s has read or will read from the outbound buffer.
Sent(s) == SelectSeq(wire[Owner[s]] \o out[Owner[s]], LAMBDA f : f.sub = s)
Told(s) == Sent(s) # <<>> /\ Last(Sent(s)).kind = "error"

\* A subscriber's frames carry the sequence numbers 1, 2, 3, ... without a gap or
\* a repeat and its messages in publish order, whatever was held back for want
\* of room: the held frame is the next one.  The SubscribeError that sheds the
\* subscription is the last frame it gets, also when a frame was held: the shed
\* drops that one (service_subscriptions, shed_subscriptions).
DeliveredInOrder ==
    \A s \in Subs :
        LET f == Sent(s) \o IF Told(s) THEN <<>> ELSE held[s]
        IN  \A i \in DOMAIN f :
                /\ f[i].kind = "error" => i = Len(f)
                /\ f[i].kind = "deliver" =>
                      f[i].seq = i /\ (i > 1 => f[i - 1].msg < f[i].msg)

\* When the flush barrier reports quiescence, every publish that a client had
\* sent before it was armed has left its socket, the channel's queue and every
\* inbox of a live subscriber, so no Disconnect can overtake it.  The one
\* exception is a publish whose call timed out: its publisher was told that it
\* failed, and the channel may serve it later (wait_for_delivery_quiesced before
\* notify_shutdown_subscribers; poll_reply's COMMAND_TIMEOUT).
FlushedBeforeDisconnect ==
    sd.passed =>
        \A m \in before \ late :
            /\ \A c \in records : ~Contains(sock[c], m)
            /\ ~InFan(m)
            /\ \A s \in open : ~Contains(queue[s], m) /\ \A i \in DOMAIN held[s] : held[s][i].msg # m

\* A parked process with an envelope, a held frame or a shed to deliver has its
\* wake in the mailbox or a notifier about to put it there (final_probe against
\* ReadyWaker::fire).
NoLostWake ==
    \A c \in records :
        pc[c] = "wait" /\ (\E s \in OwnSubs(c) : held[s] # <<>> \/ s \in overflowed \/ queue[s] # <<>>)
        => \/ c \in mail
           \/ (Serving("flag") \/ Serving("send")) /\ Owner[Member] = c

\* Once the clients stop publishing, every admitted message reaches its
\* subscriber's socket unless the subscription is shed, given up or its
\* connection ends: nothing stays in an inbox, held back or in the buffer.
EverythingDelivered ==
    <>[](\A s \in open : queue[s] = <<>> /\ held[s] = <<>> /\ out[Owner[s]] = <<>>)

\* Every envelope in an inbox is accounted for: charged once, and with a wake on
\* its way if its process sleeps.
InboxAccounted == BudgetExact /\ NoLostWake
===========================================================================
