# A TLA+ model of liminal

liminal is a messaging server and its client libraries. Clients open connections,
publish to channels, subscribe, and hold conversations with application code;
channels and conversations are actor processes on the beamr scheduler; durable state
is kept in the haematite store. The modules here model the parts of it where
concurrency, crashes and retries decide whether it is correct. They were written from
the Rust source under `src/crates`; `PROJECT.json` maps each definition to its lines.

Contents: [inventory](#inventory), [modules](#modules), [runs](#runs),
[refinement](#refinement), [finding](#finding), [observations](#observations),
[proofs](#proofs), [what is not modelled](#what-is-not-modelled).

## Inventory

| part | source | state | operations | what makes it hard |
|---|---|---|---|---|
| consumer cursors | `liminal/durability/cursor.rs` | persisted offset (a CAS cell), per-handle offset, pending offset | load, record_processed, flush | a restarted consumer and the instance it replaces share the cell; a write that reports an error may have landed |
| idempotency dedup | `liminal/durability/dedup.rs`, `dedup/sweep.rs` | one append-only stream per key hash | claim_or_get, complete_receipt, release_claim, sweep_once | read and append are two steps; hash collisions; dead claim holders |
| durable store | `liminal/durability/store.rs` | streams, CAS cells | append at an expected sequence, read, cas | external database; each call is atomic |
| channel actor | `liminal/channel/` | fan-out list, links, command queue, restart budget | publish, subscribe, unsubscribe, evolve, close, boot | the queue survives a crash and the mailbox does not; restart on demand by many callers |
| conversation actor | `liminal/conversation/` | phase, command queue, inbox, waiters, exit notifiers | send, receive, receive_timeout, query, close, finalize | host finalize, participant and watcher exits race every operation |
| subscription inbox | `liminal/channel/subscription.rs` | envelopes, byte charge, overflow flag | admit, pop, close | a budget shared by several inboxes |
| pending replies | `liminal-server/.../pending_reply.rs` | table of pending and tombstoned operations, timers | admit, match_reply, expire_due, remove_conversation | late replies, deadlines, parked connections |
| connection registry | `liminal-server/.../supervisor.rs` | admissions, records, push slots, control queues | spawn, remove, push, reply, force close, reap, drain, shutdown | six kinds of thread, one lock section at a time |
| connection process | `liminal-server/.../process.rs`, `apply.rs` | buffers, subscriptions, conversations | one slice: drain, read, apply, deliver, write, park | wake edges lost between the drain and the park |
| delivery pump | `liminal-server/.../delivery.rs` | held frames, sequence numbers | service_subscriptions, shed | full buffers in mid-round |
| channel roster | `liminal-server/.../services.rs` | registered and quiesced channels | register, admit, quiesce, publish, subscribe | quiesce racing admission |
| shutdown | `liminal-server/server/shutdown.rs` | phase | quiesce, flush barrier, force close, drain | a deadline over everything else |
| connection incarnations | `liminal-server/server/participant/incarnation_stream.rs` | durable allocator, open fates | startup, allocate, open and complete fate | flush before use; replay after a crash |
| participant lifecycle | `liminal-protocol/lifecycle` | membership, bindings, cursors, claim frontier | enroll, attach, detach, leave, admit, acknowledge | retries over lost responses, capacity reservations |
| participant service | `liminal-server/server/participant` | aggregates and their event logs | dispatch, persist, recover, publish | one writer per conversation, crash between steps |
| sdk | `liminal-sdk` | connection state, acknowledged sequences | connect, resume, submit | reconnect with answers outstanding |

The remaining parts (codecs, configuration, health, metrics, routing, pressure,
cluster, the other-language SDKs) are listed with their reasons in `PROJECT.json`.

How they interact: a client frame is applied by the connection's process. A publish
claims its idempotency key, appends to the durable log, asks the channel actor to fan
out and records the receipt. A conversation message admits a pending reply, and the
participant's answer comes back through a queue and a wake. The registry accepts,
finds, pushes to, and removes connections. A participant operation is appended to its
conversation's log, becomes owed to the other members, and is offered to each on the
connection it is bound to; the end of a connection ends its bindings.

What has to hold: a persisted position never passes an unprocessed message; a key is
fanned out once; an acknowledged publish reached its subscribers; a call always
returns; a reply answers the request it belongs to; a connection slot, a push slot and
a death are each accounted for exactly once; a record owed to a participant stays owed
until its cursor reaches it or it leaves; and every exit a conversation still owes can
be paid for.

## Modules

One module per part; each step is one atomic step of the code (a lock section, an
atomic operation, a store call, a mailbox message).

**ConsumerCursor.** `stored` is the CAS cell; each handle has `current_offset`,
`messages_since_last_checkpoint` and `pending_offset`. A handle owns its driver
(`&mut`), so `record_processed` and `flush` are one action each, with the CAS inside
it. The CAS succeeds, finds another value, or reports a store error, and then the write
may have landed all the same. `BatchSize` 1, n and 0 stand for PerMessage, PerBatch(n)
and ExplicitFlush. `processed` is history.

**DedupCache.** `log` is one hashed stream with the records of every key that falls
on it. Each operation takes a snapshot (`seen`), decides, and appends at the sequence
it read; a moved stream refuses the append. The publisher's steps are those of
`ChannelServices::publish`: claim, deliver, complete, or release after a failure. A
publisher may die anywhere. Whether a sweeper runs is chosen initially: nothing in
production arms one (`docs/design/W4-LAW1-POLLING-RETIREMENT.md:183`), so a claim whose
publisher died stays, and no property relies on a sweep. `owner` is history.

**ChannelActor**, **MCChannelActor.** Host threads run the whole of a call:
ensure_running with its double check under `restart_lock`, push, wake, poll, take back
after the command timeout. The actor pops one command per wake atom. `apply_boot` takes
the registrations out and looks up and links each subscriber in separate steps, since
subscriber processes die in between; a link that fails abandons the Boot, and the list
taken out is gone (`forgotten`). An inbox may refuse an envelope for overflow
(`refused`). A durable publish appends before it queues its command; the claim and
release of its key follow `services.rs`. `AckedPublishReachesMembers` names those two
losses as its only exceptions.

**ConversationActor.** As above for a conversation, with the participant process, the
exit watcher and host finalization, whose steps (mark and drain, phase, release) other
threads interleave with. A Boot links and records its participants even when the watcher
is already gone. `HandoffIsExact` needs the reply path of an embedded
conversation; a server connection's reply queue is in PendingReplies.

**PendingReplies.** The table, the participants' queues, the notifier that sends READY,
the deadline timers, and the slice: drain mailbox, acknowledge, read the wire, expire,
drain replies, arm timers, probe, park.

**ConnectionRegistry**, **MCConnectionRegistry.** Spawn threads, connection processes,
push callers, the exit-event reactor, the closer, the drain waiter and the thread that
shuts the supervisor down, each a sequence of lock sections. `remove` is the funnel the
code runs from four places (a process's last slice, a spawn thread reclaiming an orphan,
the reactor, shutdown): record out, slots swept, admission released, waiters signalled,
unregistration fired. A worker registration is two steps, the application's acceptance
and `set_registration`; `missed` collects the connections whose record was gone by the
second. beamr's exit-event queue has capacity `ExitCap` and degrades to Lagged. `quota`
bounds the environment of one behaviour; the MC module lists the environments.

**IncarnationStream**, **MCIncarnationStream.** `log` is the one durable stream of
Startup, Allocate, Open and Complete events and `flushed` how much of it is on disk. A
process replays it, completes the Opens it finds, appends its Startup, ends the
bindings of prior servers and becomes ready; `authority` is its
`ConnectionIncarnationAuthority` with the stream handle in it. A connection reads its
references, allocates under the lock, registers, may have participants bound to it, and
ends with Open, fold, Complete. Every append may fail before or after it lands, and
every flush may fail; the owner is then held, refuses, backs off, and resumes from a
replay or surrenders to another process. Replay and the live operations are separate
definitions, as they are in the code. `bound` abstracts the conversations to the
incarnations that a slot is bound to. The widths of the two counters are the constants
`MaxServer` and `MaxOrdinal`, so exhaustion is reached.

**Delivery**, **MCDelivery.** From a publish to the socket: the channel actor's queue
(`fan`), where a publish may outlive its caller's `COMMAND_TIMEOUT` (`late`), inboxes
with a depth cap and a byte budget shared by the connection, the pump with its slice
budget, held frames and shed, the bounded outbound buffer, the run, probe and park edges, READY
wakes, and the shutdown thread with its flush barrier and deadline. The barrier samples
connections one at a time; that is safe because `mark_running` and `mark_parked` take
the registry lock it samples under. A `Disconnect` is dropped when the outbound buffer
is full, and removing a connection does not bump the settle generation, which only
delays the barrier.

**ChannelRoster**, **MCChannelRoster.** Registration (read-locked fast path, build with
no lock, write-locked decision), admission, one-way quiesce with its reason, the state
query, and publish and subscribe, which pass the admission twice.

**ClaimFrontier.** One conversation's sequence and order ledgers, retained rows and
floor, compaction markers, closure accounting and the lane of decided rows. Each
operation runs under the conversation's lock and is one step. Individually positioned
claims are counts, a charge is one entry per row, and delivery is left to
ParticipantOutbox, so an acknowledgement admits any delivered number. A boot drains the
lane, ends the bindings of the previous server one at a time, and may be refused. An
enrollment after the first, an attach and a terminal lay the claims out anew behind a
checked cursor and so need one number past the last claim (`Rebuilds`); a record, a
marker's drain and a Leave do not.

**ParticipantOutbox**, **MCParticipantOutbox**, **RecipientLedger.** One conversation's operation log and
recipient extension log, the owner folded from both, and the way from a commit to a
frame: tells, the inbox of a connection, the pump, held heads, offer cursor. The owner
may be evicted at any time; appends fail and the server crashes, out of the faults that
`quota` leaves; it also bounds the rows and names the requests in use. `load` is what a load would fold from the two logs. A slice may be cut after
any frame. Take, select, hold and enqueue are one step under the owner's lock; the offer
of a participant's own marker takes the lock again and is a step of its own. Markers
are drained nondeterministically for a member that is behind, pending terminals are left
to ClaimFrontier, the wake and park edges to Delivery, and a connection is accepted with
its first request. `written` is history: what reached each current binding.

The scheduler, the process table and the store are outside the repository. They are
modelled as the code uses them: a pid is never reused, a wake for a pid not in the
table fails, an exit event is published no earlier than the process leaves the table,
and a termination takes effect between two slices. A power loss takes unflushed events
from the end of a stream; the death of a process takes none.

## Runs

`tlc -config <cfg> <module>`.

| run | instance | checks |
|---|---|---|
| `cursor` | 2 handles, batches of 2, 5 messages, 2 store errors | `NothingSkipped`, `RedeliveryBounded` |
| `dedup` | 2 publishers, 2 keys on one stream, 4 records, 3 ticks | `AtMostOnceDelivery`, `ReceiptNeverClobbered`, `ClaimSettledByOwner` |
| `channel` | 2 callers, 2 calls, 1 crash, in 3 deployments: all operations with 1 subscriber and restart budget 0 or 2, publishes to 2 subscribers | `AckedPublishReachesMembers`, `InOrderAndDurable`, `FanOutListSound`, `CallReturns` |
| `conversation` | 2 callers, all operations, 2 faults among actor, participant, watcher | `FinalizationComplete`, `HandoffIsExact`, `CrashReportedOnce`, `FinalizeSettles` |
| `pending_replies` | 2 conversations, caps 2, 3 operations, 4 client workloads | `AnsweredOnceByItsOwn`, `NoOrphanReply`, `TableDrains` |
| `registry` | 7 environments of up to 2 connections and 2 pushes, 2 of them with a shutdown, 1 admission, exit queue of 1 | `NothingStranded`, `PushReportsTruth`, `RegistrySettles` |
| `incarnations` | 1 process with 2 connections or 2 with 1 each, 2 startups, 2 ordinals | `NextStartSound`, `ResumeExact`, `CompleteMeansFolded`, `PublishedOnce` |
| `delivery` | 2 connections, 2 subscriptions, up to 4 messages, 7 environments | `InboxAccounted`, `DeliveredInOrder`, `FlushedBeforeDisconnect`, `EverythingDelivered` |
| `roster` | 2 callers, 3 names, colliding and uncompilable documents, 3 calls, cap 1 or none | `RosterAgrees`, `QuiesceTruthful` |
| `frontier` | 2 slots, 15 numbers, 12 orders, 4 retained rows, 1 crash | `ExitsFunded`, `AccountingExact`, `MarkerSurvives`, `RecordTells`, `BootEnds` |
| `outbox` | 2 participants, 2 connections, obligation limit 4: 4 rows with 1 fault, or 5 rows of enroll, attach and leave | `LoadsUnlessOverBound`, `LiveIsReplay`, `OffersGapless`, `OwedIsTold`, `ImplementsLedger`, `OffersComplete` |
| `outbox_epoch` | the same with 7 rows, no fault and a limit that is not reached | `OfferCursorIsBindings`, which fails: see [finding](#finding) |

Several names are conjunctions of facts that are also defined one by one; the comment
above each states it. `TypeOK` is among the conjuncts of ChannelActor,
ConversationActor, ConnectionRegistry and IncarnationStream. The largest runs reach
1,088,675 (`delivery`), 505,090 (`channel`), 459,887 (`frontier`), 428,881 (`registry`),
399,780 (`roster`) and 299,428 (`outbox`) distinct states.

What some of them say exactly:

- `RedeliveryBounded`: a crash repeats less than one batch, and one message more for
  each store error since the last checkpoint.
- `ClaimSettledByOwner`: without a sweeper, only the publish that made a claim settles
  it. It is a safety property; that a dead publisher's claim is ever freed is not claimed.
- `FlushedBeforeDisconnect` speaks of publishes that returned; one whose caller timed
  out may reach the inbox after the barrier.
- `ExitsFunded`: a Leave, the drain of a marker and the drain of a pended terminal
  always pass both ledgers' checks. The terminal of a bound participant passes them
  exactly when the claims do not take the very last number (see
  [observations](#observations)).
- `BootEnds`: once crashes stop the conversation is served again, except on two kinds of
  log (`NeverStarts`), on which every start fails: a drained Died erased the last
  enrollment token while its fate was still to be installed, or a full ledger refuses
  the fate of a participant that is still bound.
- `LoadsUnlessOverBound`: the two logs load, unless more is owed in them than the bound
  on live obligations allows.
- `HandoffIsExact`: two calls are too few to see the order of sends in the run; the
  theorem covers it.

*Bounds.* Every race here is between two parties over one object, so two callers,
publishers or handles suffice to show it. Two keys share a stream so that a collision
happens; a batch of 2 in 5 messages gives a partial batch before and after a
checkpoint, and two store errors one on each side of it; caps of 2 with 3 operations are hit with tombstones in the table; one
admission and two spawns force reuse of a slot; an exit queue of 1 overflows with the
second death; two startups give one restart over every state the first server can leave,
and two ordinals the last one; processes and connections there are symmetric; a restart
budget of 0 is exhausted by the first crash and 2 never is; with two subscribers a
re-link can lose the list after one of them is linked.
Messages of two lengths overflow the byte budget before or after the depth cap, and
with depth 1 and room 1 an inbox overflows while a frame is held; 15
numbers and 12 orders exhaust both ledgers; 4 retained rows are overtaken by 2 members;
4 rows hold an enrollment of each member, a record and its acknowledgement or the end
of a binding, and the obligation limit of 4 is passed; the fifth row lets a binding be
handed over while its marker is being offered.
What the bounds hide: longer histories in `outbox`, the finding among them;
three-party races; and a second crash during the recovery from a first one in
`channel`.

*Fairness.* Weak fairness of each thread once it is inside a call, of a live process
with mail, of the reactor and of the notifier: the operating system and beamr run
whatever is runnable. In Delivery this is each connection's slice and the shutdown
thread; in ParticipantOutbox an operation, tell or offer under way; in ClaimFrontier the
boot sequence. Strong fairness is used for a call's deadline in ChannelActor, because
the poll loop enables and disables it every 10 ms while the clock only advances, and
for a socket that takes frames again and again (a drain that writes at least one frame
in Delivery, a pump that is not refused by a full buffer in ParticipantOutbox): the
liveness of delivery is stated for clients that read. Timers and deadlines fire
eventually. No fairness is assumed of a dedup sweep. Nothing else is assumed of clients, participants or crashes. Deadlock is not checked where
a system may rest with all work done or all bounds used.

## Refinement

`RecipientLedger` says what members may rely on, without logs, owners or connections: a
record is owed at once to every live member but its sender and stays owed until the
member's cursor reaches it or it leaves; a cursor moves only onto an owed number.
`ImplementsLedger` checks that ParticipantOutbox implements it, with the ledger's state
read from the two durable logs as a load would read them. A row and its extension row
are then one step, and evictions, repairs, tells and offers are none. What is proved of
the ledger holds of the conversation on the checked instance.

## Finding

`outbox_epoch`. The comment on `ParticipantOfferedProgress` calls it the offer cursor
of "one conversation and exact binding". It goes on: "A different binding epoch discards
this progress", and the code does discard by epoch. But an epoch is a connection and a
capability generation, not a participant. One connection can host participant 2 and then
participant 1 at the same generation, and the cursor of the first then hides a record
owed to the second on that binding. Whether the first sentence or the second is the
intent is for the authors; the record is durable and is offered on the next binding.

`OffersGapless` and `OffersComplete` exclude this case explicitly (they ask that the
offer cursor is the participant's own), and `OwedIsTold` speaks of what selection would
offer. They say nothing about a binding that inherits another participant's cursor.

## Observations

Met while modelling. No run checks these; they are readings of the code and of traces.

- A publish that fails after its fan-out releases its key, so a retry is fanned out
  twice; `services.rs:1611-1615` says at most once. `AtMostOnceDelivery` counts only
  fan-outs that reported success.
- A subscriber that dies between the liveness check and the link fails Boot, and the
  fan-out list taken out is lost (comment at the actor's `apply_boot`): later publishes
  are acknowledged and reach nobody. This is `forgotten`, an exception of
  `AckedPublishReachesMembers`.
- A shutdown that removes a record between the application's acceptance of a worker and
  `set_registration` leaves a worker that is never unregistered; `apply.rs:279-280` says
  "so the close-path `on_worker_unregistered` fires for exactly the connections the
  application accepted". `RegistrySettles` exempts it (`missed`).
- A record may take the last order no claim needs. The fate of a bound participant is
  then refused as exhausted (`take_live_order`, `claim_frontier.rs:4050-4058`), and a
  restart cannot end that binding either; a Leave still passes.
  `PARTICIPANT-CONTRACT.md:1776-1777` says "A terminal fate consumes `A` while assigning
  its immutable major and cannot be refused for order exhaustion." The ledgers are 64
  bits wide, so this takes their last number.
- A receive pops a buffered reply and then fails on the Failed phase; the reply is gone.
- A watcher exit that read the finalized marker before a finalize turns Closed into
  Failed after it.
- Two accept threads allocate on reference sets that miss each other; the earlier
  connection leaves the active set and its fate is refused later.
- A message refused by a full inbox can be followed by later ones before the shed.
- A terminal drain that seals a conversation is followed by a finalizer that finds no
  frontier, and each load meets it again.
- Boot with n bound members at the retained limit refuses n - 1 starts first, and after
  a pended boot death attach and enroll are refused until another restart.
- A stale held head ends the pump's interest in the conversation, and a failed append
  evicts the owner without a tell: the `dropped` exception of `OwedIsTold`.
- An acknowledgement, fate or leave replaces the owner and forgets marker offers: a
  marker already enqueued cannot be acknowledged on that binding.
- Exceeding the live obligations is detected after the row is durable: each load is then
  refused, a fate latches the service and the next start fails.
  `docs/design/W2-OBLIGATION-DEBT-DISPATCH.md:617` calls the accounting behind it "legal,
  bounded accounting divergence". `LoadsUnlessOverBound` excludes it.
- `record_publication_offer` that loses its race tears the connection down.

## Proofs

TLAPS proves these for every value of the constants that satisfies the modules' named
assumptions.

| theorem | module | states |
|---|---|---|
| `CursorInvariant`, `NoMessageSkipped`, `BatchBoundsRedelivery`, `PositionNeverRegresses` | ConsumerCursorProofs | the invariant below, `NothingSkipped`, `RedeliveryBounded`, `StoredMonotonic` |
| `FannedOutAtMostOnce`, `ReceiptSurvives`, `ClaimIsItsOwners`, `StreamBelongsToOneKey` | DedupCacheProofs | `AtMostOnceDelivery`, `ReceiptNeverClobbered`, `ClaimSettledByOwner`, `OneKeyPerStream` |
| `TableInvariant`, `AnsweredOnce`, `NoOrphans` | PendingRepliesProofs | the invariant below, `AnsweredOnceByItsOwn`, `NoOrphanReply` |
| `FrontierInvariant`, `ExitsAreFunded`, `AccountingIsExact`, `MarkersSurvive`, `PendingIsAtLimit`, `ReplayIsCovered` | ClaimFrontierProofs | the invariant below, `ExitsFunded`, `AccountingExact`, `MarkerSurvives`, `PendingAtLimit`, `ReplayCovers` |
| `NothingStrandedAlways`, `PushReportsTruthAlways` | ConnectionRegistryProofs | `NothingStranded`, `PushReportsTruth` |
| `ConversationInvHolds`, `CrashReportedOnceAlways`, `HandoffIsExactAlways`, `FinalizationCompleteAlways`, `TerminalPhaseStandsAlways` | ConversationActorProofs | the invariant below, `CrashReportedOnce`, `HandoffIsExact`, `FinalizationComplete`, `TerminalPhaseStands` (the safety half of `FinalizeSettles`) |
| `RosterAgreesAlways`, `QuiesceTruthfulAlways`, `NoCapNoRegistration`, `EntriesPermanent` | ChannelRosterProofs | `RosterAgrees`, `QuiesceTruthful`, no runtime entry without a cap, entries and reasons are never removed or rewritten |
| `OwedStaysAhead`, `NoObligationLost`, `CursorsMoveOntoOwed` | RecipientLedgerProofs | `OwedAhead`, `NothingLost`, `CursorOntoOwed` of the abstract ledger |

*Cursor.* `NothingSkipped` is not inductive: a checkpoint sets the cell to a handle's
read position, so that position must itself have only processed messages below it
(`HandleBacked`), and the batch counter must count exactly the unpersisted messages
(`CountsUnpersisted`). `IInv` is their conjunction with the type invariant.

*Dedup.* At most one fan-out: a publisher between its claim and its fan-out owns the
latest record (`OwnerHolds`), and a key already fanned out is backed by a record that
no one else can be about to fan out for (`FanOutBacked`). Both hold while no sweep
runs, which is the invariant's last conjunct. Receipts: an append lands only where its
author read, so what the author saw is still the latest record (`SnapshotsHold`); no
operation but the sweep decides to append over a receipt. Collisions: an operation
about to append found its own key alone on the stream (`DecidedOnOwnStream`).

*Pending replies.* A reply frees the entry it is matched to, so it must be queued at
most once (`QueuedOnce`); an entry is answered only while pending, so a pending entry
has no answer yet (`PendingUnanswered`); ids are fresh (`FreshIds`).
`TypeOK` needs two more facts (`Bookkeeping`): an entry names the conversation it was
admitted on, and only an open conversation owes replies.

*Frontier.* `FrontierInv` adds to the properties what makes them inductive: both
ledgers hold their reserve (`NumbersReserved`), nothing points past the high watermark
(`WithinHigh`), the lane is all markers or one pending terminal (`LaneShape`) that
belongs to a pending participant and conversely (`LanePending`, `PendingInLane`), a
participant has one marker (`OneMarker`), credits and baseline equal what they are
derived from (`CreditsExact`, `BaselineExact`), the counts agree with the slots
(`Census`), and replay covers the live anchors (`ReplayCovers`). A pending terminal is
always at the retained limit, so the Leave that would append it never fits.

*Registry.* Neither property is inductive, because slots, queue entries, channels and
funnel records are changed by different threads. `RegistryInv` says who may be in the
exit funnel and for which connection (`FunnelInv`: a process in its last slice, a spawn
thread reclaiming an orphan, the reactor or the shutdown thread, always for a connection
that is closing, dead or out of the records), that a record implies a spawned process and an exit event a dead one
(`LifeInv`), that a queued push is in its own connection's queue once and was not taken
(`QueueInv`), and what a slot says of its channel (`ChanOk`: the sender is held while the
slot is there, and a channel was closed only for a reason `Cut` names).
`AdmissionsExact` counts a set, so each step that spawns, registers or releases cites
the cardinality of a set with one element more or less. `remove_control` takes the
first matching entry; that the rest keeps its order and its multiplicity is
`WithoutFacts`.

*Conversation.* `ConversationInv` is a stack of layers, each proved to be preserved from
the ones below it. The restart gate is held by the one caller that boots or finalizes
(`LockInv`), a finalized queue is empty (`DrainInv`), and a Closed phase is followed by
the marker (`ClosedInv`). Exactness of the hand-off rests on the last two: a receive is
parked only where nothing is buffered, and what a finalization cuts off was counted
(`HandoffInv`, `OrderInv`). That every waiting caller can be seen needs to know whose a
command is: ids are fresh, two callers never wait with the same one, and a command, a
parked receive or a close carrying a waiting caller's id is that caller's (`IdInv`,
`OwnerInv`, `VisibleInv`); a receive that timed out leaves entries behind that nobody
listens to. That nothing is left behind needs who is still to act: an actor that is not
booted has a caller that will roll it back, a slice of an earlier incarnation ends
before the next one boots (`BootInv`, from `ReplyInv`), and after the marker somebody is
still to release or everything is released, and a living actor has somebody who will
stop it (`FinalInv`). `CrashReportedOnce` needs that a registrant was signalled only for
a recorded death (`CrashInv`). `UniqueInv` (queued ids are distinct) is what lets
`Without` remove one command where the code retains all others. The bounds are
assumptions only in being natural numbers, with at least one incarnation.

*Roster.* `RosterInv` adds what the calls in flight know: a registration past the fast
path saw a configured cap, a caller that recorded a reason did so on an
entry that is still there (`Grows`: entries are permanent, a reason is recorded once),
and every answer already given stays true of the tables (`AnswerOk`). The assumptions
are that boot names are unique, a cap is absent or a number, and the reasons are not
among the other answers (they are distinct variants in the code).

*Ledger.* `OwedAhead` is inductive with the type invariant: new numbers lie above
`high`, and a cursor moves onto an owed number and drops those up to it.

Only model-checked: all liveness properties, `RecordTells`, the refinement (replay is a
recursion over the logs), and everything about ChannelActor,
IncarnationStream, Delivery and ParticipantOutbox. The liveness half of `FinalizeSettles`
(`FinalizeFreesCallers`) is among the former.
Liveness under fairness and induction over data are beyond the installed provers.

## What is not modelled

- Bytes: frame and record codecs, schema validation, encodings of keys. A message is
  its identity. A collision of key hashes is modelled, the hash is not.
- Poisoned locks and failed allocations.
- In ConnectionRegistry: readiness tokens and descriptors, the metrics gauge, the
  NotifyShutdown control (it writes one frame), and more than one worker registration
  per connection.
- In the participant conversation: credentials and their verification, receipts and
  attempt fingerprints, nonzero-debt episodes, fenced recovery attach, the observer,
  settlement waiters, operator reissue.
- The client side: SDK reconnection, remote transports and the participant client. The
  server models accept any request at any time, so they do not depend on it.
- Parts with status `not_modelled` in `PROJECT.json`, with their reasons. About a tenth
  of the implementation's lines is mapped: most of the rest is codecs, result types,
  validation, configuration, transports and the client libraries.
