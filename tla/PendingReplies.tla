-------------------------- MODULE PendingReplies --------------------------
(***************************************************************************)
(* The pending-reply table of one server connection, with what it races:   *)
(* the participants that produce replies on the conversation scheduler,    *)
(* the reply notifier that wakes the connection, the deadline timers, and  *)
(* the connection's own slice, which drains, arms, probes and parks.       *)
(***************************************************************************)
EXTENDS Naturals, Sequences, FiniteSets, SequencesExt

CONSTANTS Convs,               \* conversation ids the client uses
          MaxPerConversation,  \* max_pending_replies_per_conversation
          MaxPerConnection,    \* max_pending_conversation_replies_per_connection
          MaxOps,              \* bound: reply-requested operations
          Workloads,           \* the sequences of frames the client may send
          MaxWire,             \* bound: frames not yet read
          NoConv

ASSUME CapsAssumption == MaxPerConversation \in Nat /\ MaxPerConnection \in Nat
ASSUME BoundsAssumption == {MaxOps, MaxWire} \subseteq Nat
ASSUME NoConvAssumption == NoConv \notin Convs

VARIABLES entry,       \* [op -> state of its table entry]
          conv,        \* [op -> conversation it was admitted on]
          nextOp,      \* next_op_id
          due,         \* ops whose deadline has passed
          timer,       \* ops whose entry holds a deadline timer
          open,        \* conversations in the connection's map
          dead,        \* open conversations whose participant has died
          forwarded,   \* [conv -> requests the participant has not processed]
          replies,     \* [conv -> operation_replies, by op id]
          firing,      \* [conv -> a reply was queued, notifier not yet called]
          mail,        \* a READY atom is in the connection's mailbox
          readyPending,\* the record's ready_pending edge
          wire,        \* client frames that wait to be read
          pc,          \* where the connection's slice is
          visit,       \* conversations this slice has still to drain
          frames,      \* [op -> answers written for it, with the reply's origin]
          sent         \* the client frames so far

table == <<entry, conv, nextOp, due, timer>>
other == <<open, dead, forwarded, replies, firing>>
wakes == <<mail, readyPending>>
vars == <<table, other, wakes, wire, pc, visit, frames, sent>>

Ops == 1..MaxOps
Slice == {"parked", "drain", "ack", "read", "expire", "collect", "match", "sync", "probe"}
Frame == [kind : {"open", "close", "request"}, conv : Convs]
Answer == [kind : {"reply", "timeout"}, of : Ops]

TypeOK ==
    /\ entry \in [Ops -> {"none", "pending", "tombstone"}]
    /\ conv \in [Ops -> Convs \cup {NoConv}]
    /\ nextOp \in 1..(MaxOps + 1)
    /\ due \subseteq Ops /\ timer \subseteq Ops /\ visit \subseteq Convs
    /\ open \subseteq Convs /\ dead \subseteq open
    /\ forwarded \in [Convs -> Seq(Ops)]
    /\ replies \in [Convs -> Seq(Ops)]
    /\ firing \subseteq open
    /\ mail \in BOOLEAN /\ readyPending \in BOOLEAN
    /\ wire \in Seq(Frame)
    /\ pc \in Slice
    /\ frames \in [Ops -> Seq(Answer)]
    /\ sent \in Seq(Frame)

Init ==
    /\ entry = [o \in Ops |-> "none"] /\ conv = [o \in Ops |-> NoConv]
    /\ nextOp = 1 /\ due = {} /\ timer = {}
    /\ open = {} /\ dead = {}
    /\ forwarded = [c \in Convs |-> <<>>] /\ replies = [c \in Convs |-> <<>>]
    /\ firing = {}
    /\ mail = FALSE /\ readyPending = FALSE
    /\ wire = <<>> /\ pc = "parked" /\ visit = {}
    /\ frames = [o \in Ops |-> <<>>]
    /\ sent = <<>>

Held(c) == {o \in Ops : entry[o] # "none" /\ conv[o] = c}
Pending == {o \in Ops : entry[o] = "pending"}
ConversationsWithEntries == {conv[o] : o \in {p \in Ops : entry[p] # "none"}}

-----------------------------------------------------------------------------
(* The client, the clock and the conversation scheduler.                   *)
FrameArrives(f) ==
    /\ Len(wire) < MaxWire
    /\ \E w \in Workloads : IsPrefix(Append(sent, f), w)
    /\ f.kind = "request" => nextOp + Len(wire) <= MaxOps
    /\ sent' = Append(sent, f)
    /\ wire' = Append(wire, f)
    /\ mail' = TRUE
    /\ UNCHANGED <<table, other, readyPending, pc, visit, frames>>

DeadlinePasses(o) ==
    /\ o < nextOp /\ o \notin due
    /\ due' = due \cup {o}
    /\ UNCHANGED <<entry, conv, nextOp, timer, other, wakes, wire, pc, visit, frames, sent>>

(* The deadline timer enqueues READY; it never fires early.                *)
TimerFires(o) ==
    /\ o \in timer /\ o \in due /\ entry[o] = "pending"
    /\ ~mail
    /\ mail' = TRUE
    /\ UNCHANGED <<table, other, readyPending, wire, pc, visit, frames, sent>>

(* run_slice and deliver_participant_reply: the participant processes a    *)
(* request and may have nothing to say; a reply joins the queue, and only  *)
(* the empty to non-empty edge will call the notifier.                     *)
ParticipantSilent(c) ==
    /\ forwarded[c] # <<>> /\ c \notin dead
    /\ forwarded' = [forwarded EXCEPT ![c] = Tail(@)]
    /\ UNCHANGED <<table, open, dead, replies, firing, wakes, wire, pc, visit, frames, sent>>

ParticipantReplies(c) ==
    /\ forwarded[c] # <<>> /\ c \notin dead /\ c \notin firing
    /\ forwarded' = [forwarded EXCEPT ![c] = Tail(@)]
    /\ replies' = [replies EXCEPT ![c] = Append(@, Head(forwarded[c]))]
    /\ firing' = IF replies[c] = <<>> THEN firing \cup {c} ELSE firing
    /\ UNCHANGED <<table, open, dead, wakes, wire, pc, visit, frames, sent>>

(* fire_reply_notifier, ReadyWaker::fire.                                  *)
FireNotifier(c) ==
    /\ c \in firing
    /\ firing' = firing \ {c}
    /\ readyPending' = TRUE /\ mail' = TRUE
    /\ UNCHANGED <<table, open, dead, forwarded, replies, wire, pc, visit, frames, sent>>

(* The participant crashes under CrashPolicy::Fail: what it had not        *)
(* processed is never answered, and the terminal error calls the notifier. *)
ParticipantDies(c) ==
    /\ c \in open \ dead
    /\ dead' = dead \cup {c}
    /\ firing' = firing \cup {c}
    /\ UNCHANGED <<table, open, forwarded, replies, wakes, wire, pc, visit, frames, sent>>

-----------------------------------------------------------------------------
(* The connection's slice: drain the mailbox, acknowledge READY.           *)
Run ==
    /\ pc = "parked" /\ mail
    /\ pc' = "drain"
    /\ UNCHANGED <<table, other, wakes, wire, visit, frames, sent>>

DrainMailbox ==
    /\ pc = "drain"
    /\ mail' = FALSE
    /\ pc' = "ack"
    /\ UNCHANGED <<table, other, readyPending, wire, visit, frames, sent>>

AcknowledgeReady ==
    /\ pc = "ack"
    /\ readyPending' = FALSE
    /\ pc' = "read"
    /\ UNCHANGED <<table, other, mail, wire, visit, frames, sent>>

(* service_socket: apply the frames that have arrived, one at a time.      *)
NextFrame(kind) == pc = "read" /\ wire # <<>> /\ Head(wire).kind = kind

ConversationOpen ==
    /\ NextFrame("open")
    /\ wire' = Tail(wire)
    /\ open' = open \cup {Head(wire).conv}
    /\ UNCHANGED <<table, dead, forwarded, replies, firing, wakes, pc, visit, frames, sent>>

(* The close sweep and the finalization of the conversation's core.        *)
ConversationClose ==
    /\ NextFrame("close")
    /\ wire' = Tail(wire)
    /\ LET c == Head(wire).conv IN
         /\ open' = open \ {c} /\ dead' = dead \ {c} /\ firing' = firing \ {c}
         /\ forwarded' = [forwarded EXCEPT ![c] = <<>>]
         /\ replies' = [replies EXCEPT ![c] = <<>>]
         /\ entry' = [o \in Ops |-> IF c \in open /\ conv[o] = c THEN "none" ELSE entry[o]]
         /\ timer' = timer \ (IF c \in open THEN Held(c) ELSE {})
    /\ UNCHANGED <<conv, nextOp, due, wakes, pc, visit, frames, sent>>

(* conversation_message with the reply flag: the reservation comes first,  *)
(* then the forward; a forward that fails cancels the reservation.         *)
CapsAdmit(c) ==
    /\ Cardinality(Held(c)) < MaxPerConversation
    /\ Cardinality(Pending) < MaxPerConnection

Request ==
    /\ NextFrame("request") /\ nextOp <= MaxOps
    /\ LET c == Head(wire).conv IN
         /\ c \in open
         /\ CapsAdmit(c)
         /\ nextOp' = nextOp + 1
         /\ conv' = [conv EXCEPT ![nextOp] = c]
         /\ IF c \in dead
            THEN UNCHANGED <<entry, forwarded>>
            ELSE /\ entry' = [entry EXCEPT ![nextOp] = "pending"]
                 /\ forwarded' = [forwarded EXCEPT ![c] = Append(@, nextOp)]
    /\ wire' = Tail(wire)
    /\ UNCHANGED <<due, timer, open, dead, replies, firing, wakes, pc, visit, frames, sent>>

RequestRefused ==
    /\ NextFrame("request")
    /\ \/ Head(wire).conv \notin open
       \/ ~CapsAdmit(Head(wire).conv)
    /\ wire' = Tail(wire)
    /\ UNCHANGED <<table, other, wakes, pc, visit, frames, sent>>

SocketDrained ==
    /\ pc = "read" /\ wire = <<>>
    /\ pc' = "expire"
    /\ UNCHANGED <<table, other, wakes, wire, visit, frames, sent>>

(* expire_due: every pending entry past its deadline becomes a tombstone   *)
(* and its timeout frame is written.                                       *)
ExpireFrees ==
    /\ pc = "expire"
    /\ entry' = [o \in Ops |-> IF o \in Pending \cap due THEN "none" ELSE entry[o]]
    /\ timer' = timer \ (Pending \cap due)
    /\ frames' = [o \in Ops |-> IF o \in Pending \cap due
                                THEN Append(frames[o], [kind |-> "timeout", of |-> o])
                                ELSE frames[o]]
    /\ pc' = "collect"
    /\ UNCHANGED <<conv, nextOp, due, other, wakes, wire, visit, sent>>

ExpireDue ==
    /\ pc = "expire"
    /\ entry' = [o \in Ops |-> IF o \in Pending \cap due THEN "tombstone" ELSE entry[o]]
    /\ timer' = timer \ (Pending \cap due)
    /\ frames' = [o \in Ops |-> IF o \in Pending \cap due
                                THEN Append(frames[o], [kind |-> "timeout", of |-> o])
                                ELSE frames[o]]
    /\ pc' = "collect"
    /\ UNCHANGED <<conv, nextOp, due, other, wakes, wire, visit, sent>>

(* service_pending_replies: every conversation that holds an entry, pending*)
(* or tombstoned, is drained until its queue is empty; each reply is       *)
(* matched by its exact operation id, and a tombstone swallows it.         *)
CollectConversations ==
    /\ pc = "collect"
    /\ visit' = ConversationsWithEntries
    /\ pc' = "match"
    /\ UNCHANGED <<table, other, wakes, wire, frames, sent>>

Oldest(c) == CHOOSE o \in Held(c) : \A p \in Held(c) : o <= p

MatchOldest(c) ==
    LET o == Oldest(c) IN
    /\ entry' = [entry EXCEPT ![o] = "none"]
    /\ timer' = timer \ {o}
    /\ frames' = IF entry[o] = "pending"
                 THEN [frames EXCEPT ![o] = Append(@, [kind |-> "reply", of |-> Head(replies[c])])]
                 ELSE frames

MatchReply(c) ==
    LET o == Head(replies[c]) IN
    IF entry[o] # "none" /\ conv[o] = c
    THEN /\ entry' = [entry EXCEPT ![o] = "none"]
         /\ timer' = timer \ {o}
         /\ frames' = IF entry[o] = "pending"
                      THEN [frames EXCEPT ![o] = Append(@, [kind |-> "reply", of |-> o])]
                      ELSE frames
    ELSE UNCHANGED <<entry, timer, frames>>

DrainReply(c) ==
    /\ pc = "match" /\ c \in visit
    /\ replies[c] # <<>>
    /\ MatchReply(c)
    /\ replies' = [replies EXCEPT ![c] = Tail(@)]
    /\ UNCHANGED <<conv, nextOp, due, open, dead, forwarded, firing, wakes, wire, pc, visit,
                   sent>>

ConversationDrained(c) ==
    /\ pc = "match" /\ c \in visit
    /\ replies[c] = <<>>
    /\ visit' = visit \ {c}
    /\ UNCHANGED <<table, other, wakes, wire, pc, frames, sent>>

AllDrained ==
    /\ pc = "match" /\ visit = {}
    /\ pc' = "sync"
    /\ UNCHANGED <<table, other, wakes, wire, visit, frames, sent>>

(* sync_deadline_timers: one timer for every pending entry without one.    *)
NoTimersToArm == {}
TimersToArm == {o \in Pending : o \notin timer}

SyncDeadlineTimers ==
    /\ pc = "sync"
    /\ timer' = timer \cup TimersToArm
    /\ pc' = "probe"
    /\ UNCHANGED <<entry, conv, nextOp, due, other, wakes, wire, visit, frames, sent>>

(* final_probe: run again over anything actionable, otherwise park.  A     *)
(* READY atom enqueued behind the probe reschedules the process.           *)
Actionable ==
    \/ wire # <<>> \/ readyPending \/ mail
    \/ Pending \cap due # {}
    \/ \E c \in ConversationsWithEntries : replies[c] # <<>>

FinalProbe ==
    /\ pc = "probe"
    /\ pc' = IF Actionable THEN "drain" ELSE "parked"
    /\ UNCHANGED <<table, other, wakes, wire, visit, frames, sent>>

ConnectionStep ==
    \/ Run \/ DrainMailbox \/ AcknowledgeReady
    \/ ConversationOpen \/ ConversationClose \/ Request \/ RequestRefused \/ SocketDrained
    \/ ExpireDue \/ CollectConversations
    \/ (\E c \in Convs : DrainReply(c) \/ ConversationDrained(c))
    \/ AllDrained \/ SyncDeadlineTimers \/ FinalProbe

Next ==
    \/ ConnectionStep
    \/ \E f \in Frame : FrameArrives(f)
    \/ \E o \in Ops : DeadlinePasses(o) \/ TimerFires(o)
    \/ \E c \in Convs : \/ ParticipantSilent(c) \/ ParticipantReplies(c)
                        \/ FireNotifier(c) \/ ParticipantDies(c)

Spec == Init /\ [][Next]_vars

(* The scheduler runs a process that has a message, a participant thread   *)
(* that queued a reply reaches its notifier, time passes and timers fire.  *)
FairSpec ==
    /\ Spec
    /\ WF_vars(ConnectionStep)
    /\ \A o \in Ops : WF_vars(DeadlinePasses(o)) /\ WF_vars(TimerFires(o))
    /\ \A c \in Convs : WF_vars(FireNotifier(c))

-----------------------------------------------------------------------------
(* Every reply-requested operation is answered at most once, by its own    *)
(* reply or by its timeout, whatever the participant skips, however late   *)
(* it replies, and whichever conversation id is closed and reopened.       *)
AnsweredOnceByItsOwn ==
    \A o \in Ops :
        /\ Len(frames[o]) <= 1
        /\ \A i \in 1..Len(frames[o]) : frames[o][i].of = o

(* No reply is an orphan: what a participant still owes or has queued      *)
(* belongs to an entry of its conversation, pending or tombstoned, so no   *)
(* younger operation can be answered with it.                              *)
NoOrphanReply ==
    \A c \in Convs :
        /\ \A i \in 1..Len(replies[c]) :
              entry[replies[c][i]] # "none" /\ conv[replies[c][i]] = c
        /\ \A i \in 1..Len(forwarded[c]) :
              entry[forwarded[c][i]] # "none" /\ conv[forwarded[c][i]] = c

(* Both caps hold: pending and tombstoned entries together per             *)
(* conversation, pending ones per connection.                              *)
CapsHold ==
    /\ \A c \in Convs : Cardinality(Held(c)) <= MaxPerConversation
    /\ Cardinality(Pending) <= MaxPerConnection

(* An admitted operation does not stay pending for ever: the connection    *)
(* wakes to write the reply or the timeout even when it has parked and     *)
(* nothing else happens.                                                   *)
PendingResolves == \A o \in Ops : (entry[o] = "pending") ~> (entry[o] # "pending")

(* A queued reply is drained, the late reply of a timed-out operation      *)
(* included, so that its tombstone is freed.                               *)
RepliesDrained == \A c \in Convs : (replies[c] # <<>>) ~> (replies[c] = <<>>)

\* Nothing waits for ever on the table: neither an operation nor a late reply.
TableDrains == PendingResolves /\ RepliesDrained
=============================================================================
