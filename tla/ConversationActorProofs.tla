---------------------- MODULE ConversationActorProofs ----------------------
(***************************************************************************)
(* The conversation actor, proved for any number of callers, incarnations, *)
(* faults and calls: a death is reported once, replies are handed over     *)
(* exactly and in order, no caller waits where finalization cannot see it, *)
(* and a finalized conversation leaves nothing behind.                     *)
(***************************************************************************)
EXTENDS ConversationActor, TLAPS

Booting == {"boot_push", "boot_wake", "boot_wait"}

(* A death is recorded at most once, and a registrant knows of it.         *)
CrashInv ==
    /\ notify.state = "none" => notify.signals = 0
    /\ notify.state # "none" => notify.signals = recorded
    /\ notify.state = "waiting" => recorded = 0
    /\ notify.state = "signalled" => recorded = 1

(* The restart gate is held by the caller that boots or finalizes, and a   *)
(* finalizing caller has marked the conversation.                          *)
LockInv ==
    /\ \A c \in Callers : call[c].pc \in Booting \cup Finalizing => lock = c
    /\ \A c \in Callers : call[c].pc \in Finalizing => finalized

(* Finalization drains the queue and nothing is admitted after it.          *)
DrainInv == finalized => commands = <<>>

(* A closed conversation is finalized, or its close is about to mark it.    *)
ClosedInv == phase = "closed" => finalized \/ slice.step = "close_mark"

(* Messages are numbered in the order of the sends: what was received      *)
(* precedes what is buffered, and that what is still to be answered.        *)
Increasing(s) == \A i, j \in DOMAIN s : i < j => s[i] < s[j]
Precedes(s, t) == \A i \in DOMAIN s, j \in DOMAIN t : s[i] < t[j]
Upto(s, n) == \A i \in DOMAIN s : s[i] <= n
OrderInv ==
    /\ Increasing(taken) /\ Increasing(inbox) /\ Increasing(requests)
    /\ Precedes(taken, inbox) /\ Precedes(taken, requests) /\ Precedes(inbox, requests)
    /\ Upto(taken, sent) /\ Upto(inbox, sent) /\ Upto(requests, sent)

(* Command ids are fresh, and two callers never wait with the same one.     *)
Waits(c) == call[c].pc \in Waiting
Issued(id, n) == id \in 1..(n - 1)
UniqueInv == \A i, j \in DOMAIN commands : commands[i].id = commands[j].id => i = j
IdInv ==
    /\ nextId > 0
    /\ \A m \in Elements(commands) : Issued(m.id, nextId)
    /\ \A w \in Elements(pending) : Issued(w.id, nextId)
    /\ slice.id # 0 => Issued(slice.id, nextId) /\ slice.step \in {"close_mark", "close_release"}
    /\ \A c \in Callers : Waits(c) => Issued(call[c].id, nextId)
    /\ \A c, d \in Callers : Waits(c) /\ Waits(d) /\ call[c].id = call[d].id => c = d

(* A command, a parked receive or a close with the id of a waiting caller   *)
(* is that caller's, and only a Boot is waited for while booting.           *)
OwnerInv ==
    \A c \in Callers : Waits(c) =>
        /\ \A m \in Elements(commands) : m.id = call[c].id =>
              m.caller = c /\ (m.kind = "boot" <=> call[c].pc \in Booting)
        /\ \A w \in Elements(pending) : w.id = call[c].id =>
              w.caller = c /\ call[c].pc \notin Booting
        /\ slice.id = call[c].id => slice.caller = c /\ call[c].pc \notin Booting

Visible(c) ==
    \/ \E m \in Elements(commands) : m.id = call[c].id
    \/ \E w \in Elements(pending) : w.id = call[c].id
    \/ slice.id = call[c].id
VisibleInv == \A c \in Callers : Waits(c) /\ reply[c] = "none" => Visible(c)

(* A reply is there only for a caller that waits for it, and a Boot that    *)
(* was answered Ok has booted the actor.                                   *)
ReplyInv ==
    /\ \A c \in Callers : reply[c] # "none" => Waits(c)
    /\ \A c \in Callers : reply[c] = "ok" /\ call[c].pc \in Booting => booted

(* An actor that is not booted has a caller that will roll it back, and the *)
(* slice of an earlier incarnation is over before the next one boots.       *)
BootInv ==
    /\ alive /\ ~booted => \E c \in Callers : call[c].pc \in Booting
    /\ slice.step # "idle" /\ slice.pid # pid => ~booted

(* What finalization owes: somebody is still to release, or all is          *)
(* released; and an actor that lives has somebody who will stop it.         *)
ReleaseSteps == {"close_release", "watcher_release"}
Releasing ==
    \/ \E c \in Callers : call[c].pc \in Finalizing
    \/ slice.step \in ReleaseSteps
Released ==
    /\ ~registered /\ ~part.live /\ ~part.registered
    /\ watcher[pid] \notin {"armed", "linked"} /\ pending = <<>>
Stopped ==
    alive => \/ \E c \in Callers : call[c].pc \in Booting \cup Finalizing
             \/ slice.step \in ReleaseSteps /\ slice.pid = pid
FinalInv == finalized => (Releasing \/ Released) /\ Stopped

HandoffInv ==
    /\ pending = <<>> \/ inbox = <<>>
    /\ phase # "failed" => Len(produced) = Len(inbox) + Len(taken) + Len(dropped)

(***************************************************************************)
(* TypeOK by groups of variables.                                          *)
(***************************************************************************)
Places == {"idle", "ensure", "push", "boot_push"} \cup Waiting \cup Finalizing
CallRecords == [pc : Places, kind : AllKinds, id : Nat, target : Nat]
SliceSteps == {"idle", "close_mark", "close_release", "watcher_fail", "watcher_mark",
               "watcher_release"}
Slices == [step : SliceSteps, caller : Callers \cup {Nobody}, id : Nat, pid : Nat]
CommandRecords == [id : Nat, kind : AllKinds \cup {"boot"}, caller : Callers]
WatcherStates == {"none", "armed", "linked", "exit", "gone"}
Parts == [live : BOOLEAN, woken : BOOLEAN, registered : BOOLEAN]
Waiters == [caller : Callers, id : Nat]
Mail == {Wake, "participant_error", "participant_normal", "watcher"}

TypePhase ==
    /\ phase \in {"created", "active", "closed", "failed"}
    /\ finalized \in BOOLEAN /\ token \in BOOLEAN
TypeActor ==
    /\ alive \in BOOLEAN /\ linked \in BOOLEAN /\ booted \in BOOLEAN /\ registered \in BOOLEAN
    /\ pid \in 1..MaxSpawns
TypeMailbox == mailbox \in Seq(Mail)
TypeSlice == slice \in Slices
TypeWatcher == watcher \in [1..MaxSpawns -> WatcherStates]
TypeCommands == commands \in Seq(CommandRecords) /\ nextId \in Nat
TypeLock == lock \in Callers \cup {Nobody}
TypeReplies ==
    /\ inbox \in Seq(Nat) /\ requests \in Seq(Nat) /\ sent \in Nat
    /\ produced \in Seq(Nat) /\ taken \in Seq(Nat) /\ dropped \in Seq(Nat)
TypePending == pending \in Seq(Waiters)
TypePart == part \in Parts
TypeNotify ==
    /\ recorded \in 0..1
    /\ notify \in [state : {"none", "waiting", "signalled"}, signals : Nat]
TypeCall == call \in [Callers -> CallRecords]
TypeReply == reply \in [Callers -> {"none", "ok", "err"}]
TypeBounds == faults \in 0..MaxFaults /\ ops \in 0..MaxOps

Types ==
    /\ TypePhase /\ TypeActor /\ TypeMailbox /\ TypeSlice /\ TypeWatcher /\ TypeCommands
    /\ TypeLock /\ TypeReplies /\ TypePending /\ TypePart /\ TypeNotify /\ TypeCall
    /\ TypeReply /\ TypeBounds

LEMMA TypesAreTypeOK == TypeOK <=> Types
BY ZenonT(60) DEF TypeOK, Types, TypePhase, TypeActor, TypeMailbox, TypeSlice, TypeWatcher,
       TypeCommands, TypeLock, TypeReplies, TypePending, TypePart, TypeNotify, TypeCall, TypeReply,
       TypeBounds, Places, CallRecords, SliceSteps, Slices, CommandRecords, WatcherStates, Parts,
       Waiters, Mail

(***************************************************************************)
(* What each step of a host thread does to the calls.                      *)
(***************************************************************************)
Moved(c, p, i) ==
    /\ call'[c].pc = p /\ call'[c].id = i
    /\ \A d \in Callers : d # c => call'[d] = call[d]

LEMMA RecordMoves ==
    ASSUME NEW r \in CallRecords, NEW p \in Places, NEW i \in Nat, NEW t \in Nat
    PROVE  /\ [r EXCEPT !.pc = p] \in CallRecords
           /\ [r EXCEPT !.pc = p].pc = p /\ [r EXCEPT !.pc = p].id = r.id
           /\ [r EXCEPT !.pc = p, !.target = t] \in CallRecords
           /\ [r EXCEPT !.pc = p, !.target = t].pc = p
           /\ [r EXCEPT !.id = i, !.pc = p] \in CallRecords
           /\ [r EXCEPT !.id = i, !.pc = p].pc = p /\ [r EXCEPT !.id = i, !.pc = p].id = i
BY ZenonT(60) DEF CallRecords

LEMMA GotoMoves ==
    ASSUME TypeCall, NEW c \in Callers, NEW p \in Places, Goto(c, p)
    PROVE  TypeCall' /\ Moved(c, p, call[c].id)
<1>1. call[c] \in CallRecords
  BY ZenonT(60) DEF TypeCall
<1>2. PICK r \in CallRecords : r = [call[c] EXCEPT !.pc = p]
  BY ZenonT(60), <1>1, RecordMoves, 0 \in Nat
<1>3. r.pc = p /\ r.id = call[c].id
  BY ZenonT(60), <1>1, <1>2 DEF CallRecords
<1>4. call' = [call EXCEPT ![c] = r]
  BY ZenonT(60), <1>2 DEF Goto
<1> QED
  BY ZenonT(60), <1>3, <1>4 DEF TypeCall, Moved

LEMMA ReturnMoves ==
    ASSUME TypeCall, TypeReply, NEW c \in Callers, Return(c)
    PROVE  /\ TypeCall' /\ TypeReply' /\ Moved(c, "idle", 0)
           /\ reply'[c] = "none" /\ \A d \in Callers : d # c => reply'[d] = reply[d]
<1>1. Idle \in CallRecords /\ Idle.pc = "idle" /\ Idle.id = 0
  BY ZenonT(60) DEF Idle, CallRecords, Places, AllKinds
<1> QED
  BY ZenonT(60), <1>1 DEF Return, TypeCall, TypeReply, Moved

LEMMA AnswersFacts ==
    ASSUME TypeReply, NEW r \in {"ok", "err"}, NEW who, Answers(r, who)
    PROVE  /\ TypeReply'
           /\ \A c \in Callers : \A w \in who :
                 w.caller = c /\ Listening(c, w.id) => reply'[c] = r
           /\ \A c \in Callers : \/ reply'[c] = reply[c]
                                 \/ /\ reply'[c] = r
                                    /\ \E w \in who : w.caller = c /\ Listening(c, w.id)
<1>1. \A c \in Callers : reply'[c] = IF \E w \in who : w.caller = c /\ Listening(c, w.id)
                                      THEN r ELSE reply[c]
  BY ZenonT(60) DEF Answers
<1>2. TypeReply'
  <2>1. reply' = [c \in Callers |-> IF \E w \in who : w.caller = c /\ Listening(c, w.id)
                                   THEN r ELSE reply[c]]
    BY ZenonT(60) DEF Answers
  <2>2. \A c \in Callers : (IF \E w \in who : w.caller = c /\ Listening(c, w.id)
                           THEN r ELSE reply[c]) \in {"none", "ok", "err"}
    BY ZenonT(60) DEF TypeReply
  <2> QED
    BY ZenonT(60), <2>1, <2>2 DEF TypeReply
<1> QED
  BY ZenonT(60), <1>1, <1>2

LEMMA PartFacts ==
    ASSUME TypePart
    PROVE  /\ [live |-> FALSE, woken |-> FALSE, registered |-> FALSE] \in Parts
           /\ [part EXCEPT !.live = FALSE, !.woken = FALSE] \in Parts
           /\ [part EXCEPT !.woken = TRUE] \in Parts
           /\ [part EXCEPT !.woken = FALSE] \in Parts
           /\ [part EXCEPT !.registered = FALSE] \in Parts
BY ZenonT(60) DEF TypePart, Parts

(* A sequence loses its head, gains an element, or loses one in the middle. *)
LEMMA ElementsFacts ==
    ASSUME NEW S, NEW q \in Seq(S)
    PROVE  /\ Elements(q) \subseteq S
           /\ Elements(<<>>) = {}
           /\ \A x \in S : /\ Append(q, x) \in Seq(S)
                           /\ Elements(Append(q, x)) = Elements(q) \cup {x}
           /\ q # <<>> => /\ Head(q) \in Elements(q) /\ Head(q) \in S /\ Tail(q) \in Seq(S)
                          /\ Elements(q) = {Head(q)} \cup Elements(Tail(q))
<1>1. Elements(q) \subseteq S /\ Elements(<<>>) = {}
  BY SMTT(60) DEF Elements
<1>2. ASSUME NEW x \in S
      PROVE  Append(q, x) \in Seq(S) /\ Elements(Append(q, x)) = Elements(q) \cup {x}
  <2>1. /\ Append(q, x) \in Seq(S) /\ DOMAIN Append(q, x) = 1..(Len(q) + 1)
        /\ \A i \in 1..Len(q) : Append(q, x)[i] = q[i]
        /\ Append(q, x)[Len(q) + 1] = x /\ DOMAIN q = 1..Len(q) /\ Len(q) \in Nat
    BY SMTT(60)
  <2>2. 1..(Len(q) + 1) = (1..Len(q)) \cup {Len(q) + 1}
    BY SMTT(60), <2>1
  <2> QED
    BY SMTT(60), <2>1, <2>2 DEF Elements
<1>3. ASSUME q # <<>>
      PROVE  /\ Head(q) \in Elements(q) /\ Head(q) \in S /\ Tail(q) \in Seq(S)
             /\ Elements(q) = {Head(q)} \cup Elements(Tail(q))
  <2>1. /\ Len(q) \in Nat /\ Len(q) >= 1 /\ DOMAIN q = 1..Len(q) /\ Head(q) = q[1]
        /\ DOMAIN Tail(q) = 1..(Len(q) - 1) /\ Tail(q) \in Seq(S)
        /\ \A i \in 1..(Len(q) - 1) : Tail(q)[i] = q[i + 1]
    BY SMTT(60), <1>3
  <2>2. Head(q) \in Elements(q) /\ Head(q) \in S
    BY SMTT(60), <2>1 DEF Elements
  <2>3. ASSUME NEW x \in Elements(q) PROVE x \in {Head(q)} \cup Elements(Tail(q))
    <3>1. PICK i \in DOMAIN q : x = q[i]
      BY ZenonT(60), <2>3 DEF Elements
    <3>2. i = 1 \/ (i - 1 \in 1..(Len(q) - 1) /\ Tail(q)[i - 1] = x)
      BY SMTT(60), <2>1, <3>1
    <3> QED
      BY ZenonT(60), <2>1, <3>1, <3>2 DEF Elements
  <2>4. ASSUME NEW x \in Elements(Tail(q)) PROVE x \in Elements(q)
    <3>1. PICK i \in DOMAIN Tail(q) : x = Tail(q)[i]
      BY ZenonT(60), <2>4 DEF Elements
    <3>2. i + 1 \in DOMAIN q /\ q[i + 1] = x
      BY SMTT(60), <2>1, <3>1
    <3> QED
      BY ZenonT(60), <3>2 DEF Elements
  <2> QED
    BY ZenonT(60), <2>1, <2>2, <2>3, <2>4
<1> QED
  BY ZenonT(60), <1>1, <1>2, <1>3

LEMMA WithoutFacts ==
    ASSUME TypeCommands, NEW id \in Nat
    PROVE  /\ Without(id) \in Seq(CommandRecords)
           /\ Elements(Without(id)) \subseteq Elements(commands)
           /\ \A m \in Elements(commands) : m.id # id => m \in Elements(Without(id))
           /\ commands = <<>> => Without(id) = <<>>
           /\ \/ Without(id) = commands
              \/ \E k \in DOMAIN commands :
                    /\ DOMAIN Without(id) = 1..(Len(commands) - 1)
                    /\ \A i \in DOMAIN Without(id) :
                          Without(id)[i] = commands[IF i < k THEN i ELSE i + 1]
<1>1. commands \in Seq(CommandRecords)
  BY ZenonT(60) DEF TypeCommands
<1>2. CASE \A i \in DOMAIN commands : commands[i].id # id
  <2>1. Without(id) = commands
    BY ZenonT(60), <1>2 DEF Without
  <2> QED
    BY ZenonT(60), <1>1, <2>1
<1>3. CASE ~(\A i \in DOMAIN commands : commands[i].id # id)
  <2>1. PICK k : k = Position(id)
    BY ZenonT(60)
  <2>2. k \in DOMAIN commands /\ commands[k].id = id
    BY ZenonT(60), <1>3, <2>1 DEF Position
  <2>3. PICK w : w = Without(id)
    BY ZenonT(60)
  <2>4. w = [i \in 1..(Len(commands) - 1) |-> IF i < k THEN commands[i] ELSE commands[i + 1]]
    BY ZenonT(60), <1>3, <2>1, <2>3 DEF Without
  <2>5. /\ Len(commands) \in Nat /\ Len(commands) >= 1 /\ k \in 1..Len(commands)
        /\ DOMAIN commands = 1..Len(commands) /\ commands # <<>>
    BY SMTT(60), <1>1, <2>2
  <2>6. \A i \in 1..(Len(commands) - 1) :
           w[i] \in CommandRecords /\ w[i] = commands[IF i < k THEN i ELSE i + 1]
    BY SMTT(60), <1>1, <2>4, <2>5
  <2>7. w \in Seq(CommandRecords) /\ DOMAIN w = 1..(Len(commands) - 1)
    BY SMTT(60), <2>4, <2>5, <2>6
  <2>8. ASSUME NEW m \in Elements(w) PROVE m \in Elements(commands)
    <3>1. PICK i \in DOMAIN w : m = w[i]
      BY ZenonT(60), <2>8 DEF Elements
    <3>2. \E j \in DOMAIN commands : m = commands[j]
      BY SMTT(60), <2>5, <2>6, <2>7, <3>1
    <3> QED
      BY ZenonT(60), <3>2 DEF Elements
  <2>9. ASSUME NEW m \in Elements(commands), m.id # id PROVE m \in Elements(w)
    <3>1. PICK i \in DOMAIN commands : m = commands[i]
      BY ZenonT(60), <2>9 DEF Elements
    <3>2. i # k
      BY ZenonT(60), <2>2, <2>9, <3>1
    <3>3. CASE i < k
      <4>1. i \in DOMAIN w /\ w[i] = commands[i]
        BY SMTT(60), <2>5, <2>6, <2>7, <3>1, <3>3
      <4> QED
        BY ZenonT(60), <3>1, <4>1 DEF Elements
    <3>4. CASE i > k
      <4>1. i - 1 \in DOMAIN w /\ w[i - 1] = commands[i]
        BY SMTT(60), <2>5, <2>6, <2>7, <3>1, <3>4
      <4> QED
        BY ZenonT(60), <3>1, <4>1 DEF Elements
    <3> QED
      BY SMTT(60), <2>5, <3>1, <3>2, <3>3, <3>4
  <2> QED
    BY ZenonT(60), <2>2, <2>3, <2>5, <2>6, <2>7, <2>8, <2>9
<1> QED
  BY ZenonT(60), <1>2, <1>3

(***************************************************************************)
(* The types are preserved.                                                *)
(***************************************************************************)
LEMMA TypeFrame ==
    ASSUME Types
    PROVE  /\ UNCHANGED <<phase, finalized, token>> => TypePhase'
           /\ UNCHANGED <<alive, linked, booted, registered, pid>> => TypeActor'
           /\ UNCHANGED mailbox => TypeMailbox'
           /\ UNCHANGED slice => TypeSlice'
           /\ UNCHANGED watcher => TypeWatcher'
           /\ UNCHANGED <<commands, nextId>> => TypeCommands'
           /\ UNCHANGED lock => TypeLock'
           /\ UNCHANGED <<inbox, requests, sent, produced, taken, dropped>> => TypeReplies'
           /\ UNCHANGED pending => TypePending'
           /\ UNCHANGED part => TypePart'
           /\ UNCHANGED <<recorded, notify>> => TypeNotify'
           /\ UNCHANGED call => TypeCall'
           /\ UNCHANGED reply => TypeReply'
           /\ UNCHANGED <<faults, ops>> => TypeBounds'
BY ZenonT(60) DEF Types, TypePhase, TypeActor, TypeMailbox, TypeSlice, TypeWatcher, TypeCommands, TypeLock,
       TypeReplies, TypePending, TypePart, TypeNotify, TypeCall, TypeReply, TypeBounds

LEMMA Bounds == MaxSpawns \in Nat /\ MaxSpawns > 0 /\ MaxFaults \in Nat /\ MaxOps \in Nat
BY ZenonT(60), BoundsAssumption

LEMMA EndWatcherType ==
    ASSUME TypeActor, TypeWatcher, EndWatcher
    PROVE  TypeWatcher' /\ watcher'[pid] = "gone"
BY ZenonT(60) DEF TypeActor, TypeWatcher, EndWatcher, WatcherStates

LEMMA TypesRollback ==
    ASSUME Types, NEW c \in Callers, Rollback(c), TypeCommands'
    PROVE  Types'
<1>1. TypeCall' /\ TypeReply'
  BY ZenonT(60), ReturnMoves DEF Rollback, Types
<1>2. TypeWatcher'
  BY ZenonT(60), EndWatcherType DEF Rollback, Types
<1>3. TypeActor'
  BY ZenonT(60) DEF Rollback, Types, TypeActor
<1>4. TypeMailbox' /\ TypeLock'
  BY SMTT(60) DEF Rollback, Types, TypeMailbox, TypeLock
<1> QED
  BY ZenonT(60), <1>1, <1>2, <1>3, <1>4, TypeFrame DEF Rollback, queues, history, Types

LEMMA TypesHost ==
    ASSUME Types, NEW c \in Callers, HostStep(c) \/ \E kind \in Kinds : Begin(c, kind)
    PROVE  Types'
<1> USE DEF Types
<1>0. call[c] \in CallRecords /\ pid \in Nat /\ nextId \in Nat
  BY SMTT(60), BoundsAssumption DEF TypeCall, TypeActor, TypeCommands
<1>1. ASSUME NEW kind \in Kinds, Begin(c, kind) PROVE Types'
  <2>1. [Idle EXCEPT !.pc = "ensure", !.kind = kind] \in CallRecords
    BY ZenonT(60), KindsAssumption DEF Idle, CallRecords, Places
  <2>2. TypeCall'
    BY ZenonT(60), <1>1, <2>1 DEF Begin, TypeCall
  <2>3. TypeBounds'
    <3>1. ops < MaxOps /\ ops' = ops + 1 /\ faults' = faults
      BY ZenonT(60), <1>1 DEF Begin
    <3> QED
      BY SMTT(60), <3>1, Bounds DEF TypeBounds
  <2> QED
    BY ZenonT(60), <1>1, <2>2, <2>3, TypeFrame DEF Begin, actor, people, queues, history
<1>2. CASE EnsureRefused(c)
  BY ZenonT(60), <1>2, ReturnMoves, TypeFrame DEF EnsureRefused, actor, people, queues, history
<1>3. CASE EnsureLive(c)
  <2>1. [call[c] EXCEPT !.pc = "push", !.target = pid] \in CallRecords
    BY ZenonT(60), <1>0, RecordMoves, 0 \in Nat DEF Places
  <2>2. TypeCall'
    BY ZenonT(60), <1>3, <2>1 DEF EnsureLive, TypeCall
  <2> QED
    BY ZenonT(60), <1>3, <2>2, TypeFrame DEF EnsureLive, actor, people, queues, history
<1>4. CASE EnsureSpawn(c)
  <2>1. [call[c] EXCEPT !.pc = "boot_push", !.target = pid + 1] \in CallRecords
    <3>1. pid + 1 \in Nat
      BY SMTT(60), <1>0
    <3> QED
      BY ZenonT(60), <1>0, <3>1, RecordMoves, 0 \in Nat DEF Places
  <2>2. TypeCall'
    BY ZenonT(60), <1>4, <2>1 DEF EnsureSpawn, SpawnActor, TypeCall
  <2>3. TypeActor'
    <3>1. pid + 1 \in 1..MaxSpawns
      BY SMTT(60), <1>0, <1>4, Bounds DEF EnsureSpawn
    <3> QED
      BY ZenonT(60), <1>4, <3>1 DEF EnsureSpawn, SpawnActor, TypeActor
  <2>4. TypeWatcher'
    BY ZenonT(60), <1>4, BoundsAssumption DEF EnsureSpawn, SpawnActor, TypeActor, TypeWatcher, WatcherStates
  <2>5. TypeMailbox' /\ TypeLock' /\ TypeSlice'
    BY SMTT(60), <1>4 DEF EnsureSpawn, SpawnActor, TypeMailbox, TypeLock, TypeSlice
  <2> QED
    BY ZenonT(60), <1>4, <2>2, <2>3, <2>4, <2>5, TypeFrame DEF EnsureSpawn, queues, history
<1>5. CASE Push(c)
  <2> DEFINE k == IF call[c].pc = "push" THEN call[c].kind ELSE "boot"
             m == [id |-> nextId, caller |-> c, kind |-> k]
             p == IF call[c].pc = "push" THEN "wake" ELSE "boot_wake"
  <2>1. m \in CommandRecords
    BY ZenonT(60), <1>0 DEF CommandRecords, CallRecords
  <2>2. TypeCommands'
    <3>1. commands' = Append(commands, m) /\ nextId' = nextId + 1
      BY ZenonT(60), <1>5 DEF Push
    <3> HIDE DEF m
    <3> QED
      BY SMTT(60), <1>0, <2>1, <3>1, ElementsFacts DEF TypeCommands
  <2>3. [call[c] EXCEPT !.id = nextId, !.pc = p] \in CallRecords
    BY ZenonT(60), <1>0, RecordMoves, 0 \in Nat DEF Places, Waiting
  <2>4. TypeCall'
    BY ZenonT(60), <1>5, <2>3 DEF Push, TypeCall
  <2> QED
    BY ZenonT(60), <1>5, <2>2, <2>4, TypeFrame DEF Push, actor, people, queues, history
<1>6. CASE PushRefused(c)
  <2>1. TypeCommands'
    BY ZenonT(60), <1>6 DEF PushRefused, Rollback, actor, people, queues, history, TypeCommands
  <2>2. CASE call[c].pc = "boot_push"
    BY ZenonT(60), <1>6, <2>1, <2>2, TypesRollback DEF PushRefused
  <2>3. CASE call[c].pc # "boot_push"
    BY ZenonT(60), <1>6, <2>1, <2>3, ReturnMoves, TypeFrame DEF PushRefused, actor, people, queues, history
  <2> QED
    BY ZenonT(60), <2>2, <2>3
<1>7. CASE WakeActor(c)
  <2>1. TypeCall'
    BY ZenonT(60), <1>7, GotoMoves DEF WakeActor, Places, Waiting
  <2>2. TypeMailbox'
    BY SMTT(60), <1>7 DEF WakeActor, TypeMailbox, Mail
  <2> QED
    BY ZenonT(60), <1>7, <2>1, <2>2, TypeFrame DEF WakeActor, people, queues, history, TypeActor
<1>8. ASSUME commands' = Without(call[c].id), nextId' = nextId PROVE TypeCommands'
  BY ZenonT(60), <1>0, <1>8, WithoutFacts DEF TypeCommands, CallRecords
<1>9. CASE WakeFails(c)
  BY ZenonT(60), <1>8, <1>9, ReturnMoves, TypeFrame DEF WakeFails, actor, people, queues, history
<1>10. CASE BootWakeFails(c)
  BY ZenonT(60), <1>8, <1>10, TypesRollback DEF BootWakeFails, Rollback
<1>11. CASE BootOk(c)
  <2>1. TypeCommands'
    BY ZenonT(60), <1>11 DEF BootOk, Rollback, TypeCommands
  <2>2. CASE finalized
    BY ZenonT(60), <1>11, <2>1, <2>2, TypesRollback DEF BootOk
  <2>3. CASE ~finalized
    <3>1. TypeCall'
      BY ZenonT(60), <1>11, <2>3, GotoMoves DEF BootOk, Places
    <3>2. TypeReply' /\ TypeLock'
      BY ZenonT(60), <1>11, <2>3 DEF BootOk, TypeReply, TypeLock
    <3> QED
      BY ZenonT(60), <1>11, <2>1, <2>3, <3>1, <3>2, TypeFrame DEF BootOk, actor, people, queues, history
  <2> QED
    BY ZenonT(60), <2>2, <2>3
<1>12. CASE BootFails(c)
  BY ZenonT(60), <1>8, <1>12, TypesRollback DEF BootFails, Rollback
<1>13. CASE TakeReply(c)
  BY ZenonT(60), <1>13, ReturnMoves, TypeFrame DEF TakeReply, actor, people, queues, history
<1>14. CASE ReceiveTimesOut(c)
  BY ZenonT(60), <1>14, ReturnMoves, TypeFrame DEF ReceiveTimesOut, actor, people, queues, history
<1>15. CASE FinalizeMark(c)
  <2>1. TypeCall'
    BY ZenonT(60), <1>15, GotoMoves DEF FinalizeMark, Places, Finalizing
  <2>2. TypeReply'
    BY ZenonT(60), <1>15, AnswersFacts DEF FinalizeMark, MarkFinalized
  <2>3. TypeCommands' /\ TypeLock' /\ TypePhase'
    BY SMTT(60), <1>15 DEF FinalizeMark, MarkFinalized, people, TypeCommands, TypeLock, TypePhase
  <2> QED
    BY ZenonT(60), <1>15, <2>1, <2>2, <2>3, TypeFrame DEF FinalizeMark, actor, people, history
<1>16. CASE FinalizeAgain(c)
  BY ZenonT(60), <1>16, ReturnMoves, TypeFrame DEF FinalizeAgain, actor, people, queues, history
<1>17. CASE FinalizePhase(c)
  <2>1. TypeCall'
    BY ZenonT(60), <1>17, GotoMoves DEF FinalizePhase, Places, Finalizing
  <2>2. TypePhase'
    BY ZenonT(60), <1>17 DEF FinalizePhase, people, TypePhase
  <2> QED
    BY ZenonT(60), <1>17, <2>1, <2>2, TypeFrame DEF FinalizePhase, actor, people, queues, history
<1>18. CASE FinalizeRelease(c)
  <2>1. Idle \in CallRecords
    BY ZenonT(60) DEF Idle, CallRecords, Places, AllKinds
  <2>2. TypeCall'
    BY ZenonT(60), <1>18, <2>1 DEF FinalizeRelease, TypeCall
  <2>3. TypeReply'
    BY ZenonT(60), <1>18, AnswersFacts DEF FinalizeRelease
  <2>4. TypeWatcher' /\ TypePart'
    BY ZenonT(60), <1>18, EndWatcherType, PartFacts DEF FinalizeRelease, EndParticipant, TypePart
  <2>5. TypeActor' /\ TypePhase'
    BY ZenonT(60), <1>18 DEF FinalizeRelease, TypeActor, TypePhase
  <2>6. TypeMailbox' /\ TypeLock' /\ TypePending'
    BY SMTT(60), <1>18 DEF FinalizeRelease, TypeMailbox, TypeLock, TypePending
  <2> QED
    BY ZenonT(60), <1>18, <2>2, <2>3, <2>4, <2>5, <2>6, TypeFrame DEF FinalizeRelease, history
<1> QED
  BY ZenonT(60), <1>1, <1>2, <1>3, <1>4, <1>5, <1>6, <1>7, <1>9, <1>10, <1>11, <1>12, <1>13, <1>14, <1>15,
     <1>16, <1>17, <1>18 DEF HostStep

(* record_participant_exit, on each of the variables it changes.            *)
LEMMA RecordExitFacts ==
    ASSUME Types, NEW reason, NEW boot, NEW answer \in {"ok", "err"}, RecordExit(reason, boot, answer)
    PROVE  /\ UNCHANGED finalized => TypePhase'
           /\ TypeNotify' /\ TypePending' /\ TypeReply'
           /\ phase' = phase \/ (phase' = "failed" /\ phase # "closed" /\ pending' = <<>>)
           /\ pending' = pending \/ pending' = <<>>
           /\ \/ recorded' = recorded /\ notify' = notify
              \/ recorded = 0 /\ recorded' = 1 /\ notify' = Signal
           /\ \A c \in Callers :
                 \/ reply'[c] = reply[c]
                 \/ /\ reply'[c] = "err"
                    /\ \E w \in Elements(pending) : w.caller = c /\ Listening(c, w.id)
                 \/ /\ reply'[c] = answer
                    /\ \E m \in boot : m.caller = c /\ Listening(c, m.id)
           /\ \A c \in Callers, m \in boot :
                 m.caller = c /\ Listening(c, m.id) => reply'[c] # "none"
           /\ pending' # pending => \A c \in Callers : \A w \in Elements(pending) :
                 w.caller = c /\ Listening(c, w.id) => reply'[c] # "none"
<1> USE DEF Types
<1> DEFINE new == ~(token /\ reason = "normal") /\ recorded = 0
           fails == new /\ FailOnCrash /\ ~finalized /\ phase # "closed"
           Parked(c) == \E w \in Elements(pending) : fails /\ w.caller = c /\ Listening(c, w.id)
           Boots(c) == \E m \in boot : m.caller = c /\ Listening(c, m.id)
<1>1. /\ token' = FALSE /\ recorded' = IF new THEN recorded + 1 ELSE recorded
      /\ notify' = IF new THEN Signal ELSE notify
      /\ phase' = IF fails THEN "failed" ELSE phase
      /\ pending' = IF fails THEN <<>> ELSE pending
      /\ reply' = [c \in Callers |-> IF Parked(c) THEN "err"
                                     ELSE IF Boots(c) THEN answer ELSE reply[c]]
  BY ZenonT(60) DEF RecordExit
<1>2. \A c \in Callers : reply'[c] = IF Parked(c) THEN "err"
                                     ELSE IF Boots(c) THEN answer ELSE reply[c]
  BY ZenonT(60), <1>1
<1>3. TypeReply'
  <2>1. \A c \in Callers : (IF Parked(c) THEN "err" ELSE IF Boots(c) THEN answer ELSE reply[c])
                              \in {"none", "ok", "err"}
    BY ZenonT(60) DEF TypeReply
  <2> HIDE DEF Parked, Boots
  <2> QED
    BY ZenonT(60), <1>1, <2>1 DEF TypeReply
<1>4. TypePending'
  BY SMTT(60), <1>1 DEF TypePending
<1>5. \/ recorded' = recorded /\ notify' = notify
      \/ recorded = 0 /\ recorded' = 1 /\ notify' = Signal
  BY SMTT(60), <1>1
<1>6. Signal \in [state : {"none", "waiting", "signalled"}, signals : Nat]
  BY SMTT(60) DEF Signal, TypeNotify
<1>7. TypeNotify'
  BY SMTT(60), <1>5, <1>6 DEF TypeNotify
<1>8. UNCHANGED finalized => TypePhase'
  BY ZenonT(60), <1>1 DEF TypePhase
<1>9. /\ phase' = phase \/ (phase' = "failed" /\ phase # "closed" /\ pending' = <<>>)
      /\ pending' = pending \/ pending' = <<>>
  BY ZenonT(60), <1>1
<1>10. pending' # pending => fails
  BY ZenonT(60), <1>1
<1>11. \A c \in Callers : reply'[c] # "none" \/ ~(Parked(c) \/ Boots(c))
  BY ZenonT(60), <1>2
<1> QED
  BY ZenonT(60), <1>2, <1>3, <1>4, <1>5, <1>7, <1>8, <1>9, <1>10, <1>11

(* StopSelf: a slice stops its own incarnation only.                        *)
LEMMA StopSelfFacts ==
    ASSUME Types, StopSelf
    PROVE  /\ TypeMailbox' /\ alive' \in BOOLEAN /\ linked' \in BOOLEAN
           /\ slice.pid = pid => ~alive'
           /\ alive' => alive
<1>1. CASE slice.pid = pid
  <2>1. alive' = FALSE /\ mailbox' = <<>> /\ linked' = FALSE
    BY ZenonT(60), <1>1 DEF StopSelf
  <2>2. TypeMailbox'
    BY SMTT(60), <2>1 DEF TypeMailbox
  <2> QED
    BY ZenonT(60), <2>1, <2>2
<1>2. CASE slice.pid # pid
  <2>1. alive' = alive /\ mailbox' = mailbox /\ linked' = linked
    BY ZenonT(60), <1>2 DEF StopSelf
  <2>2. TypeMailbox'
    BY ZenonT(60), <2>1 DEF Types, TypeMailbox
  <2> QED
    BY ZenonT(60), <1>2, <2>1, <2>2 DEF Types, TypeActor
<1> QED
  BY ZenonT(60), <1>1, <1>2

LEMMA NumbersAppend ==
    ASSUME NEW q \in Seq(Nat), NEW x \in Nat
    PROVE  Append(q, x) \in Seq(Nat)
BY SMTT(60)

LEMMA SliceMoves ==
    ASSUME TypeSlice, NEW s \in SliceSteps
    PROVE  /\ [slice EXCEPT !.step = s] \in Slices
           /\ [slice EXCEPT !.step = s].step = s
           /\ [slice EXCEPT !.step = s].caller = slice.caller
           /\ [slice EXCEPT !.step = s].id = slice.id
           /\ [slice EXCEPT !.step = s].pid = slice.pid
           /\ NoSlice \in Slices /\ NoSlice.step = "idle" /\ NoSlice.id = 0
BY ZenonT(60) DEF TypeSlice, Slices, NoSlice, SliceSteps

(* The step of a popped command, whichever it is.                           *)
Executes(m) ==
    /\ alive /\ slice = NoSlice /\ commands # <<>> /\ m = Head(commands)
    /\ mailbox # <<>> /\ mailbox' = Tail(mailbox) /\ commands' = Tail(commands)
    /\ UNCHANGED <<pid, nextId, lock, call, faults, ops>>
    /\ BootSlice(m) \/ SendSlice(m) \/ ReceiveSlice(m) \/ QuerySlice(m) \/ CloseSlice(m)

(* A wake that finds the queue empty.                                       *)
IdleWake ==
    /\ mailbox # <<>> /\ mailbox' = Tail(mailbox)
    /\ UNCHANGED <<phase, finalized, pid, alive, slice, linked, booted, registered, part,
                   requests, recorded, notify, token, watcher, inbox, pending, sent, produced,
                   taken, dropped, reply, commands, nextId, lock, call, faults, ops>>

LEMMA ProcessCases ==
    ASSUME Types, ProcessNextCommand
    PROVE  IdleWake \/ \E m \in CommandRecords : Executes(m)
<1>1. CASE commands = <<>>
  BY ZenonT(60), <1>1 DEF ProcessNextCommand, IdleWake, people, queues, history
<1>2. CASE commands # <<>>
  <2>1. Head(commands) \in CommandRecords
    BY ZenonT(60), <1>2, ElementsFacts DEF Types, TypeCommands
  <2>2. Executes(Head(commands))
    BY ZenonT(60), <1>2 DEF ProcessNextCommand, Executes
  <2> QED
    BY ZenonT(60), <2>1, <2>2
<1> QED
  BY ZenonT(60), <1>1, <1>2

LEMMA TypesExecutes ==
    ASSUME Types, NEW m \in CommandRecords, Executes(m)
    PROVE  Types'
<1> USE DEF Types
<1>1. TypeMailbox' /\ TypeCommands'
  <2>1. commands \in Seq(CommandRecords) /\ commands # <<>> /\ mailbox \in Seq(Mail)
    BY ZenonT(60) DEF Executes, TypeCommands, TypeMailbox
  <2>2. Tail(commands) \in Seq(CommandRecords)
    BY ZenonT(60), <2>1, ElementsFacts
  <2>3. Tail(mailbox) \in Seq(Mail)
    BY ZenonT(60), <2>1, ElementsFacts DEF Executes
  <2> QED
    BY ZenonT(60), <2>2, <2>3 DEF Executes, TypeCommands, TypeMailbox
<1>2. TypeLock' /\ TypeCall' /\ TypeBounds'
  BY ZenonT(60), TypeFrame DEF Executes
<1>3. CASE BootSlice(m)
  <2>1. TypeWatcher'
    BY ZenonT(60), <1>3 DEF BootSlice, LinkParticipant, TypeWatcher, TypeActor, WatcherStates
  <2>2. TypeActor'
    BY ZenonT(60), <1>3 DEF BootSlice, LinkParticipant, Executes, TypeActor
  <2>3. TypePhase' /\ TypeNotify' /\ TypePending' /\ TypeReply' /\ TypePart'
    <3>1. CASE ~part.live
      <4>1. /\ RecordExit("unknown", {m}, "ok") \/ RecordExit("unknown", {m}, "err")
            /\ part' = [part EXCEPT !.registered = FALSE]
            /\ UNCHANGED finalized
        BY ZenonT(60), <1>3, <3>1 DEF BootSlice, LinkParticipant
      <4> QED
        BY ZenonT(60), <4>1, RecordExitFacts, PartFacts DEF TypePart
    <3>2. CASE part.live
      <4>1. /\ UNCHANGED <<phase, recorded, notify, token, pending, part, finalized>>
            /\ Answers("ok", {m}) \/ Answers("err", {m})
        BY ZenonT(60), <1>3, <3>2 DEF BootSlice, LinkParticipant
      <4>2. TypeReply'
        BY ZenonT(60), <4>1, AnswersFacts
      <4> QED
        BY ZenonT(60), <4>1, <4>2, TypeFrame
    <3> QED
      BY ZenonT(60), <3>1, <3>2
  <2>4. TypeSlice' /\ TypeReplies'
    BY ZenonT(60), <1>3, TypeFrame DEF BootSlice, LinkParticipant, history
  <2> QED
    BY ZenonT(60), <1>1, <1>2, <2>1, <2>2, <2>3, <2>4
<1>4. CASE SendSlice(m)
  <2>1. TypePhase'
    BY ZenonT(60), <1>4 DEF SendSlice, TypePhase
  <2>2. TypeReply'
    BY ZenonT(60), <1>4, AnswersFacts DEF SendSlice
  <2>3. TypePart'
    BY ZenonT(60), <1>4, PartFacts DEF SendSlice, TypePart
  <2>4. TypeReplies'
    <3>1. /\ sent' = sent \/ sent' = sent + 1
          /\ requests' = requests \/ requests' = Append(requests, sent + 1)
          /\ UNCHANGED <<inbox, produced, taken, dropped>>
      BY ZenonT(60), <1>4 DEF SendSlice, queues
    <3>2. sent' \in Nat /\ sent + 1 \in Nat
      BY SMTT(60), <3>1 DEF TypeReplies
    <3>3. Append(requests, sent + 1) \in Seq(Nat)
      BY ZenonT(60), <3>2, NumbersAppend DEF TypeReplies
    <3> QED
      BY ZenonT(60), <3>1, <3>2, <3>3 DEF TypeReplies
  <2> QED
    BY ZenonT(60), <1>1, <1>2, <1>4, <2>1, <2>2, <2>3, <2>4, TypeFrame DEF SendSlice, Executes, queues
<1>5. CASE ReceiveSlice(m)
  <2>1. TypePhase'
    BY ZenonT(60), <1>5 DEF ReceiveSlice, people, TypePhase
  <2>2. TypeReply'
    BY ZenonT(60), <1>5, AnswersFacts, TypeFrame DEF ReceiveSlice
  <2>3. TypeReplies'
    <3>1. /\ inbox' = IF inbox = <<>> THEN inbox ELSE Tail(inbox)
          /\ \/ UNCHANGED <<taken, dropped>>
             \/ /\ inbox # <<>>
                /\ \/ taken' = Append(taken, Head(inbox)) /\ dropped' = dropped
                   \/ dropped' = Append(dropped, Head(inbox)) /\ taken' = taken
          /\ UNCHANGED <<requests, sent, produced>>
      BY ZenonT(60), <1>5 DEF ReceiveSlice, ReceiveHanded, people
    <3>2. inbox # <<>> => Head(inbox) \in Nat /\ Tail(inbox) \in Seq(Nat)
      BY ZenonT(60), ElementsFacts DEF TypeReplies
    <3>3. inbox' \in Seq(Nat)
      BY ZenonT(60), <3>1, <3>2 DEF TypeReplies
    <3>4. inbox # <<>> => /\ Append(taken, Head(inbox)) \in Seq(Nat)
                          /\ Append(dropped, Head(inbox)) \in Seq(Nat)
      BY ZenonT(60), <3>2, NumbersAppend DEF TypeReplies
    <3> QED
      BY ZenonT(60), <3>1, <3>3, <3>4 DEF TypeReplies
  <2>4. TypePending'
    <3>1. [caller |-> m.caller, id |-> m.id] \in Waiters
      BY ZenonT(60) DEF Waiters, CommandRecords
    <3>2. pending' = pending \/ pending' = Append(pending, [caller |-> m.caller, id |-> m.id])
      BY ZenonT(60), <1>5 DEF ReceiveSlice
    <3> QED
      BY SMTT(60), <3>1, <3>2, ElementsFacts DEF TypePending
  <2> QED
    BY ZenonT(60), <1>1, <1>2, <1>5, <2>1, <2>2, <2>3, <2>4, TypeFrame DEF ReceiveSlice, Executes, people
<1>6. CASE QuerySlice(m)
  <2>1. TypeReply'
    BY ZenonT(60), <1>6, AnswersFacts DEF QuerySlice
  <2> QED
    BY ZenonT(60), <1>1, <1>2, <1>6, <2>1, TypeFrame DEF QuerySlice, Executes, people, queues, history
<1>7. CASE CloseSlice(m)
  <2>1. TypePhase'
    BY ZenonT(60), <1>7 DEF CloseSlice, people, TypePhase
  <2>2. TypeSlice'
    <3>1. [step |-> "close_mark", caller |-> m.caller, id |-> m.id, pid |-> pid] \in Slices
      BY SMTT(60) DEF Slices, SliceSteps, CommandRecords, TypeActor
    <3> QED
      BY ZenonT(60), <1>7, <3>1 DEF CloseSlice, TypeSlice
  <2> QED
    BY ZenonT(60), <1>1, <1>2, <1>7, <2>1, <2>2, TypeFrame DEF CloseSlice, Executes, people, queues, history
<1> QED
  BY ZenonT(60), <1>3, <1>4, <1>5, <1>6, <1>7 DEF Executes

LEMMA TypesActorStep ==
    ASSUME Types, ActorStep
    PROVE  Types'
<1> USE DEF Types
<1>1. CASE ProcessNextCommand
  <2>1. CASE \E m \in CommandRecords : Executes(m)
    BY ZenonT(60), <2>1, TypesExecutes
  <2>2. CASE IdleWake
    <3>1. TypeMailbox'
      BY ZenonT(60), <2>2, ElementsFacts DEF IdleWake, TypeMailbox
    <3> QED
      BY ZenonT(60), <2>2, <3>1, TypeFrame DEF IdleWake
  <2> QED
    BY ZenonT(60), <1>1, <2>1, <2>2, ProcessCases
<1>2. ASSUME MarkFinalized, UNCHANGED <<phase, token, nextId>>
      PROVE  TypePhase' /\ TypeCommands' /\ TypeReply'
  <2>1. TypeReply'
    BY ZenonT(60), <1>2, AnswersFacts DEF MarkFinalized
  <2>2. TypePhase'
    BY ZenonT(60), <1>2 DEF MarkFinalized, TypePhase
  <2>3. TypeCommands'
    BY SMTT(60), <1>2 DEF MarkFinalized, TypeCommands
  <2> QED
    BY ZenonT(60), <2>1, <2>2, <2>3
<1>3. CASE CloseMark
  <2>1. TypeSlice'
    BY ZenonT(60), <1>3, SliceMoves DEF CloseMark, TypeSlice, SliceSteps
  <2>2. TypePhase' /\ TypeCommands' /\ TypeReply'
    BY ZenonT(60), <1>2, <1>3, TypeFrame DEF CloseMark, people
  <2> QED
    BY ZenonT(60), <1>3, <2>1, <2>2, TypeFrame DEF CloseMark, people, history
<1>4. ASSUME slice' = NoSlice, StopSelf, EndWatcher, EndParticipant, token' = TRUE,
             pending' = <<>>, registered' = FALSE, UNCHANGED <<phase, finalized, pid, booted>>
      PROVE  /\ TypeSlice' /\ TypeActor' /\ TypeMailbox' /\ TypeWatcher' /\ TypePart'
             /\ TypePhase' /\ TypePending'
  <2>1. TypeSlice'
    BY ZenonT(60), <1>4, SliceMoves DEF TypeSlice, SliceSteps
  <2>2. TypeActor'
    BY ZenonT(60), <1>4, StopSelfFacts DEF TypeActor
  <2>3. TypeMailbox' /\ TypeWatcher' /\ TypePart'
    BY ZenonT(60), <1>4, StopSelfFacts, EndWatcherType, PartFacts DEF EndParticipant, TypePart
  <2>4. TypePhase'
    BY ZenonT(60), <1>4 DEF TypePhase
  <2>5. TypePending'
    BY SMTT(60), <1>4 DEF TypePending
  <2> QED
    BY ZenonT(60), <2>1, <2>2, <2>3, <2>4, <2>5
<1>5. CASE CloseRelease
  <2> DEFINE Own(c) == slice.caller = c /\ Listening(c, slice.id)
             Parked(c) == \E w \in Elements(pending) : w.caller = c /\ Listening(c, w.id)
  <2>1. reply' = [c \in Callers |-> IF Own(c) THEN "ok"
                                   ELSE IF Parked(c) THEN "err" ELSE reply[c]]
    BY ZenonT(60), <1>5 DEF CloseRelease
  <2>2. \A c \in Callers : (IF Own(c) THEN "ok" ELSE IF Parked(c) THEN "err" ELSE reply[c])
                              \in {"none", "ok", "err"}
    BY ZenonT(60) DEF TypeReply
  <2>3. TypeReply'
    <3> HIDE DEF Own, Parked
    <3> QED
      BY ZenonT(60), <2>1, <2>2 DEF TypeReply
  <2> QED
    BY ZenonT(60), <1>4, <1>5, <2>3, TypeFrame DEF CloseRelease, history
<1>6. CASE HandleParticipantExit
  <2>1. TypeMailbox'
    BY ZenonT(60), <1>6, ElementsFacts DEF HandleParticipantExit, TypeMailbox
  <2>2. TypePart'
    BY ZenonT(60), <1>6, PartFacts DEF HandleParticipantExit, TypePart
  <2>3. TypePhase' /\ TypeNotify' /\ TypePending' /\ TypeReply'
    BY ZenonT(60), <1>6, RecordExitFacts DEF HandleParticipantExit
  <2> QED
    BY ZenonT(60), <1>6, <2>1, <2>2, <2>3, TypeFrame DEF HandleParticipantExit, history
<1>7. CASE HandleWatcherExit
  <2>1. TypeMailbox'
    BY ZenonT(60), <1>7, ElementsFacts DEF HandleWatcherExit, TypeMailbox
  <2>2. TypeSlice'
    <3>1. [NoSlice EXCEPT !.step = "watcher_fail", !.pid = pid] \in Slices
      <4>1. pid \in Nat
        BY SMTT(60), Bounds DEF TypeActor
      <4> QED
        BY ZenonT(60), <4>1 DEF NoSlice, Slices, SliceSteps
    <3> QED
      BY ZenonT(60), <1>7, <3>1 DEF HandleWatcherExit, TypeSlice
  <2> QED
    BY ZenonT(60), <1>7, <2>1, <2>2, TypeFrame DEF HandleWatcherExit, people, queues, history
<1>8. CASE WatcherExitFails
  <2>1. TypeSlice'
    BY ZenonT(60), <1>8, SliceMoves DEF WatcherExitFails, TypeSlice, SliceSteps
  <2>2. TypePhase'
    BY ZenonT(60), <1>8 DEF WatcherExitFails, people, TypePhase
  <2> QED
    BY ZenonT(60), <1>8, <2>1, <2>2, TypeFrame DEF WatcherExitFails, people, queues, history
<1>9. CASE WatcherExitMark
  <2>1. TypeSlice'
    BY ZenonT(60), <1>9, SliceMoves DEF WatcherExitMark, TypeSlice, SliceSteps
  <2>2. TypePhase' /\ TypeCommands' /\ TypeReply'
    BY ZenonT(60), <1>2, <1>9, TypeFrame DEF WatcherExitMark, people
  <2>3. alive' \in BOOLEAN /\ linked' \in BOOLEAN /\ TypeMailbox'
    BY ZenonT(60), <1>9, StopSelfFacts, TypeFrame DEF WatcherExitMark, TypeActor
  <2>4. TypeActor'
    BY ZenonT(60), <1>9, <2>3 DEF WatcherExitMark, TypeActor
  <2> QED
    BY ZenonT(60), <1>9, <2>1, <2>2, <2>3, <2>4, TypeFrame DEF WatcherExitMark, people, history
<1>10. CASE WatcherExitRelease
  <2>1. TypeReply'
    BY ZenonT(60), <1>10, AnswersFacts DEF WatcherExitRelease
  <2> QED
    BY ZenonT(60), <1>4, <1>10, <2>1, TypeFrame DEF WatcherExitRelease, history
<1> QED
  BY ZenonT(60), <1>1, <1>3, <1>5, <1>6, <1>7, <1>8, <1>9, <1>10 DEF ActorStep

(* A reply to a parked receive, or into the buffer.                         *)
LEMMA DeliverFacts ==
    ASSUME Types, NEW r \in Nat, DeliverLocalReply(r)
    PROVE  /\ TypePending' /\ TypeReply'
           /\ \/ /\ pending = <<>> /\ inbox' = Append(inbox, r)
                 /\ UNCHANGED <<pending, taken, dropped, reply>>
              \/ /\ pending # <<>> /\ pending' = Tail(pending) /\ inbox' = inbox
                 /\ Head(pending) \in Elements(pending) /\ Answers("ok", {Head(pending)})
                 /\ \/ taken' = Append(taken, r) /\ dropped' = dropped
                    \/ dropped' = Append(dropped, r) /\ taken' = taken
<1> USE DEF Types
<1>1. CASE pending = <<>>
  BY ZenonT(60), <1>1, TypeFrame DEF DeliverLocalReply
<1>2. CASE pending # <<>>
  <2>1. /\ pending' = Tail(pending) /\ Answers("ok", {Head(pending)}) /\ inbox' = inbox
        /\ \/ taken' = Append(taken, r) /\ dropped' = dropped
           \/ dropped' = Append(dropped, r) /\ taken' = taken
    BY ZenonT(60), <1>2 DEF DeliverLocalReply
  <2>2. Tail(pending) \in Seq(Waiters) /\ Head(pending) \in Elements(pending)
    BY ZenonT(60), <1>2, ElementsFacts DEF TypePending
  <2>3. TypeReply'
    BY ZenonT(60), <2>1, AnswersFacts
  <2> QED
    BY ZenonT(60), <1>2, <2>1, <2>2, <2>3 DEF TypePending
<1> QED
  BY ZenonT(60), <1>1, <1>2

LEMMA MailboxGrows ==
    ASSUME TypeMailbox, NEW k \in {"participant_error", "participant_normal"}
    PROVE  mailbox \o ExitSignal(k) \in Seq(Mail)
<1>1. ExitSignal(k) \in Seq(Mail)
  <2>1. <<k>> \in Seq(Mail) /\ <<>> \in Seq(Mail)
    BY SMTT(60) DEF Mail
  <2> QED
    BY ZenonT(60), <2>1 DEF ExitSignal
<1> QED
  BY SMTT(60), <1>1 DEF TypeMailbox

LEMMA TypesRest ==
    ASSUME Types,
           \/ ParticipantStep \/ RegisterExitNotifier \/ ActorCrash \/ ParticipantCrash
           \/ WatcherKilled \/ \E i \in 1..MaxSpawns : WatcherCleanup(i)
    PROVE  Types'
<1> USE DEF Types
<1>1. CASE ParticipantStep
  <2>1. CASE ~part.registered \/ requests = <<>>
    <3>1. /\ part' = [part EXCEPT !.woken = FALSE]
          /\ UNCHANGED <<requests, produced, queues, taken, dropped, reply>>
      BY ZenonT(60), <1>1, <2>1 DEF ParticipantStep
    <3>2. TypePart'
      BY ZenonT(60), <3>1, PartFacts DEF TypePart
    <3> QED
      BY ZenonT(60), <1>1, <3>1, <3>2, TypeFrame DEF ParticipantStep, actor, queues
  <2>2. CASE part.registered /\ requests # <<>>
    <3>1. /\ requests' = Tail(requests) /\ produced' = Append(produced, Head(requests))
          /\ DeliverLocalReply(Head(requests)) /\ part' = part /\ sent' = sent
      BY ZenonT(60), <1>1, <2>2 DEF ParticipantStep
    <3>2. Head(requests) \in Nat /\ Tail(requests) \in Seq(Nat)
      BY ZenonT(60), <2>2, ElementsFacts DEF TypeReplies
    <3>3. TypePending' /\ TypeReply'
      BY ZenonT(60), <3>1, <3>2, DeliverFacts
    <3>4. \A q \in Seq(Nat) : Append(q, Head(requests)) \in Seq(Nat)
      BY ZenonT(60), <3>2, NumbersAppend
    <3>5. /\ inbox' \in Seq(Nat) /\ taken' \in Seq(Nat) /\ dropped' \in Seq(Nat)
          /\ produced' \in Seq(Nat)
      BY ZenonT(60), <3>1, <3>2, <3>4, DeliverFacts DEF TypeReplies
    <3>6. TypeReplies'
      BY ZenonT(60), <3>1, <3>2, <3>5 DEF TypeReplies
    <3> QED
      BY ZenonT(60), <1>1, <3>1, <3>3, <3>6, TypeFrame DEF ParticipantStep, actor
  <2> QED
    BY ZenonT(60), <2>1, <2>2
<1>2. CASE RegisterExitNotifier
  <2>1. TypeNotify'
    <3>1. /\ [notify EXCEPT !.state = "waiting"]
                \in [state : {"none", "waiting", "signalled"}, signals : Nat]
          /\ [state |-> "signalled", signals |-> 1]
                \in [state : {"none", "waiting", "signalled"}, signals : Nat]
      BY ZenonT(60) DEF TypeNotify
    <3> QED
      BY ZenonT(60), <1>2, <3>1 DEF RegisterExitNotifier, TypeNotify
  <2> QED
    BY ZenonT(60), <1>2, <2>1, TypeFrame DEF RegisterExitNotifier, actor, queues, history
<1>3. ASSUME NEW p, Fault(p), ops' = ops PROVE TypeBounds'
  BY SMTT(60), <1>3, Bounds DEF Fault, TypeBounds
<1>4. CASE ActorCrash
  <2>1. TypeWatcher'
    BY ZenonT(60), <1>4 DEF ActorCrash, TypeWatcher, TypeActor, WatcherStates
  <2>2. TypePart'
    BY ZenonT(60), <1>4, PartFacts DEF ActorCrash, TypePart
  <2>3. TypeMailbox'
    BY SMTT(60), <1>4 DEF ActorCrash, TypeMailbox
  <2>4. TypeActor'
    BY ZenonT(60), <1>4 DEF ActorCrash, TypeActor
  <2> QED
    BY ZenonT(60), <1>3, <1>4, <2>1, <2>2, <2>3, <2>4, TypeFrame DEF ActorCrash, queues, history
<1>5. CASE ParticipantCrash
  <2>1. TypePart'
    BY ZenonT(60), <1>5, PartFacts DEF ParticipantCrash, TypePart
  <2>2. TypeMailbox'
    BY ZenonT(60), <1>5, MailboxGrows DEF ParticipantCrash, TypeMailbox
  <2> QED
    BY ZenonT(60), <1>3, <1>5, <2>1, <2>2, TypeFrame DEF ParticipantCrash, queues, history
<1>6. CASE WatcherKilled
  <2>1. TypeWatcher'
    BY ZenonT(60), <1>6, EndWatcherType DEF WatcherKilled
  <2>2. TypeMailbox'
    <3>1. Append(mailbox, "watcher") \in Seq(Mail)
      BY ZenonT(60), ElementsFacts DEF TypeMailbox, Mail
    <3> QED
      BY ZenonT(60), <1>6, <3>1 DEF WatcherKilled, TypeMailbox
  <2> QED
    BY ZenonT(60), <1>3, <1>6, <2>1, <2>2, TypeFrame DEF WatcherKilled, queues, history
<1>7. ASSUME NEW i \in 1..MaxSpawns, WatcherCleanup(i) PROVE Types'
  <2>1. TypeWatcher'
    BY ZenonT(60), <1>7 DEF WatcherCleanup, TypeWatcher, WatcherStates
  <2>2. TypePart'
    BY ZenonT(60), <1>7, PartFacts DEF WatcherCleanup, EndParticipant, TypePart
  <2>3. TypeMailbox'
    BY ZenonT(60), <1>7, MailboxGrows DEF WatcherCleanup, TypeMailbox
  <2>4. TypeActor'
    BY ZenonT(60), <1>7 DEF WatcherCleanup, TypeActor
  <2> QED
    BY ZenonT(60), <1>7, <2>1, <2>2, <2>3, <2>4, TypeFrame DEF WatcherCleanup, queues, history
<1> QED
  BY ZenonT(60), <1>1, <1>2, <1>4, <1>5, <1>6, <1>7

(***************************************************************************)
(* What each step of a host thread does to its call.                       *)
(***************************************************************************)
LEMMA HostMoves ==
    ASSUME Types, NEW c \in Callers
    PROVE  /\ \A kind \in Kinds : Begin(c, kind) => Moved(c, "ensure", 0)
           /\ EnsureLive(c) => Moved(c, "push", call[c].id)
           /\ EnsureSpawn(c) => Moved(c, "boot_push", call[c].id)
           /\ Push(c) => Moved(c, IF call[c].pc = "push" THEN "wake" ELSE "boot_wake", nextId)
           /\ WakeActor(c) =>
                 Moved(c, IF call[c].pc = "wake" THEN "wait" ELSE "boot_wait", call[c].id)
           /\ FinalizeMark(c) => Moved(c, "fin_phase", call[c].id)
           /\ FinalizePhase(c) => Moved(c, "fin_release", call[c].id)
           /\ FinalizeRelease(c) => Moved(c, "idle", 0)
<1> USE DEF Types
<1>0. call[c] \in CallRecords /\ pid \in Nat /\ pid + 1 \in Nat /\ nextId \in Nat
  BY SMTT(60), Bounds DEF TypeCall, TypeActor, TypeCommands
<1>1. ASSUME NEW r, call' = [call EXCEPT ![c] = r] PROVE Moved(c, r.pc, r.id)
  BY ZenonT(60), <1>1 DEF Moved, TypeCall
<1>2. ASSUME NEW kind \in Kinds, Begin(c, kind) PROVE Moved(c, "ensure", 0)
  <2>1. PICK r : r = [Idle EXCEPT !.pc = "ensure", !.kind = kind]
    BY ZenonT(60)
  <2>2. r.pc = "ensure" /\ r.id = 0
    BY ZenonT(60), <2>1 DEF Idle
  <2>3. call' = [call EXCEPT ![c] = r]
    BY ZenonT(60), <1>2, <2>1 DEF Begin
  <2> QED
    BY ZenonT(60), <1>1, <2>2, <2>3
<1>3. ASSUME NEW p \in Places, NEW t \in Nat,
             call' = [call EXCEPT ![c].pc = p, ![c].target = t]
      PROVE  Moved(c, p, call[c].id)
  <2>1. PICK r : r = [call[c] EXCEPT !.pc = p, !.target = t]
    BY ZenonT(60)
  <2>2. r.pc = p /\ r.id = call[c].id
    BY ZenonT(60), <1>0, <2>1 DEF CallRecords
  <2>3. call' = [call EXCEPT ![c] = r]
    BY ZenonT(60), <1>3, <2>1 DEF TypeCall
  <2> QED
    BY ZenonT(60), <1>1, <2>2, <2>3
<1>4. ASSUME EnsureLive(c) PROVE Moved(c, "push", call[c].id)
  BY ZenonT(60), <1>0, <1>3, <1>4 DEF EnsureLive, Places
<1>5. ASSUME EnsureSpawn(c) PROVE Moved(c, "boot_push", call[c].id)
  BY ZenonT(60), <1>0, <1>3, <1>5 DEF EnsureSpawn, SpawnActor, Places
<1>6. ASSUME Push(c)
      PROVE  Moved(c, IF call[c].pc = "push" THEN "wake" ELSE "boot_wake", nextId)
  <2> DEFINE p == IF call[c].pc = "push" THEN "wake" ELSE "boot_wake"
  <2>1. PICK r : r = [call[c] EXCEPT !.id = nextId, !.pc = p]
    BY ZenonT(60)
  <2>2. call' = [call EXCEPT ![c] = r]
    BY ZenonT(60), <1>6, <2>1 DEF Push, TypeCall
  <2>3. r.pc = p /\ r.id = nextId
    <3>1. p \in Places
      BY ZenonT(60) DEF Places, Waiting
    <3> HIDE DEF p
    <3> QED
      BY ZenonT(60), <1>0, <2>1, <3>1 DEF CallRecords
  <2> QED
    BY ZenonT(60), <1>1, <2>2, <2>3
<1>7. /\ WakeActor(c) =>
            Moved(c, IF call[c].pc = "wake" THEN "wait" ELSE "boot_wait", call[c].id)
      /\ FinalizeMark(c) => Moved(c, "fin_phase", call[c].id)
      /\ FinalizePhase(c) => Moved(c, "fin_release", call[c].id)
  BY ZenonT(60), GotoMoves DEF WakeActor, FinalizeMark, FinalizePhase, Places, Waiting, Finalizing
<1>8. ASSUME FinalizeRelease(c) PROVE Moved(c, "idle", 0)
  <2>1. call' = [call EXCEPT ![c] = Idle] /\ Idle.pc = "idle" /\ Idle.id = 0
    BY ZenonT(60), <1>8 DEF FinalizeRelease, Idle
  <2> QED
    BY ZenonT(60), <1>1, <2>1
<1> QED
  BY ZenonT(60), <1>2, <1>4, <1>5, <1>6, <1>7, <1>8

(* A call that ends: its thread is idle again, or goes on to its own push   *)
(* after a successful Boot, and its reply channel is dropped.               *)
Leaves(c) ==
    /\ \E p \in {"idle", "push"}, i \in Nat : Moved(c, p, i)
    /\ reply'[c] = "none" /\ \A d \in Callers : d # c => reply'[d] = reply[d]

LEMMA HostLeaves ==
    ASSUME Types, NEW c \in Callers,
           \/ EnsureRefused(c) \/ PushRefused(c) \/ WakeFails(c) \/ BootWakeFails(c) \/ BootOk(c)
           \/ BootFails(c) \/ TakeReply(c) \/ ReceiveTimesOut(c) \/ FinalizeAgain(c)
    PROVE  Leaves(c)
<1>1. Return(c) => Leaves(c)
  <2>1. Return(c) => /\ Moved(c, "idle", 0) /\ reply'[c] = "none"
                     /\ \A d \in Callers : d # c => reply'[d] = reply[d]
    BY ZenonT(60), ReturnMoves DEF Types
  <2> QED
    BY ZenonT(60), <2>1, 0 \in Nat DEF Leaves
<1>2. CASE BootOk(c) /\ ~finalized
  <2>1. /\ Goto(c, "push") /\ reply' = [reply EXCEPT ![c] = "none"]
    BY ZenonT(60), <1>2 DEF BootOk
  <2>2. Moved(c, "push", call[c].id)
    BY ZenonT(60), <2>1, GotoMoves DEF Types, Places
  <2>3. call[c].id \in Nat
    BY ZenonT(60) DEF Types, TypeCall, CallRecords
  <2> QED
    BY ZenonT(60), <2>1, <2>2, <2>3 DEF Leaves, Types, TypeReply
<1> QED
  BY ZenonT(60), <1>1, <1>2 DEF EnsureRefused, PushRefused, WakeFails, BootWakeFails, BootOk, BootFails,
     TakeReply, ReceiveTimesOut, FinalizeAgain, Rollback

(***************************************************************************)
(* A death is reported once.                                               *)
(***************************************************************************)
LEMMA SignalKeeps ==
    ASSUME Types, CrashInv,
           \/ recorded' = recorded /\ notify' = notify
           \/ recorded = 0 /\ recorded' = 1 /\ notify' = Signal
    PROVE  CrashInv'
<1>1. CASE recorded' = recorded /\ notify' = notify
  BY ZenonT(60), <1>1 DEF CrashInv
<1>2. CASE recorded = 0 /\ recorded' = 1 /\ notify' = Signal
  <2>1. CASE notify.state = "waiting"
    <3>1. notify.signals = 0
      BY ZenonT(60), <1>2, <2>1 DEF CrashInv
    <3>2. notify' = [state |-> "signalled", signals |-> 1]
      BY SMTT(60), <1>2, <2>1, <3>1 DEF Signal
    <3> QED
      BY SMTT(60), <1>2, <3>2 DEF CrashInv
  <2>2. CASE notify.state = "none"
    <3>1. notify' = notify
      BY ZenonT(60), <1>2, <2>2 DEF Signal
    <3> QED
      BY ZenonT(60), <2>2, <3>1 DEF CrashInv
  <2>3. CASE notify.state = "signalled"
    BY SMTT(60), <1>2, <2>3 DEF CrashInv
  <2> QED
    BY ZenonT(60), <2>1, <2>2, <2>3 DEF Types, TypeNotify
<1> QED
  BY ZenonT(60), <1>1, <1>2

LEMMA CrashStep ==
    ASSUME Types, CrashInv, [Next]_vars
    PROVE  CrashInv'
<1>1. UNCHANGED <<recorded, notify>> => CrashInv'
  BY ZenonT(60) DEF CrashInv
<1>2. ASSUME NEW c \in Callers, HostStep(c) PROVE CrashInv'
  <2>1. CASE EnsureRefused(c) \/ EnsureLive(c) \/ EnsureSpawn(c) \/ Push(c) \/ PushRefused(c) \/
             WakeActor(c) \/ WakeFails(c) \/ BootWakeFails(c) \/ BootOk(c) \/ BootFails(c) \/
             TakeReply(c) \/ ReceiveTimesOut(c) \/ FinalizeMark(c) \/ FinalizeAgain(c) \/
             FinalizePhase(c) \/ FinalizeRelease(c)
    BY ZenonT(60), <1>1, <2>1 DEF EnsureRefused, EnsureLive, EnsureSpawn, SpawnActor, Push, PushRefused,
       Rollback, WakeActor, WakeFails, BootWakeFails, BootOk, BootFails, TakeReply,
       ReceiveTimesOut, FinalizeMark, FinalizeAgain, FinalizePhase, FinalizeRelease, people
  <2> QED
    BY ZenonT(60), <1>2, <2>1 DEF HostStep
<1>3. ASSUME NEW c \in Callers, NEW kind \in Kinds, Begin(c, kind) PROVE CrashInv'
  BY ZenonT(60), <1>1, <1>3 DEF Begin, people
<1>4. CASE IdleWake
  BY ZenonT(60), <1>1, <1>4 DEF IdleWake
<1>5. ASSUME NEW m \in CommandRecords, Executes(m) PROVE CrashInv'
  <2>1. CASE SendSlice(m) \/ ReceiveSlice(m) \/ QuerySlice(m) \/ CloseSlice(m)
    BY ZenonT(60), <1>1, <1>5, <2>1 DEF SendSlice, ReceiveSlice, QuerySlice, CloseSlice, Executes, people
  <2>2. CASE BootSlice(m)
    <3>1. \/ recorded' = recorded /\ notify' = notify
          \/ recorded = 0 /\ recorded' = 1 /\ notify' = Signal
      BY ZenonT(60), <2>2, RecordExitFacts DEF BootSlice, LinkParticipant
    <3> QED
      BY ZenonT(60), <3>1, SignalKeeps
  <2> QED
    BY ZenonT(60), <1>5, <2>1, <2>2 DEF Executes
<1>6. CASE ActorStep /\ ~ProcessNextCommand
  <2>1. CASE CloseMark \/ CloseRelease \/ HandleWatcherExit \/ WatcherExitFails \/
             WatcherExitMark \/ WatcherExitRelease
    BY ZenonT(60), <1>1, <2>1 DEF CloseMark, CloseRelease, StopSelf, HandleWatcherExit, WatcherExitFails,
       WatcherExitMark, WatcherExitRelease, people
  <2>2. CASE HandleParticipantExit
    <3>1. \/ recorded' = recorded /\ notify' = notify
          \/ recorded = 0 /\ recorded' = 1 /\ notify' = Signal
      BY ZenonT(60), <2>2, RecordExitFacts DEF HandleParticipantExit
    <3> QED
      BY ZenonT(60), <3>1, SignalKeeps
  <2> QED
    BY ZenonT(60), <1>6, <2>1, <2>2 DEF ActorStep
<1>7. CASE ParticipantStep \/ ActorCrash \/ ParticipantCrash \/ WatcherKilled
  BY ZenonT(60), <1>1, <1>7 DEF ParticipantStep, ActorCrash, ParticipantCrash, WatcherKilled, people
<1>8. CASE RegisterExitNotifier
  <2>1. CASE recorded > 0
    <3>1. recorded' = 1 /\ notify' = [state |-> "signalled", signals |-> 1]
      BY SMTT(60), <1>8, <2>1 DEF RegisterExitNotifier, Types, TypeNotify
    <3> QED
      BY ZenonT(60), <3>1 DEF CrashInv
  <2>2. CASE ~(recorded > 0)
    <3>1. recorded' = recorded /\ recorded = 0 /\ notify' = [notify EXCEPT !.state = "waiting"]
      BY SMTT(60), <1>8, <2>2 DEF RegisterExitNotifier, Types, TypeNotify
    <3>2. notify'.state = "waiting" /\ notify'.signals = 0
      BY ZenonT(60), <1>8, <3>1 DEF RegisterExitNotifier, CrashInv, Types, TypeNotify
    <3> QED
      BY ZenonT(60), <3>1, <3>2 DEF CrashInv
  <2> QED
    BY ZenonT(60), <2>1, <2>2
<1>9. ASSUME NEW i \in 1..MaxSpawns, WatcherCleanup(i) PROVE CrashInv'
  BY ZenonT(60), <1>1, <1>9 DEF WatcherCleanup, people
<1>10. CASE UNCHANGED vars
  BY ZenonT(60), <1>1, <1>10 DEF vars, people
<1> QED
  BY ZenonT(60), <1>2, <1>3, <1>4, <1>5, <1>6, <1>7, <1>8, <1>9, <1>10, ProcessCases DEF Next, ActorStep

(***************************************************************************)
(* The restart gate has one holder.                                        *)
(***************************************************************************)
LEMMA LockMoves ==
    ASSUME Types, LockInv, NEW c \in Callers, NEW p, NEW i, Moved(c, p, i),
           lock' = lock \/ lock = Nobody \/ lock = c,
           p \in Booting \cup Finalizing => lock' = c,
           p \in Finalizing => finalized', finalized => finalized'
    PROVE  LockInv'
<1>1. \A d \in Callers : d # Nobody
  BY ZenonT(60), NobodyAssumption
<1>2. ASSUME NEW d \in Callers, call'[d].pc \in Booting \cup Finalizing
      PROVE  lock' = d /\ (call'[d].pc \in Finalizing => finalized')
  <2>1. CASE d = c
    BY ZenonT(60), <1>2, <2>1 DEF Moved
  <2>2. CASE d # c
    BY ZenonT(60), <1>1, <1>2, <2>2 DEF Moved, LockInv
  <2> QED
    BY ZenonT(60), <2>1, <2>2
<1> QED
  BY ZenonT(60), <1>2 DEF LockInv

LEMMA LockLeaves ==
    ASSUME Types, LockInv, NEW c \in Callers, Leaves(c),
           lock' = lock \/ lock = Nobody \/ lock = c, UNCHANGED finalized
    PROVE  LockInv'
<1>1. PICK p \in {"idle", "push"}, i \in Nat : Moved(c, p, i)
  BY ZenonT(60) DEF Leaves
<1>2. p \notin Booting \cup Finalizing
  BY ZenonT(60) DEF Booting, Finalizing
<1> QED
  BY ZenonT(60), <1>1, <1>2, LockMoves

LEMMA LockStep ==
    ASSUME Types, LockInv, [Next]_vars
    PROVE  LockInv'
<1>1. UNCHANGED <<call, lock, finalized>> => LockInv'
  BY SMTT(60) DEF LockInv
<1>2. ASSUME NEW c \in Callers, HostStep(c) PROVE LockInv'
  <2>1. CASE EnsureRefused(c)
    BY ZenonT(60), <2>1, HostLeaves, LockLeaves DEF EnsureRefused
  <2>2. CASE EnsureLive(c)
    <3>1. Moved(c, "push", call[c].id)
      BY ZenonT(60), <2>2, HostMoves
    <3>2. UNCHANGED <<lock, finalized>>
      BY ZenonT(60), <2>2 DEF EnsureLive
    <3> QED
      BY SMTT(60), <3>1, <3>2, LockMoves DEF Booting, Finalizing
  <2>3. CASE EnsureSpawn(c)
    BY ZenonT(60), <2>3, HostMoves, LockMoves DEF EnsureSpawn, SpawnActor, Booting, Finalizing
  <2>4. CASE Push(c)
    <3>1. call[c].pc = "boot_push" => lock = c
      BY ZenonT(60) DEF LockInv, Booting
    <3> QED
      BY ZenonT(60), <2>4, <3>1, HostMoves, LockMoves DEF Push, Booting, Finalizing
  <2>5. CASE PushRefused(c)
    <3>1. lock' = lock \/ lock = c
      BY ZenonT(60), <2>5 DEF PushRefused, LockInv, Booting
    <3>2. UNCHANGED finalized
      BY ZenonT(60), <2>5 DEF PushRefused, Rollback
    <3> QED
      BY ZenonT(60), <2>5, <3>1, <3>2, HostLeaves, LockLeaves
  <2>6. CASE WakeActor(c)
    <3>1. call[c].pc = "boot_wake" => lock = c
      BY ZenonT(60) DEF LockInv, Booting
    <3> QED
      BY SMTT(60), <2>6, <3>1, HostMoves, LockMoves DEF WakeActor, Booting, Finalizing
  <2>7. CASE WakeFails(c)
    BY ZenonT(60), <2>7, HostLeaves, LockLeaves DEF WakeFails
  <2>8. CASE BootWakeFails(c)
    <3>1. lock = c
      BY ZenonT(60), <2>8 DEF BootWakeFails, LockInv, Booting
    <3> QED
      BY ZenonT(60), <2>8, <3>1, HostLeaves, LockLeaves DEF BootWakeFails, Rollback
  <2>9. CASE BootOk(c)
    <3>1. lock = c
      BY ZenonT(60), <2>9 DEF BootOk, LockInv, Booting
    <3> QED
      BY ZenonT(60), <2>9, <3>1, HostLeaves, LockLeaves DEF BootOk, Rollback
  <2>10. CASE BootFails(c)
    <3>1. lock = c
      BY ZenonT(60), <2>10 DEF BootFails, LockInv, Booting
    <3> QED
      BY ZenonT(60), <2>10, <3>1, HostLeaves, LockLeaves DEF BootFails, Rollback
  <2>11. CASE TakeReply(c)
    BY ZenonT(60), <2>11, HostLeaves, LockLeaves DEF TakeReply
  <2>12. CASE ReceiveTimesOut(c)
    BY ZenonT(60), <2>12, HostLeaves, LockLeaves DEF ReceiveTimesOut
  <2>13. CASE FinalizeMark(c)
    BY ZenonT(60), <2>13, HostMoves, LockMoves DEF FinalizeMark, MarkFinalized
  <2>14. CASE FinalizeAgain(c)
    BY ZenonT(60), <2>14, HostLeaves, LockLeaves DEF FinalizeAgain
  <2>15. CASE FinalizePhase(c)
    <3>1. lock = c /\ finalized
      BY ZenonT(60), <2>15 DEF FinalizePhase, LockInv, Finalizing
    <3> QED
      BY ZenonT(60), <2>15, <3>1, HostMoves, LockMoves DEF FinalizePhase
  <2>16. CASE FinalizeRelease(c)
    <3>1. lock = c
      BY ZenonT(60), <2>16 DEF FinalizeRelease, LockInv, Finalizing
    <3> QED
      BY ZenonT(60), <2>16, <3>1, HostMoves, LockMoves DEF FinalizeRelease, Booting, Finalizing
  <2> QED
    BY ZenonT(60), <1>2, <2>1, <2>2, <2>3, <2>4, <2>5, <2>6, <2>7, <2>8, <2>9, <2>10, <2>11, <2>12, <2>13,
       <2>14, <2>15, <2>16 DEF HostStep
<1>3. ASSUME NEW c \in Callers, NEW kind \in Kinds, Begin(c, kind) PROVE LockInv'
  BY ZenonT(60), <1>3, HostMoves, LockMoves DEF Begin, Booting, Finalizing
<1>4. CASE IdleWake
  BY ZenonT(60), <1>1, <1>4 DEF IdleWake
<1>5. ASSUME NEW m \in CommandRecords, Executes(m) PROVE LockInv'
  <2>1. CASE BootSlice(m) \/ SendSlice(m) \/ ReceiveSlice(m) \/ QuerySlice(m) \/ CloseSlice(m)
    BY ZenonT(60), <1>1, <1>5, <2>1 DEF BootSlice, LinkParticipant, SendSlice, ReceiveSlice, QuerySlice, CloseSlice, Executes
  <2> QED
    BY ZenonT(60), <1>5, <2>1 DEF Executes
<1>6. CASE ActorStep /\ ~ProcessNextCommand
  <2>1. CASE CloseRelease \/ HandleParticipantExit \/ HandleWatcherExit \/ WatcherExitFails \/
             WatcherExitRelease
    BY ZenonT(60), <1>1, <2>1 DEF CloseRelease, StopSelf, HandleParticipantExit, HandleWatcherExit,
       WatcherExitFails, WatcherExitRelease
  <2>2. CASE CloseMark
    BY ZenonT(60), <2>2 DEF CloseMark, MarkFinalized, LockInv
  <2>3. CASE WatcherExitMark
    BY ZenonT(60), <2>3 DEF WatcherExitMark, MarkFinalized, LockInv
  <2> QED
    BY ZenonT(60), <1>6, <2>1, <2>2, <2>3 DEF ActorStep
<1>7. CASE ParticipantStep \/ RegisterExitNotifier \/ ActorCrash \/ ParticipantCrash \/
             WatcherKilled
  BY ZenonT(60), <1>1, <1>7 DEF ParticipantStep, RegisterExitNotifier, ActorCrash, ParticipantCrash,
     WatcherKilled
<1>8. ASSUME NEW i \in 1..MaxSpawns, WatcherCleanup(i) PROVE LockInv'
  BY ZenonT(60), <1>1, <1>8 DEF WatcherCleanup
<1>9. CASE UNCHANGED vars
  BY ZenonT(60), <1>1, <1>9 DEF vars
<1> QED
  BY ZenonT(60), <1>2, <1>3, <1>4, <1>5, <1>6, <1>7, <1>8, <1>9, ProcessCases DEF Next, ActorStep

(***************************************************************************)
(* Finalization drains the queue, and a close is followed by it.           *)
(***************************************************************************)
LEMMA DrainStep ==
    ASSUME Types, DrainInv, [Next]_vars
    PROVE  DrainInv'
<1>1. UNCHANGED <<finalized, commands>> => DrainInv'
  BY ZenonT(60) DEF DrainInv
<1>2. ASSUME NEW c \in Callers, HostStep(c) PROVE DrainInv'
  <2>0. call[c].id \in Nat
    BY ZenonT(60) DEF Types, TypeCall, CallRecords
  <2>1. CASE EnsureRefused(c) \/ EnsureLive(c) \/ EnsureSpawn(c) \/ PushRefused(c) \/
             WakeActor(c) \/ BootOk(c) \/ TakeReply(c) \/ ReceiveTimesOut(c) \/
             FinalizeAgain(c) \/ FinalizePhase(c) \/ FinalizeRelease(c)
    BY ZenonT(60), <1>1, <2>1 DEF EnsureRefused, EnsureLive, EnsureSpawn, SpawnActor, PushRefused, Rollback,
       WakeActor, BootOk, TakeReply, ReceiveTimesOut, FinalizeAgain, FinalizePhase,
       FinalizeRelease
  <2>2. CASE Push(c)
    BY ZenonT(60), <2>2 DEF Push, DrainInv
  <2>3. CASE WakeFails(c)
    <3>1. commands' = Without(call[c].id) /\ finalized' = finalized
      BY ZenonT(60), <2>3 DEF WakeFails
    <3> QED
      BY ZenonT(60), <2>0, <3>1, WithoutFacts DEF Types, DrainInv
  <2>4. CASE BootWakeFails(c)
    <3>1. commands' = Without(call[c].id) /\ finalized' = finalized
      BY ZenonT(60), <2>4 DEF BootWakeFails, Rollback
    <3> QED
      BY ZenonT(60), <2>0, <3>1, WithoutFacts DEF Types, DrainInv
  <2>5. CASE BootFails(c)
    <3>1. commands' = Without(call[c].id) /\ finalized' = finalized
      BY ZenonT(60), <2>5 DEF BootFails, Rollback
    <3> QED
      BY ZenonT(60), <2>0, <3>1, WithoutFacts DEF Types, DrainInv
  <2>6. CASE FinalizeMark(c)
    BY ZenonT(60), <2>6 DEF FinalizeMark, MarkFinalized, DrainInv
  <2> QED
    BY ZenonT(60), <1>2, <2>1, <2>2, <2>3, <2>4, <2>5, <2>6 DEF HostStep
<1>3. ASSUME NEW c \in Callers, NEW kind \in Kinds, Begin(c, kind) PROVE DrainInv'
  BY ZenonT(60), <1>1, <1>3 DEF Begin
<1>4. CASE IdleWake
  BY ZenonT(60), <1>1, <1>4 DEF IdleWake
<1>5. ASSUME NEW m \in CommandRecords, Executes(m) PROVE DrainInv'
  <2>1. CASE BootSlice(m)
    BY ZenonT(60), <1>5, <2>1 DEF BootSlice, LinkParticipant, Executes, DrainInv
  <2>2. CASE SendSlice(m)
    BY ZenonT(60), <1>5, <2>2 DEF SendSlice, Executes, DrainInv
  <2>3. CASE ReceiveSlice(m)
    BY ZenonT(60), <1>5, <2>3 DEF ReceiveSlice, Executes, DrainInv
  <2>4. CASE QuerySlice(m)
    BY ZenonT(60), <1>5, <2>4 DEF QuerySlice, Executes, DrainInv
  <2>5. CASE CloseSlice(m)
    BY ZenonT(60), <1>5, <2>5 DEF CloseSlice, Executes, DrainInv
  <2> QED
    BY ZenonT(60), <1>5, <2>1, <2>2, <2>3, <2>4, <2>5 DEF Executes
<1>6. CASE ActorStep /\ ~ProcessNextCommand
  <2>1. CASE CloseRelease \/ HandleParticipantExit \/ HandleWatcherExit \/ WatcherExitFails \/
             WatcherExitRelease
    BY ZenonT(60), <1>1, <2>1 DEF CloseRelease, StopSelf, HandleParticipantExit, HandleWatcherExit,
       WatcherExitFails, WatcherExitRelease
  <2>2. CASE CloseMark
    BY ZenonT(60), <2>2 DEF CloseMark, MarkFinalized, DrainInv
  <2>3. CASE WatcherExitMark
    BY ZenonT(60), <2>3 DEF WatcherExitMark, MarkFinalized, DrainInv
  <2> QED
    BY ZenonT(60), <1>6, <2>1, <2>2, <2>3 DEF ActorStep
<1>7. CASE ParticipantStep \/ RegisterExitNotifier \/ ActorCrash \/ ParticipantCrash \/
             WatcherKilled
  BY ZenonT(60), <1>1, <1>7 DEF ParticipantStep, RegisterExitNotifier, ActorCrash, ParticipantCrash,
     WatcherKilled
<1>8. ASSUME NEW i \in 1..MaxSpawns, WatcherCleanup(i) PROVE DrainInv'
  BY ZenonT(60), <1>1, <1>8 DEF WatcherCleanup
<1>9. CASE UNCHANGED vars
  BY ZenonT(60), <1>1, <1>9 DEF vars
<1> QED
  BY ZenonT(60), <1>2, <1>3, <1>4, <1>5, <1>6, <1>7, <1>8, <1>9, ProcessCases DEF Next, ActorStep

LEMMA ClosedStep ==
    ASSUME Types, LockInv, ClosedInv, [Next]_vars
    PROVE  ClosedInv'
<1>1. UNCHANGED <<phase, finalized, slice>> => ClosedInv'
  BY SMTT(60) DEF ClosedInv
<1>2. ASSUME NEW c \in Callers, HostStep(c) PROVE ClosedInv'
  <2>1. CASE EnsureRefused(c) \/ EnsureLive(c) \/ EnsureSpawn(c) \/ Push(c) \/ PushRefused(c) \/
             WakeActor(c) \/ WakeFails(c) \/ BootWakeFails(c) \/ BootOk(c) \/ BootFails(c) \/
             TakeReply(c) \/ ReceiveTimesOut(c) \/ FinalizeAgain(c) \/ FinalizeRelease(c)
    BY ZenonT(60), <1>1, <2>1 DEF EnsureRefused, EnsureLive, EnsureSpawn, SpawnActor, Push, PushRefused,
       Rollback, WakeActor, WakeFails, BootWakeFails, BootOk, BootFails, TakeReply,
       ReceiveTimesOut, FinalizeAgain, FinalizeRelease, actor
  <2>2. CASE FinalizeMark(c)
    BY ZenonT(60), <2>2 DEF FinalizeMark, MarkFinalized, ClosedInv
  <2>3. CASE FinalizePhase(c)
    <3>1. finalized /\ finalized' = finalized
      BY ZenonT(60), <2>3 DEF FinalizePhase, LockInv, Finalizing
    <3> QED
      BY ZenonT(60), <3>1 DEF ClosedInv
  <2> QED
    BY ZenonT(60), <1>2, <2>1, <2>2, <2>3 DEF HostStep
<1>3. ASSUME NEW c \in Callers, NEW kind \in Kinds, Begin(c, kind) PROVE ClosedInv'
  BY ZenonT(60), <1>1, <1>3 DEF Begin, actor
<1>4. CASE IdleWake
  BY ZenonT(60), <1>1, <1>4 DEF IdleWake
<1>5. ASSUME NEW m \in CommandRecords, Executes(m) PROVE ClosedInv'
  <2>1. CASE QuerySlice(m)
    BY ZenonT(60), <1>1, <1>5, <2>1 DEF QuerySlice, Executes, actor
  <2>2. CASE BootSlice(m)
    <3>1. phase' = phase \/ phase' = "failed"
      BY ZenonT(60), <2>2, RecordExitFacts DEF BootSlice, LinkParticipant
    <3> QED
      BY ZenonT(60), <2>2, <3>1 DEF BootSlice, LinkParticipant, ClosedInv
  <2>3. CASE SendSlice(m)
    BY ZenonT(60), <2>3 DEF SendSlice, ClosedInv
  <2>4. CASE ReceiveSlice(m)
    BY ZenonT(60), <2>4 DEF ReceiveSlice, ClosedInv
  <2>5. CASE CloseSlice(m)
    <3>1. slice'.step = "close_mark"
      BY ZenonT(60), <2>5 DEF CloseSlice
    <3> QED
      BY ZenonT(60), <3>1 DEF ClosedInv
  <2> QED
    BY ZenonT(60), <1>5, <2>1, <2>2, <2>3, <2>4, <2>5 DEF Executes
<1>6. CASE ActorStep /\ ~ProcessNextCommand
  <2>1. CASE CloseMark
    BY ZenonT(60), <2>1 DEF CloseMark, MarkFinalized, ClosedInv
  <2>2. CASE CloseRelease
    BY ZenonT(60), <2>2 DEF CloseRelease, ClosedInv
  <2>3. CASE HandleParticipantExit
    <3>1. phase' = phase \/ phase' = "failed"
      BY ZenonT(60), <2>3, RecordExitFacts DEF HandleParticipantExit
    <3> QED
      BY ZenonT(60), <2>3, <3>1 DEF HandleParticipantExit, ClosedInv
  <2>4. CASE HandleWatcherExit
    <3>1. slice.step # "close_mark" /\ UNCHANGED <<phase, finalized>>
      BY ZenonT(60), <2>4, SliceMoves DEF HandleWatcherExit, Types, NoSlice
    <3> QED
      BY ZenonT(60), <3>1 DEF ClosedInv
  <2>5. CASE WatcherExitFails
    BY ZenonT(60), <2>5 DEF WatcherExitFails, ClosedInv
  <2>6. CASE WatcherExitMark
    BY ZenonT(60), <2>6 DEF WatcherExitMark, MarkFinalized, ClosedInv
  <2>7. CASE WatcherExitRelease
    BY ZenonT(60), <2>7 DEF WatcherExitRelease, ClosedInv
  <2> QED
    BY ZenonT(60), <1>6, <2>1, <2>2, <2>3, <2>4, <2>5, <2>6, <2>7 DEF ActorStep
<1>7. CASE ParticipantStep \/ RegisterExitNotifier \/ ActorCrash \/ ParticipantCrash \/
             WatcherKilled
  BY ZenonT(60), <1>1, <1>7 DEF ParticipantStep, RegisterExitNotifier, ActorCrash, ParticipantCrash,
     WatcherKilled, actor
<1>8. ASSUME NEW i \in 1..MaxSpawns, WatcherCleanup(i) PROVE ClosedInv'
  BY ZenonT(60), <1>1, <1>8 DEF WatcherCleanup, actor
<1>9. CASE UNCHANGED vars
  BY ZenonT(60), <1>1, <1>9 DEF vars, actor
<1> QED
  BY ZenonT(60), <1>2, <1>3, <1>4, <1>5, <1>6, <1>7, <1>8, <1>9, ProcessCases DEF Next, ActorStep

(* Nothing is parked beside a buffered reply, and no reply disappears.      *)
LEMMA LengthFacts ==
    ASSUME NEW q \in Seq(Nat), NEW x \in Nat
    PROVE  /\ Len(q) \in Nat /\ Len(Append(q, x)) = Len(q) + 1
           /\ q # <<>> => Len(Tail(q)) = Len(q) - 1 /\ Len(q) > 0
BY SMTT(60)

LEMMA HandoffStep ==
    ASSUME Types, DrainInv, ClosedInv, HandoffInv, [Next]_vars
    PROVE  HandoffInv'
<1>1. UNCHANGED <<pending, inbox, phase, produced, taken, dropped>> => HandoffInv'
  BY ZenonT(60) DEF HandoffInv
<1>2. ASSUME NEW c \in Callers, HostStep(c) PROVE HandoffInv'
  <2>1. CASE EnsureRefused(c) \/ EnsureLive(c) \/ EnsureSpawn(c) \/ Push(c) \/ PushRefused(c) \/
             WakeActor(c) \/ WakeFails(c) \/ BootWakeFails(c) \/ BootOk(c) \/ BootFails(c) \/
             TakeReply(c) \/ ReceiveTimesOut(c) \/ FinalizeMark(c) \/ FinalizeAgain(c)
    BY ZenonT(60), <1>1, <2>1 DEF EnsureRefused, EnsureLive, EnsureSpawn, SpawnActor, Push, PushRefused,
       Rollback, WakeActor, WakeFails, BootWakeFails, BootOk, BootFails, TakeReply,
       ReceiveTimesOut, FinalizeMark, FinalizeAgain, queues, history
  <2>2. CASE FinalizePhase(c)
    BY ZenonT(60), <2>2 DEF FinalizePhase, queues, history, HandoffInv
  <2>3. CASE FinalizeRelease(c)
    BY ZenonT(60), <2>3 DEF FinalizeRelease, history, HandoffInv
  <2> QED
    BY ZenonT(60), <1>2, <2>1, <2>2, <2>3 DEF HostStep
<1>3. ASSUME NEW c \in Callers, NEW kind \in Kinds, Begin(c, kind) PROVE HandoffInv'
  BY ZenonT(60), <1>1, <1>3 DEF Begin, queues, history
<1>4. CASE IdleWake
  BY ZenonT(60), <1>1, <1>4 DEF IdleWake
<1>5. ASSUME NEW m \in CommandRecords, Executes(m) PROVE HandoffInv'
  <2>1. CASE QuerySlice(m)
    BY ZenonT(60), <1>1, <1>5, <2>1 DEF QuerySlice, Executes, queues, history
  <2>2. CASE BootSlice(m)
    <3>1. /\ phase' = phase \/ phase' = "failed"
          /\ pending' = pending \/ pending' = <<>>
      BY ZenonT(60), <2>2, RecordExitFacts DEF BootSlice, LinkParticipant
    <3> QED
      BY ZenonT(60), <2>2, <3>1 DEF BootSlice, LinkParticipant, history, HandoffInv
  <2>3. CASE SendSlice(m)
    <3>1. /\ UNCHANGED <<inbox, pending, produced, taken, dropped>>
          /\ phase' # "failed" => phase # "failed"
      BY ZenonT(60), <2>3 DEF SendSlice, queues, Activatable
    <3> QED
      BY ZenonT(60), <3>1 DEF HandoffInv
  <2>4. CASE ReceiveSlice(m)
    <3>1. inbox' = (IF inbox = <<>> THEN inbox ELSE Tail(inbox)) /\ produced' = produced
      BY ZenonT(60), <2>4 DEF ReceiveSlice
    <3>2. CASE ~Activatable
      <4>1. phase # "closed"
        BY ZenonT(60), <1>5 DEF ClosedInv, DrainInv, Executes, NoSlice
      <4>2. phase = "failed"
        BY ZenonT(60), <3>2, <4>1 DEF Activatable, Types, TypePhase
      <4>3. phase' = phase /\ pending' = pending
        BY ZenonT(60), <2>4, <3>2 DEF ReceiveSlice
      <4> QED
        BY ZenonT(60), <3>1, <4>2, <4>3 DEF HandoffInv
    <3>3. CASE Activatable /\ inbox # <<>>
      <4>1. /\ pending' = pending
            /\ \/ taken' = Append(taken, Head(inbox)) /\ dropped' = dropped
               \/ dropped' = Append(dropped, Head(inbox)) /\ taken' = taken
        BY ZenonT(60), <2>4, <3>3 DEF ReceiveSlice, ReceiveHanded
      <4>2. phase # "failed" /\ pending = <<>>
        BY ZenonT(60), <3>3 DEF Activatable, HandoffInv
      <4>3. Head(inbox) \in Nat
        BY ZenonT(60), <3>3, ElementsFacts DEF Types, TypeReplies
      <4>4. Len(produced) = Len(inbox) + Len(taken) + Len(dropped)
        BY ZenonT(60), <4>2 DEF HandoffInv
      <4>5. /\ Len(taken) \in Nat /\ Len(dropped) \in Nat /\ Len(inbox) \in Nat /\ Len(inbox) > 0
            /\ Len(Append(taken, Head(inbox))) = Len(taken) + 1
            /\ Len(Append(dropped, Head(inbox))) = Len(dropped) + 1
            /\ Len(Tail(inbox)) = Len(inbox) - 1
        BY ZenonT(60), <3>3, <4>3, LengthFacts DEF Types, TypeReplies
      <4>6. Len(produced') = Len(inbox') + Len(taken') + Len(dropped')
        BY SMTT(60), <3>1, <3>3, <4>1, <4>4, <4>5
      <4> QED
        BY ZenonT(60), <4>1, <4>2, <4>6 DEF HandoffInv
    <3>4. CASE Activatable /\ inbox = <<>>
      <4>1. UNCHANGED <<taken, dropped, inbox, produced>>
        BY ZenonT(60), <2>4, <3>1, <3>4 DEF ReceiveSlice
      <4> QED
        BY ZenonT(60), <3>4, <4>1 DEF HandoffInv, Activatable
    <3> QED
      BY ZenonT(60), <3>2, <3>3, <3>4
  <2>5. CASE CloseSlice(m)
    BY ZenonT(60), <2>5 DEF CloseSlice, queues, history, HandoffInv
  <2> QED
    BY ZenonT(60), <1>5, <2>1, <2>2, <2>3, <2>4, <2>5 DEF Executes
<1>6. CASE ActorStep /\ ~ProcessNextCommand
  <2>1. CASE CloseMark \/ HandleWatcherExit \/ WatcherExitMark
    BY ZenonT(60), <1>1, <2>1 DEF CloseMark, HandleWatcherExit, WatcherExitMark, StopSelf, queues, history
  <2>2. CASE CloseRelease
    BY ZenonT(60), <2>2 DEF CloseRelease, history, HandoffInv
  <2>3. CASE HandleParticipantExit
    <3>1. /\ phase' = phase \/ phase' = "failed"
          /\ pending' = pending \/ pending' = <<>>
      BY ZenonT(60), <2>3, RecordExitFacts DEF HandleParticipantExit
    <3> QED
      BY ZenonT(60), <2>3, <3>1 DEF HandleParticipantExit, history, HandoffInv
  <2>4. CASE WatcherExitFails
    BY ZenonT(60), <2>4 DEF WatcherExitFails, queues, history, HandoffInv
  <2>5. CASE WatcherExitRelease
    BY ZenonT(60), <2>5 DEF WatcherExitRelease, history, HandoffInv
  <2> QED
    BY ZenonT(60), <1>6, <2>1, <2>2, <2>3, <2>4, <2>5 DEF ActorStep
<1>7. CASE RegisterExitNotifier \/ ActorCrash \/ ParticipantCrash \/ WatcherKilled
  BY ZenonT(60), <1>1, <1>7 DEF RegisterExitNotifier, ActorCrash, ParticipantCrash, WatcherKilled, queues,
     history
<1>8. CASE ParticipantStep
  <2>1. CASE ~part.registered \/ requests = <<>>
    BY ZenonT(60), <1>1, <1>8, <2>1 DEF ParticipantStep, queues
  <2>2. CASE part.registered /\ requests # <<>>
    <3> DEFINE r == Head(requests)
    <3>1. produced' = Append(produced, r) /\ DeliverLocalReply(r) /\ phase' = phase
      BY ZenonT(60), <1>8, <2>2 DEF ParticipantStep
    <3>2. r \in Nat
      BY ZenonT(60), <2>2, ElementsFacts DEF Types, TypeReplies
    <3>3. /\ Len(produced') = Len(produced) + 1 /\ Len(Append(inbox, r)) = Len(inbox) + 1
          /\ Len(Append(taken, r)) = Len(taken) + 1 /\ Len(Append(dropped, r)) = Len(dropped) + 1
          /\ Len(produced) \in Nat /\ Len(inbox) \in Nat /\ Len(taken) \in Nat
          /\ Len(dropped) \in Nat
      BY ZenonT(60), <3>1, <3>2, LengthFacts DEF Types, TypeReplies
    <3> HIDE DEF r
    <3>4. CASE pending = <<>>
      <4>1. inbox' = Append(inbox, r) /\ UNCHANGED <<pending, taken, dropped>>
        BY ZenonT(60), <3>1, <3>2, <3>4, DeliverFacts
      <4>2. phase # "failed" => Len(produced') = Len(inbox') + Len(taken') + Len(dropped')
        BY SMTT(60), <3>3, <4>1 DEF HandoffInv
      <4> QED
        BY ZenonT(60), <3>1, <3>4, <4>1, <4>2 DEF HandoffInv
    <3>5. CASE pending # <<>>
      <4>1. /\ inbox' = inbox /\ inbox = <<>>
            /\ \/ taken' = Append(taken, r) /\ dropped' = dropped
               \/ dropped' = Append(dropped, r) /\ taken' = taken
        BY ZenonT(60), <3>1, <3>2, <3>5, DeliverFacts DEF HandoffInv
      <4>2. phase # "failed" => Len(produced') = Len(inbox') + Len(taken') + Len(dropped')
        BY SMTT(60), <3>3, <4>1 DEF HandoffInv
      <4> QED
        BY ZenonT(60), <3>1, <4>1, <4>2 DEF HandoffInv
    <3> QED
      BY ZenonT(60), <3>4, <3>5
  <2> QED
    BY ZenonT(60), <2>1, <2>2
<1>9. ASSUME NEW i \in 1..MaxSpawns, WatcherCleanup(i) PROVE HandoffInv'
  BY ZenonT(60), <1>1, <1>9 DEF WatcherCleanup, queues, history
<1>10. CASE UNCHANGED vars
  BY ZenonT(60), <1>1, <1>10 DEF vars, queues, history
<1> QED
  BY ZenonT(60), <1>2, <1>3, <1>4, <1>5, <1>6, <1>7, <1>8, <1>9, <1>10, ProcessCases DEF Next, ActorStep

(***************************************************************************)
(* Replies are handed over in the order of the sends.                      *)
(***************************************************************************)
Below(s, x) == \A i \in DOMAIN s : s[i] < x
Above(s, x) == \A i \in DOMAIN s : x < s[i]

LEMMA TailOrder ==
    ASSUME NEW q \in Seq(Nat), q # <<>>
    PROVE  /\ Increasing(q) => Increasing(Tail(q)) /\ Above(Tail(q), Head(q))
           /\ \A n \in Nat : Upto(q, n) => Upto(Tail(q), n) /\ Head(q) <= n
           /\ \A t \in Seq(Nat) : Precedes(t, q) => Precedes(t, Tail(q)) /\ Below(t, Head(q))
           /\ \A t \in Seq(Nat) : Precedes(q, t) => Precedes(Tail(q), t) /\ Above(t, Head(q))
<1>1. /\ Len(q) \in Nat /\ Len(q) >= 1 /\ DOMAIN q = 1..Len(q) /\ Head(q) = q[1]
      /\ DOMAIN Tail(q) = 1..(Len(q) - 1) /\ \A i \in 1..(Len(q) - 1) : Tail(q)[i] = q[i + 1]
  BY SMTT(60)
<1>2. \A i \in DOMAIN Tail(q) : i + 1 \in DOMAIN q /\ Tail(q)[i] = q[i + 1] /\ 1 < i + 1
  BY SMTT(60), <1>1
<1>3. 1 \in DOMAIN q /\ \A i, j \in DOMAIN Tail(q) : i < j => i + 1 < j + 1
  BY SMTT(60), <1>1
<1>4. Increasing(q) => Increasing(Tail(q)) /\ Above(Tail(q), Head(q))
  BY ZenonT(60), <1>1, <1>2, <1>3 DEF Increasing, Above
<1>5. \A n \in Nat : Upto(q, n) => Upto(Tail(q), n) /\ Head(q) <= n
  BY ZenonT(60), <1>1, <1>2, <1>3 DEF Upto
<1>6. \A t \in Seq(Nat) : Precedes(t, q) => Precedes(t, Tail(q)) /\ Below(t, Head(q))
  BY ZenonT(60), <1>1, <1>2, <1>3 DEF Precedes, Below
<1>7. \A t \in Seq(Nat) : Precedes(q, t) => Precedes(Tail(q), t) /\ Above(t, Head(q))
  BY ZenonT(60), <1>1, <1>2, <1>3 DEF Precedes, Above
<1> QED
  BY ZenonT(60), <1>4, <1>5, <1>6, <1>7

LEMMA AppendOrder ==
    ASSUME NEW q \in Seq(Nat), NEW x \in Nat
    PROVE  /\ Increasing(q) /\ Below(q, x) => Increasing(Append(q, x))
           /\ \A n \in Nat : Upto(q, n) /\ x <= n => Upto(Append(q, x), n)
           /\ \A t \in Seq(Nat) : Precedes(t, q) /\ Below(t, x) => Precedes(t, Append(q, x))
           /\ \A t \in Seq(Nat) : Precedes(q, t) /\ Above(t, x) => Precedes(Append(q, x), t)
<1>1. PICK a : a = Append(q, x)
  BY ZenonT(60)
<1>2. /\ Len(q) \in Nat /\ DOMAIN q = 1..Len(q) /\ DOMAIN a = 1..(Len(q) + 1)
      /\ (\A i \in 1..Len(q) : a[i] = q[i]) /\ a[Len(q) + 1] = x
  BY SMTT(60), <1>1
<1>3. \A i \in DOMAIN a : (i \in DOMAIN q /\ a[i] = q[i]) \/ a[i] = x
  <2>1. \A i \in 1..(Len(q) + 1) : i \in 1..Len(q) \/ i = Len(q) + 1
    BY SMTT(60), <1>2
  <2> QED
    BY ZenonT(60), <1>2, <2>1
<1>4. Increasing(q) /\ Below(q, x) => Increasing(a)
  <2> SUFFICES ASSUME Increasing(q), Below(q, x), NEW i \in DOMAIN a, NEW j \in DOMAIN a, i < j
               PROVE  a[i] < a[j]
    BY ZenonT(60) DEF Increasing
  <2>1. i \in DOMAIN q /\ a[i] = q[i]
    BY SMTT(60), <1>2
  <2>2. CASE j \in DOMAIN q /\ a[j] = q[j]
    BY ZenonT(60), <2>1, <2>2 DEF Increasing
  <2>3. CASE a[j] = x
    BY ZenonT(60), <2>1, <2>3 DEF Below
  <2> QED
    BY ZenonT(60), <1>3, <2>2, <2>3
<1>5. \A n \in Nat : Upto(q, n) /\ x <= n => Upto(a, n)
  BY ZenonT(60), <1>3 DEF Upto
<1>6. \A t \in Seq(Nat) : Precedes(t, q) /\ Below(t, x) => Precedes(t, a)
  BY ZenonT(60), <1>3 DEF Precedes, Below
<1>7. \A t \in Seq(Nat) : Precedes(q, t) /\ Above(t, x) => Precedes(a, t)
  BY ZenonT(60), <1>3 DEF Precedes, Above
<1> QED
  BY ZenonT(60), <1>1, <1>4, <1>5, <1>6, <1>7

LEMMA UptoGrows ==
    ASSUME NEW q \in Seq(Nat), NEW n \in Nat, Upto(q, n)
    PROVE  Upto(q, n + 1) /\ Below(q, n + 1)
<1>1. \A i \in DOMAIN q : q[i] \in Nat
  BY SMTT(60)
<1> QED
  BY SMTT(60), <1>1 DEF Upto, Below

LEMMA OrderStep ==
    ASSUME Types, HandoffInv, OrderInv, [Next]_vars
    PROVE  OrderInv'
<1>1. UNCHANGED <<taken, inbox, requests, sent>> => OrderInv'
  BY ZenonT(60) DEF OrderInv, Increasing, Precedes, Upto
<1>2. ASSUME NEW c \in Callers, HostStep(c) PROVE OrderInv'
  <2>1. CASE EnsureRefused(c) \/ EnsureLive(c) \/ EnsureSpawn(c) \/ Push(c) \/ PushRefused(c) \/
             WakeActor(c) \/ WakeFails(c) \/ BootWakeFails(c) \/ BootOk(c) \/ BootFails(c) \/
             TakeReply(c) \/ ReceiveTimesOut(c) \/ FinalizeMark(c) \/ FinalizeAgain(c) \/
             FinalizePhase(c) \/ FinalizeRelease(c)
    BY ZenonT(60), <1>1, <2>1 DEF EnsureRefused, EnsureLive, EnsureSpawn, SpawnActor, Push, PushRefused,
       Rollback, WakeActor, WakeFails, BootWakeFails, BootOk, BootFails, TakeReply,
       ReceiveTimesOut, FinalizeMark, FinalizeAgain, FinalizePhase, FinalizeRelease, people,
       queues, history
  <2> QED
    BY ZenonT(60), <1>2, <2>1 DEF HostStep
<1>3. ASSUME NEW c \in Callers, NEW kind \in Kinds, Begin(c, kind) PROVE OrderInv'
  BY ZenonT(60), <1>1, <1>3 DEF Begin, people, queues, history
<1>4. CASE IdleWake
  BY ZenonT(60), <1>1, <1>4 DEF IdleWake
<1>5. ASSUME NEW m \in CommandRecords, Executes(m) PROVE OrderInv'
  <2>1. CASE BootSlice(m) \/ QuerySlice(m) \/ CloseSlice(m)
    BY ZenonT(60), <1>1, <1>5, <2>1 DEF BootSlice, LinkParticipant, QuerySlice, CloseSlice, Executes, people, queues, history
  <2>2. CASE SendSlice(m)
    <3>1. /\ UNCHANGED <<inbox, taken>>
          /\ \/ sent' = sent /\ requests' = requests
             \/ sent' = sent + 1 /\ requests' = requests
             \/ sent' = sent + 1 /\ requests' = Append(requests, sent + 1)
      BY ZenonT(60), <2>2 DEF SendSlice, queues
    <3>2. CASE sent' = sent /\ requests' = requests
      BY ZenonT(60), <1>1, <3>1, <3>2
    <3>3. CASE sent' = sent + 1
      <4>1. sent + 1 \in Nat /\ sent + 1 <= sent + 1
        BY SMTT(60) DEF Types, TypeReplies
      <4>2. /\ Upto(taken, sent + 1) /\ Upto(inbox, sent + 1) /\ Upto(requests, sent + 1)
            /\ Below(taken, sent + 1) /\ Below(inbox, sent + 1) /\ Below(requests, sent + 1)
        BY ZenonT(60), UptoGrows DEF Types, TypeReplies, OrderInv
      <4>3. PICK q : q = Append(requests, sent + 1)
        BY ZenonT(60)
      <4>4. Increasing(q) /\ Precedes(taken, q) /\ Precedes(inbox, q) /\ Upto(q, sent + 1)
        BY ZenonT(60), <4>1, <4>2, <4>3, AppendOrder DEF Types, TypeReplies, OrderInv
      <4> QED
        BY ZenonT(60), <3>1, <3>3, <4>2, <4>3, <4>4 DEF OrderInv
    <3> QED
      BY ZenonT(60), <3>1, <3>2, <3>3
  <2>3. CASE ReceiveSlice(m)
    <3>1. /\ inbox' = IF inbox = <<>> THEN inbox ELSE Tail(inbox)
          /\ taken' = taken \/ (inbox # <<>> /\ taken' = Append(taken, Head(inbox)))
          /\ UNCHANGED <<requests, sent>>
      BY ZenonT(60), <2>3 DEF ReceiveSlice, ReceiveHanded, people
    <3>2. CASE inbox = <<>>
      BY ZenonT(60), <1>1, <3>1, <3>2
    <3>3. CASE inbox # <<>>
      <4>1. Head(inbox) \in Nat /\ Tail(inbox) \in Seq(Nat)
        BY ZenonT(60), <3>3, ElementsFacts DEF Types, TypeReplies
      <4>2. /\ Increasing(Tail(inbox)) /\ Above(Tail(inbox), Head(inbox))
            /\ Upto(Tail(inbox), sent) /\ Head(inbox) <= sent
            /\ Precedes(taken, Tail(inbox)) /\ Below(taken, Head(inbox))
            /\ Precedes(Tail(inbox), requests) /\ Above(requests, Head(inbox))
        BY ZenonT(60), <3>3, TailOrder DEF Types, TypeReplies, OrderInv
      <4>3. PICK q : q = Append(taken, Head(inbox))
        BY ZenonT(60)
      <4>4. /\ Increasing(q) /\ Upto(q, sent)
            /\ Precedes(q, Tail(inbox)) /\ Precedes(q, requests)
        BY ZenonT(60), <4>1, <4>2, <4>3, AppendOrder DEF Types, TypeReplies, OrderInv
      <4> QED
        BY ZenonT(60), <3>1, <3>3, <4>2, <4>3, <4>4 DEF OrderInv
    <3> QED
      BY ZenonT(60), <3>2, <3>3
  <2> QED
    BY ZenonT(60), <1>5, <2>1, <2>2, <2>3 DEF Executes
<1>6. CASE ActorStep /\ ~ProcessNextCommand
  <2>1. CASE CloseMark \/ CloseRelease \/ HandleParticipantExit \/ HandleWatcherExit \/
             WatcherExitFails \/ WatcherExitMark \/ WatcherExitRelease
    BY ZenonT(60), <1>1, <2>1 DEF CloseMark, CloseRelease, StopSelf, HandleParticipantExit,
       HandleWatcherExit, WatcherExitFails, WatcherExitMark, WatcherExitRelease, people, queues,
       history
  <2> QED
    BY ZenonT(60), <1>6, <2>1 DEF ActorStep
<1>7. CASE RegisterExitNotifier \/ ActorCrash \/ ParticipantCrash \/ WatcherKilled
  BY ZenonT(60), <1>1, <1>7 DEF RegisterExitNotifier, ActorCrash, ParticipantCrash, WatcherKilled, people,
     queues, history
<1>8. CASE ParticipantStep
  <2>1. CASE ~part.registered \/ requests = <<>>
    BY ZenonT(60), <1>1, <1>8, <2>1 DEF ParticipantStep, queues
  <2>2. CASE part.registered /\ requests # <<>>
    <3> DEFINE r == Head(requests)
    <3>1. requests' = Tail(requests) /\ DeliverLocalReply(r) /\ sent' = sent
      BY ZenonT(60), <1>8, <2>2 DEF ParticipantStep
    <3>2. r \in Nat /\ Tail(requests) \in Seq(Nat)
      BY ZenonT(60), <2>2, ElementsFacts DEF Types, TypeReplies
    <3>3. /\ Increasing(Tail(requests)) /\ Above(Tail(requests), r)
          /\ Upto(Tail(requests), sent) /\ r <= sent
          /\ Precedes(taken, Tail(requests)) /\ Below(taken, r)
          /\ Precedes(inbox, Tail(requests)) /\ Below(inbox, r)
      BY ZenonT(60), <2>2, TailOrder DEF Types, TypeReplies, OrderInv
    <3>4. PICK a : a = Append(taken, r)
      BY ZenonT(60)
    <3>5. PICK b : b = Append(inbox, r)
      BY ZenonT(60)
    <3>6. /\ Increasing(a) /\ Upto(a, sent) /\ Precedes(a, Tail(requests))
          /\ Increasing(b) /\ Upto(b, sent) /\ Precedes(b, Tail(requests)) /\ Precedes(taken, b)
      BY ZenonT(60), <3>2, <3>3, <3>4, <3>5, AppendOrder DEF Types, TypeReplies, OrderInv
    <3>7. CASE pending = <<>>
      <4>1. inbox' = b /\ taken' = taken
        BY ZenonT(60), <3>1, <3>2, <3>5, <3>7, DeliverFacts
      <4> QED
        BY ZenonT(60), <3>1, <3>3, <3>6, <4>1 DEF OrderInv
    <3>8. CASE pending # <<>>
      <4>1. inbox' = inbox /\ taken' \in {taken, a} /\ inbox = <<>>
        BY ZenonT(60), <3>1, <3>2, <3>4, <3>8, DeliverFacts DEF HandoffInv
      <4>2. Precedes(taken', inbox)
        BY SMTT(60), <4>1 DEF Precedes
      <4> QED
        BY ZenonT(60), <3>1, <3>3, <3>6, <4>1, <4>2 DEF OrderInv
    <3> QED
      BY ZenonT(60), <3>7, <3>8
  <2> QED
    BY ZenonT(60), <2>1, <2>2
<1>9. ASSUME NEW i \in 1..MaxSpawns, WatcherCleanup(i) PROVE OrderInv'
  BY ZenonT(60), <1>1, <1>9 DEF WatcherCleanup, people, queues, history
<1>10. CASE UNCHANGED vars
  BY ZenonT(60), <1>1, <1>10 DEF vars, people, queues, history
<1> QED
  BY ZenonT(60), <1>2, <1>3, <1>4, <1>5, <1>6, <1>7, <1>8, <1>9, <1>10, ProcessCases DEF Next, ActorStep

(***************************************************************************)
(* Whose is a command, a parked receive, a close.                          *)
(***************************************************************************)
CloseSteps == {"close_mark", "close_release"}

(* No caller starts to wait, and one that goes on waiting keeps its id.     *)
NoNewWait ==
    \A d \in Callers : call'[d].pc \in Waiting =>
        /\ Waits(d) /\ call'[d].id = call[d].id
        /\ call'[d].pc \in Booting <=> call[d].pc \in Booting

(* What is parked or being closed was so before, or was a queued command.   *)
Handed(id, caller) == \E m \in Elements(commands) : m.kind # "boot" /\ id = m.id /\ caller = m.caller
NoNewWork ==
    /\ nextId' = nextId /\ Elements(commands') \subseteq Elements(commands)
    /\ \A w \in Elements(pending') : w \in Elements(pending) \/ Handed(w.id, w.caller)
    /\ \/ slice' = slice \/ slice'.id = 0
       \/ /\ slice'.step \in CloseSteps
          /\ \/ slice'.id = slice.id /\ slice'.caller = slice.caller
             \/ Handed(slice'.id, slice'.caller)

IdentInv == IdInv /\ OwnerInv

LEMMA IdentKeeps ==
    ASSUME Types, IdentInv, NoNewWait, NoNewWork
    PROVE  IdentInv'
<1> USE DEF IdentInv
<1>1. \A x : Issued(x, nextId) => Issued(x, nextId')
  BY ZenonT(60) DEF Issued, NoNewWork
<1>2. \A x, k : Handed(x, k) => Issued(x, nextId)
  BY ZenonT(60) DEF Handed, IdInv
<1>3. \A m \in Elements(commands') : Issued(m.id, nextId')
  BY ZenonT(60), <1>1 DEF NoNewWork, IdInv
<1>4. \A w \in Elements(pending') : Issued(w.id, nextId')
  BY ZenonT(60), <1>1, <1>2 DEF NoNewWork, IdInv
<1>5. slice'.id # 0 => Issued(slice'.id, nextId') /\ slice'.step \in {"close_mark", "close_release"}
  <2>1. CASE slice' = slice
    BY ZenonT(60), <1>1, <2>1 DEF IdInv
  <2>2. CASE slice'.step \in CloseSteps /\ slice'.id = slice.id
    BY ZenonT(60), <1>1, <2>2 DEF IdInv, CloseSteps
  <2>3. CASE slice'.step \in CloseSteps /\ Handed(slice'.id, slice'.caller)
    BY ZenonT(60), <1>1, <1>2, <2>3 DEF CloseSteps
  <2> QED
    BY ZenonT(60), <2>1, <2>2, <2>3 DEF NoNewWork
<1>6. \A c \in Callers : Waits(c)' => Issued(call'[c].id, nextId')
  BY ZenonT(60), <1>1 DEF NoNewWait, Waits, IdInv
<1>7. \A c, d \in Callers : Waits(c)' /\ Waits(d)' /\ call'[c].id = call'[d].id => c = d
  BY ZenonT(60) DEF NoNewWait, Waits, IdInv
<1>8. IdInv'
  <2>1. nextId' > 0
    BY ZenonT(60) DEF IdInv, NoNewWork
  <2> QED
    BY ZenonT(60), <1>3, <1>4, <1>5, <1>6, <1>7, <2>1 DEF IdInv
<1>9. ASSUME NEW c \in Callers, Waits(c)'
      PROVE  /\ \A m \in Elements(commands') : m.id = call'[c].id =>
                   m.caller = c /\ (m.kind = "boot" <=> call'[c].pc \in Booting)
             /\ \A w \in Elements(pending') : w.id = call'[c].id =>
                   w.caller = c /\ call'[c].pc \notin Booting
             /\ slice'.id = call'[c].id => slice'.caller = c /\ call'[c].pc \notin Booting
  <2>1. /\ Waits(c) /\ call'[c].id = call[c].id
        /\ call'[c].pc \in Booting <=> call[c].pc \in Booting
    BY ZenonT(60), <1>9 DEF NoNewWait, Waits
  <2>2. \A k : Handed(call[c].id, k) => k = c /\ call[c].pc \notin Booting
    BY ZenonT(60), <2>1 DEF Handed, OwnerInv
  <2>3. \A m \in Elements(commands') : m.id = call'[c].id =>
           m.caller = c /\ (m.kind = "boot" <=> call'[c].pc \in Booting)
    BY SMTT(60), <2>1 DEF OwnerInv, NoNewWork
  <2>4. \A w \in Elements(pending') : w.id = call'[c].id =>
           w.caller = c /\ call'[c].pc \notin Booting
    BY SMTT(60), <2>1, <2>2 DEF OwnerInv, NoNewWork
  <2>5. call[c].id # 0
    BY SMTT(60), <2>1 DEF IdInv, Issued, Types, TypeCommands
  <2>6. slice'.id = call'[c].id => slice'.caller = c /\ call'[c].pc \notin Booting
    BY SMTT(60), <2>1, <2>2, <2>5 DEF OwnerInv, NoNewWork
  <2> QED
    BY ZenonT(60), <2>3, <2>4, <2>6
<1>10. OwnerInv'
  BY ZenonT(60), <1>9 DEF OwnerInv
<1> QED
  BY ZenonT(60), <1>8, <1>10

LEMMA NoNewWaits ==
    ASSUME Types
    PROVE  /\ UNCHANGED call => NoNewWait
           /\ \A c \in Callers : Leaves(c) => NoNewWait
           /\ \A c \in Callers : \A p, i : Moved(c, p, i) /\ p \notin Waiting => NoNewWait
           /\ \A c \in Callers : WakeActor(c) => NoNewWait
<1>1. UNCHANGED call => NoNewWait
  BY ZenonT(60) DEF NoNewWait, Waits
<1>2. \A c \in Callers : \A p, i : Moved(c, p, i) /\ p \notin Waiting => NoNewWait
  BY ZenonT(60) DEF Moved, NoNewWait, Waits
<1>3. \A c \in Callers : Leaves(c) => NoNewWait
  <2>1. "idle" \notin Waiting /\ "push" \notin Waiting
    BY ZenonT(60) DEF Waiting
  <2> QED
    BY ZenonT(60), <1>2, <2>1 DEF Leaves
<1>4. ASSUME NEW c \in Callers, WakeActor(c) PROVE NoNewWait
  <2>1. /\ Moved(c, IF call[c].pc = "wake" THEN "wait" ELSE "boot_wait", call[c].id)
        /\ call[c].pc \in {"wake", "boot_wake"}
    BY ZenonT(60), <1>4, HostMoves DEF WakeActor
  <2>2. /\ call'[c].id = call[c].id /\ \A d \in Callers : d # c => call'[d] = call[d]
        /\ \/ call[c].pc = "wake" /\ call'[c].pc = "wait"
           \/ call[c].pc = "boot_wake" /\ call'[c].pc = "boot_wait"
    BY ZenonT(60), <2>1 DEF Moved
  <2>3. Waits(c) /\ (call'[c].pc \in Booting <=> call[c].pc \in Booting)
    BY ZenonT(60), <2>2 DEF Waits, Waiting, Booting
  <2> QED
    BY ZenonT(60), <2>2, <2>3 DEF NoNewWait, Waits
<1> QED
  BY ZenonT(60), <1>1, <1>2, <1>3, <1>4

(* The queue after a pop.                                                  *)
LEMMA PopFacts ==
    ASSUME Types, NEW m \in CommandRecords, Executes(m)
    PROVE  /\ m \in Elements(commands) /\ nextId' = nextId /\ NoNewWait
           /\ Elements(commands') \subseteq Elements(commands)
           /\ Elements(commands) = {m} \cup Elements(commands')
<1>1. /\ commands \in Seq(CommandRecords) /\ commands # <<>> /\ m = Head(commands)
      /\ commands' = Tail(commands) /\ UNCHANGED <<call, nextId>>
  BY ZenonT(60) DEF Types, TypeCommands, Executes
<1>2. Head(commands) \in Elements(commands) /\ Elements(commands) = {m} \cup Elements(commands')
  BY ZenonT(60), <1>1, ElementsFacts
<1> QED
  BY ZenonT(60), <1>1, <1>2, NoNewWaits

LEMMA EmptyFacts == Elements(<<>>) = {}
BY SMTT(60) DEF Elements

LEMMA PushIdent ==
    ASSUME Types, IdentInv, NEW c \in Callers, Push(c)
    PROVE  IdentInv'
<1> USE DEF IdentInv
<1> DEFINE k == IF call[c].pc = "push" THEN call[c].kind ELSE "boot"
           m == [id |-> nextId, caller |-> c, kind |-> k]
<1>1. /\ nextId \in Nat /\ nextId > 0 /\ nextId' = nextId + 1 /\ UNCHANGED <<pending, slice>>
      /\ call[c].pc \in {"push", "boot_push"}
  BY ZenonT(60) DEF Push, Types, TypeCommands, IdInv, actor, queues
<1>2. m \in CommandRecords /\ m.id = nextId /\ m.caller = c
      /\ (m.kind = "boot" <=> call[c].pc = "boot_push")
  BY ZenonT(60), <1>1 DEF CommandRecords, CallRecords, Types, TypeCall, AllKinds
<1>3. commands' = Append(commands, m)
  BY ZenonT(60) DEF Push
<1>4. Elements(commands') = Elements(commands) \cup {m}
  <2> HIDE DEF m
  <2> QED
    BY SMTT(60), <1>2, <1>3, ElementsFacts DEF Types, TypeCommands
<1> HIDE DEF m, k
<1>5. \A x : Issued(x, nextId) => Issued(x, nextId') /\ x # nextId /\ x # 0
  BY SMTT(60), <1>1 DEF Issued
<1>6. Issued(nextId, nextId')
  BY SMTT(60), <1>1 DEF Issued
<1>7. /\ call'[c].id = nextId /\ \A d \in Callers : d # c => call'[d] = call[d]
      /\ call'[c].pc \in Booting <=> call[c].pc = "boot_push"
  <2>1. Moved(c, IF call[c].pc = "push" THEN "wake" ELSE "boot_wake", nextId)
    BY ZenonT(60), HostMoves
  <2> QED
    BY ZenonT(60), <1>1, <2>1 DEF Moved, Booting
<1>8. \A d \in Callers : Waits(d)' => d = c \/ (Waits(d) /\ call'[d] = call[d])
  BY ZenonT(60), <1>7 DEF Waits
<1>9. IdInv'
  <2>1. nextId' > 0
    BY SMTT(60), <1>1
  <2>2. \A n \in Elements(commands') : Issued(n.id, nextId')
    BY ZenonT(60), <1>2, <1>4, <1>5, <1>6 DEF IdInv
  <2>3. \A w \in Elements(pending') : Issued(w.id, nextId')
    BY ZenonT(60), <1>1, <1>5 DEF IdInv
  <2>4. slice'.id # 0 => Issued(slice'.id, nextId') /\ slice'.step \in {"close_mark", "close_release"}
    BY ZenonT(60), <1>1, <1>5 DEF IdInv
  <2>5. \A d \in Callers : Waits(d)' => Issued(call'[d].id, nextId')
    BY ZenonT(60), <1>5, <1>6, <1>7, <1>8 DEF IdInv
  <2>6. \A d, e \in Callers : Waits(d)' /\ Waits(e)' /\ call'[d].id = call'[e].id => d = e
    BY SMTT(60), <1>5, <1>7, <1>8 DEF IdInv
  <2> QED
    BY ZenonT(60), <2>1, <2>2, <2>3, <2>4, <2>5, <2>6 DEF IdInv
<1>10. ASSUME NEW d \in Callers, Waits(d)'
       PROVE  /\ \A n \in Elements(commands') : n.id = call'[d].id =>
                    n.caller = d /\ (n.kind = "boot" <=> call'[d].pc \in Booting)
              /\ \A w \in Elements(pending') : w.id = call'[d].id =>
                    w.caller = d /\ call'[d].pc \notin Booting
              /\ slice'.id = call'[d].id => slice'.caller = d /\ call'[d].pc \notin Booting
  <2>1. CASE d = c
    <3>1. \A n \in Elements(commands') : n.id = nextId => n = m
      BY ZenonT(60), <1>4, <1>5 DEF IdInv
    <3>2. (\A w \in Elements(pending') : w.id # nextId) /\ slice'.id # nextId
      BY SMTT(60), <1>1, <1>5 DEF IdInv
    <3> QED
      BY ZenonT(60), <1>2, <1>7, <2>1, <3>1, <3>2
  <2>2. CASE d # c
    <3>1. Waits(d) /\ call'[d] = call[d] /\ call[d].id # nextId
      BY ZenonT(60), <1>5, <1>8, <1>10, <2>2 DEF IdInv
    <3> QED
      BY SMTT(60), <1>1, <1>2, <1>4, <3>1 DEF OwnerInv
  <2> QED
    BY ZenonT(60), <2>1, <2>2
<1> QED
  BY ZenonT(60), <1>9, <1>10 DEF OwnerInv

LEMMA IdentStep ==
    ASSUME Types, IdentInv, [Next]_vars
    PROVE  IdentInv'
<1>1. UNCHANGED <<nextId, commands, pending, slice, call>> => IdentInv'
  BY SMTT(60) DEF IdentInv, IdInv, OwnerInv, Issued, Waits
<1>2. ASSUME NEW c \in Callers, HostStep(c) PROVE IdentInv'
  <2>0. call[c].id \in Nat
    BY ZenonT(60) DEF Types, TypeCall, CallRecords
  <2>1. CASE EnsureRefused(c)
    <3>1. UNCHANGED <<nextId, commands, pending, slice>>
      BY ZenonT(60), <2>1 DEF EnsureRefused, actor, queues
    <3> QED
      BY ZenonT(60), <2>1, <3>1, HostLeaves, NoNewWaits, IdentKeeps DEF NoNewWork
  <2>2. CASE EnsureLive(c)
    <3>1. Moved(c, "push", call[c].id) /\ "push" \notin Waiting
      BY ZenonT(60), <2>2, HostMoves DEF Waiting
    <3>2. UNCHANGED <<nextId, commands, pending, slice>>
      BY ZenonT(60), <2>2 DEF EnsureLive, actor, queues
    <3> QED
      BY ZenonT(60), <3>1, <3>2, NoNewWaits, IdentKeeps DEF NoNewWork
  <2>3. CASE EnsureSpawn(c)
    <3>1. Moved(c, "boot_push", call[c].id) /\ "boot_push" \notin Waiting
      BY ZenonT(60), <2>3, HostMoves DEF Waiting
    <3>2. UNCHANGED <<nextId, commands, pending, slice>>
      BY ZenonT(60), <2>3 DEF EnsureSpawn, SpawnActor, queues
    <3> QED
      BY ZenonT(60), <3>1, <3>2, NoNewWaits, IdentKeeps DEF NoNewWork
  <2>4. CASE Push(c)
    BY ZenonT(60), <2>4, PushIdent
  <2>5. CASE PushRefused(c)
    <3>1. UNCHANGED <<nextId, commands, pending, slice>>
      BY ZenonT(60), <2>5 DEF PushRefused, Rollback, actor, queues
    <3> QED
      BY ZenonT(60), <2>5, <3>1, HostLeaves, NoNewWaits, IdentKeeps DEF NoNewWork
  <2>6. CASE WakeActor(c)
    <3>1. UNCHANGED <<nextId, commands, pending, slice>>
      BY ZenonT(60), <2>6 DEF WakeActor, queues
    <3> QED
      BY ZenonT(60), <2>6, <3>1, NoNewWaits, IdentKeeps DEF NoNewWork
  <2>7. CASE WakeFails(c)
    <3>1. commands' = Without(call[c].id) /\ UNCHANGED <<nextId, pending, slice>>
      BY ZenonT(60), <2>7 DEF WakeFails, actor, queues
    <3>2. Elements(commands') \subseteq Elements(commands)
      BY ZenonT(60), <2>0, <3>1, WithoutFacts DEF Types
    <3> QED
      BY ZenonT(60), <2>7, <3>1, <3>2, HostLeaves, NoNewWaits, IdentKeeps DEF NoNewWork
  <2>8. CASE BootWakeFails(c)
    <3>1. commands' = Without(call[c].id) /\ UNCHANGED <<nextId, pending, slice>>
      BY ZenonT(60), <2>8 DEF BootWakeFails, Rollback, actor, queues
    <3>2. Elements(commands') \subseteq Elements(commands)
      BY ZenonT(60), <2>0, <3>1, WithoutFacts DEF Types
    <3> QED
      BY ZenonT(60), <2>8, <3>1, <3>2, HostLeaves, NoNewWaits, IdentKeeps DEF NoNewWork
  <2>9. CASE BootOk(c)
    <3>1. UNCHANGED <<nextId, commands, pending, slice>>
      BY ZenonT(60), <2>9 DEF BootOk, Rollback, actor, queues
    <3> QED
      BY ZenonT(60), <2>9, <3>1, HostLeaves, NoNewWaits, IdentKeeps DEF NoNewWork
  <2>10. CASE BootFails(c)
    <3>1. commands' = Without(call[c].id) /\ UNCHANGED <<nextId, pending, slice>>
      BY ZenonT(60), <2>10 DEF BootFails, Rollback, actor, queues
    <3>2. Elements(commands') \subseteq Elements(commands)
      BY ZenonT(60), <2>0, <3>1, WithoutFacts DEF Types
    <3> QED
      BY ZenonT(60), <2>10, <3>1, <3>2, HostLeaves, NoNewWaits, IdentKeeps DEF NoNewWork
  <2>11. CASE TakeReply(c)
    <3>1. UNCHANGED <<nextId, commands, pending, slice>>
      BY ZenonT(60), <2>11 DEF TakeReply, actor, queues
    <3> QED
      BY ZenonT(60), <2>11, <3>1, HostLeaves, NoNewWaits, IdentKeeps DEF NoNewWork
  <2>12. CASE ReceiveTimesOut(c)
    <3>1. UNCHANGED <<nextId, commands, pending, slice>>
      BY ZenonT(60), <2>12 DEF ReceiveTimesOut, actor, queues
    <3> QED
      BY ZenonT(60), <2>12, <3>1, HostLeaves, NoNewWaits, IdentKeeps DEF NoNewWork
  <2>13. CASE FinalizeMark(c)
    <3>1. Moved(c, "fin_phase", call[c].id) /\ "fin_phase" \notin Waiting
      BY ZenonT(60), <2>13, HostMoves DEF Waiting
    <3>2. commands' = <<>> /\ UNCHANGED <<nextId, pending, slice>>
      BY ZenonT(60), <2>13 DEF FinalizeMark, MarkFinalized, actor
    <3> QED
      BY ZenonT(60), <3>1, <3>2, EmptyFacts, NoNewWaits, IdentKeeps DEF NoNewWork
  <2>14. CASE FinalizeAgain(c)
    <3>1. UNCHANGED <<nextId, commands, pending, slice>>
      BY ZenonT(60), <2>14 DEF FinalizeAgain, actor, queues
    <3> QED
      BY ZenonT(60), <2>14, <3>1, HostLeaves, NoNewWaits, IdentKeeps DEF NoNewWork
  <2>15. CASE FinalizePhase(c)
    <3>1. Moved(c, "fin_release", call[c].id) /\ "fin_release" \notin Waiting
      BY ZenonT(60), <2>15, HostMoves DEF Waiting
    <3>2. UNCHANGED <<nextId, commands, pending, slice>>
      BY ZenonT(60), <2>15 DEF FinalizePhase, actor, queues
    <3> QED
      BY ZenonT(60), <3>1, <3>2, NoNewWaits, IdentKeeps DEF NoNewWork
  <2>16. CASE FinalizeRelease(c)
    <3>1. Moved(c, "idle", 0) /\ "idle" \notin Waiting
      BY ZenonT(60), <2>16, HostMoves DEF Waiting
    <3>2. pending' = <<>> /\ UNCHANGED <<nextId, commands, slice>>
      BY ZenonT(60), <2>16 DEF FinalizeRelease
    <3> QED
      BY ZenonT(60), <3>1, <3>2, EmptyFacts, NoNewWaits, IdentKeeps DEF NoNewWork
  <2> QED
    BY ZenonT(60), <1>2, <2>1, <2>2, <2>3, <2>4, <2>5, <2>6, <2>7, <2>8, <2>9, <2>10, <2>11, <2>12, <2>13,
       <2>14, <2>15, <2>16 DEF HostStep
<1>3. ASSUME NEW c \in Callers, NEW kind \in Kinds, Begin(c, kind) PROVE IdentInv'
  <2>1. Moved(c, "ensure", 0) /\ "ensure" \notin Waiting
    BY ZenonT(60), <1>3, HostMoves DEF Waiting
  <2>2. UNCHANGED <<nextId, commands, pending, slice>>
    BY ZenonT(60), <1>3 DEF Begin, actor, queues
  <2> QED
    BY ZenonT(60), <2>1, <2>2, NoNewWaits, IdentKeeps DEF NoNewWork
<1>4. CASE IdleWake
  BY ZenonT(60), <1>1, <1>4 DEF IdleWake
<1>5. ASSUME NEW m \in CommandRecords, Executes(m) PROVE IdentInv'
  <2>1. CASE BootSlice(m)
    <3>1. slice' = slice /\ (pending' = pending \/ pending' = <<>>)
      BY ZenonT(60), <2>1, RecordExitFacts DEF BootSlice, LinkParticipant
    <3> QED
      BY ZenonT(60), <1>5, <3>1, PopFacts, EmptyFacts, IdentKeeps DEF NoNewWork
  <2>2. CASE SendSlice(m)
    <3>1. UNCHANGED <<slice, pending>>
      BY ZenonT(60), <2>2 DEF SendSlice, queues
    <3> QED
      BY ZenonT(60), <1>5, <3>1, PopFacts, IdentKeeps DEF NoNewWork
  <2>3. CASE ReceiveSlice(m)
    <3> DEFINE w == [caller |-> m.caller, id |-> m.id]
    <3>1. /\ slice' = slice /\ (pending' = pending \/ pending' = Append(pending, w))
          /\ m.kind # "boot"
      BY ZenonT(60), <2>3 DEF ReceiveSlice
    <3>2. w \in Waiters /\ w.id = m.id /\ w.caller = m.caller
      BY ZenonT(60) DEF Waiters, CommandRecords
    <3> HIDE DEF w
    <3>3. Elements(Append(pending, w)) = Elements(pending) \cup {w}
      BY SMTT(60), <3>2, ElementsFacts DEF Types, TypePending
    <3>4. Handed(w.id, w.caller)
      BY ZenonT(60), <1>5, <3>1, <3>2, PopFacts DEF Handed
    <3> QED
      BY ZenonT(60), <1>5, <3>1, <3>3, <3>4, PopFacts, IdentKeeps DEF NoNewWork
  <2>4. CASE QuerySlice(m)
    <3>1. UNCHANGED <<slice, pending>>
      BY ZenonT(60), <2>4 DEF QuerySlice, queues
    <3> QED
      BY ZenonT(60), <1>5, <3>1, PopFacts, IdentKeeps DEF NoNewWork
  <2>5. CASE CloseSlice(m)
    <3>1. /\ slice'.step = "close_mark" /\ slice'.id = m.id /\ slice'.caller = m.caller
          /\ pending' = pending /\ m.kind # "boot"
      BY ZenonT(60), <2>5 DEF CloseSlice, queues
    <3>2. Handed(slice'.id, slice'.caller)
      BY ZenonT(60), <1>5, <3>1, PopFacts DEF Handed
    <3> QED
      BY ZenonT(60), <1>5, <3>1, <3>2, PopFacts, IdentKeeps DEF NoNewWork, CloseSteps
  <2> QED
    BY ZenonT(60), <1>5, <2>1, <2>2, <2>3, <2>4, <2>5 DEF Executes
<1>6. CASE ActorStep /\ ~ProcessNextCommand
  <2>1. CASE CloseMark
    <3>1. /\ slice'.step = "close_release" /\ slice'.id = slice.id /\ slice'.caller = slice.caller
      BY ZenonT(60), <2>1, SliceMoves DEF CloseMark, Types, SliceSteps
    <3>2. /\ commands' = commands \/ commands' = <<>>
          /\ UNCHANGED <<nextId, pending, call>>
      BY ZenonT(60), <2>1 DEF CloseMark, MarkFinalized
    <3> QED
      BY ZenonT(60), <3>1, <3>2, EmptyFacts, NoNewWaits, IdentKeeps DEF NoNewWork, CloseSteps
  <2>2. CASE CloseRelease
    <3>1. /\ slice'.id = 0 /\ pending' = <<>> /\ UNCHANGED <<nextId, commands, call>>
      BY ZenonT(60), <2>2 DEF CloseRelease, NoSlice
    <3> QED
      BY ZenonT(60), <3>1, EmptyFacts, NoNewWaits, IdentKeeps DEF NoNewWork
  <2>3. CASE HandleParticipantExit
    <3>1. /\ pending' = pending \/ pending' = <<>>
          /\ UNCHANGED <<nextId, commands, slice, call>>
      BY ZenonT(60), <2>3, RecordExitFacts DEF HandleParticipantExit
    <3> QED
      BY ZenonT(60), <3>1, EmptyFacts, NoNewWaits, IdentKeeps DEF NoNewWork
  <2>4. CASE HandleWatcherExit
    <3>1. /\ slice'.id = 0 /\ UNCHANGED <<nextId, commands, pending, call>>
      BY ZenonT(60), <2>4 DEF HandleWatcherExit, NoSlice, queues
    <3> QED
      BY ZenonT(60), <3>1, NoNewWaits, IdentKeeps DEF NoNewWork
  <2>5. CASE WatcherExitFails
    <3>1. slice.id = 0
      BY ZenonT(60), <2>5 DEF WatcherExitFails, IdentInv, IdInv
    <3>2. slice'.id = 0 /\ UNCHANGED <<nextId, commands, pending, call>>
      BY ZenonT(60), <2>5, <3>1, SliceMoves DEF WatcherExitFails, Types, SliceSteps, queues
    <3> QED
      BY ZenonT(60), <3>2, NoNewWaits, IdentKeeps DEF NoNewWork
  <2>6. CASE WatcherExitMark
    <3>1. slice.id = 0
      BY ZenonT(60), <2>6 DEF WatcherExitMark, IdentInv, IdInv
    <3>2. /\ slice'.id = 0 /\ UNCHANGED <<nextId, pending, call>>
          /\ commands' = commands \/ commands' = <<>>
      BY ZenonT(60), <2>6, <3>1, SliceMoves DEF WatcherExitMark, MarkFinalized, Types, SliceSteps
    <3> QED
      BY ZenonT(60), <3>2, EmptyFacts, NoNewWaits, IdentKeeps DEF NoNewWork
  <2>7. CASE WatcherExitRelease
    <3>1. /\ slice'.id = 0 /\ pending' = <<>> /\ UNCHANGED <<nextId, commands, call>>
      BY ZenonT(60), <2>7 DEF WatcherExitRelease, NoSlice
    <3> QED
      BY ZenonT(60), <3>1, EmptyFacts, NoNewWaits, IdentKeeps DEF NoNewWork
  <2> QED
    BY ZenonT(60), <1>6, <2>1, <2>2, <2>3, <2>4, <2>5, <2>6, <2>7 DEF ActorStep
<1>7. CASE RegisterExitNotifier \/ ActorCrash \/ ParticipantCrash \/ WatcherKilled
  BY ZenonT(60), <1>1, <1>7 DEF RegisterExitNotifier, ActorCrash, ParticipantCrash, WatcherKilled, actor,
     queues
<1>8. CASE ParticipantStep
  <2>1. UNCHANGED <<nextId, commands, slice, call>>
    BY ZenonT(60), <1>8 DEF ParticipantStep, actor
  <2>2. Elements(pending') \subseteq Elements(pending)
    <3>1. CASE ~part.registered \/ requests = <<>>
      BY ZenonT(60), <1>8, <3>1 DEF ParticipantStep, queues
    <3>2. CASE part.registered /\ requests # <<>>
      <4>1. DeliverLocalReply(Head(requests)) /\ Head(requests) \in Nat
        BY ZenonT(60), <1>8, <3>2, ElementsFacts DEF ParticipantStep, Types, TypeReplies
      <4>2. pending' = pending \/ (pending # <<>> /\ pending' = Tail(pending))
        BY ZenonT(60), <4>1, DeliverFacts
      <4>3. pending # <<>> => Elements(pending) = {Head(pending)} \cup Elements(Tail(pending))
        BY ZenonT(60), ElementsFacts DEF Types, TypePending
      <4> QED
        BY ZenonT(60), <4>2, <4>3
    <3> QED
      BY ZenonT(60), <3>1, <3>2
  <2> QED
    BY ZenonT(60), <2>1, <2>2, NoNewWaits, IdentKeeps DEF NoNewWork
<1>9. ASSUME NEW i \in 1..MaxSpawns, WatcherCleanup(i) PROVE IdentInv'
  BY ZenonT(60), <1>1, <1>9 DEF WatcherCleanup, actor, queues
<1>10. CASE UNCHANGED vars
  BY ZenonT(60), <1>1, <1>10 DEF vars, actor, queues
<1> QED
  BY ZenonT(60), <1>2, <1>3, <1>4, <1>5, <1>6, <1>7, <1>8, <1>9, <1>10, ProcessCases DEF Next, ActorStep

(***************************************************************************)
(* The ids in the queue are distinct, so that remove_command removes one.  *)
(***************************************************************************)
LEMMA UniqueWithout ==
    ASSUME Types, UniqueInv, NEW id \in Nat, commands' = Without(id)
    PROVE  UniqueInv'
<1>1. CASE commands' = commands
  BY ZenonT(60), <1>1 DEF UniqueInv
<1>2. ASSUME NEW k \in DOMAIN commands, DOMAIN commands' = 1..(Len(commands) - 1),
             \A i \in DOMAIN commands' : commands'[i] = commands[IF i < k THEN i ELSE i + 1]
      PROVE  UniqueInv'
  <2>1. Len(commands) \in Nat /\ DOMAIN commands = 1..Len(commands)
    BY SMTT(60) DEF Types, TypeCommands
  <2>2. \A i \in DOMAIN commands' : (IF i < k THEN i ELSE i + 1) \in DOMAIN commands
    BY SMTT(60), <1>2, <2>1
  <2>3. \A i, j \in DOMAIN commands' :
           (IF i < k THEN i ELSE i + 1) = (IF j < k THEN j ELSE j + 1) => i = j
    BY SMTT(60), <1>2, <2>1
  <2> QED
    BY SMTT(60), <1>2, <2>2, <2>3 DEF UniqueInv
<1> QED
  BY ZenonT(60), <1>1, <1>2, WithoutFacts DEF Types

LEMMA UniqueTail ==
    ASSUME Types, UniqueInv, commands # <<>>, commands' = Tail(commands)
    PROVE  UniqueInv'
<1>1. /\ Len(commands) \in Nat /\ DOMAIN commands = 1..Len(commands)
      /\ DOMAIN Tail(commands) = 1..(Len(commands) - 1)
      /\ \A i \in 1..(Len(commands) - 1) : Tail(commands)[i] = commands[i + 1]
  BY SMTT(60) DEF Types, TypeCommands
<1>2. \A i \in DOMAIN commands' : i \in Nat /\ i + 1 \in DOMAIN commands /\ commands'[i] = commands[i + 1]
  BY SMTT(60), <1>1
<1>3. \A i, j \in DOMAIN commands' : i + 1 = j + 1 => i = j
  BY SMTT(60), <1>1
<1> QED
  BY SMTT(60), <1>2, <1>3 DEF UniqueInv

LEMMA UniqueEmpty == commands' = <<>> => UniqueInv'
BY SMTT(60) DEF UniqueInv

LEMMA UniqueStep ==
    ASSUME Types, IdentInv, UniqueInv, [Next]_vars
    PROVE  UniqueInv'
<1>1. UNCHANGED commands => UniqueInv'
  BY ZenonT(60) DEF UniqueInv
<1>2. ASSUME NEW c \in Callers, HostStep(c) PROVE UniqueInv'
  <2>0. call[c].id \in Nat
    BY ZenonT(60) DEF Types, TypeCall, CallRecords
  <2>1. CASE EnsureRefused(c) \/ EnsureLive(c) \/ EnsureSpawn(c) \/ PushRefused(c) \/
             WakeActor(c) \/ BootOk(c) \/ TakeReply(c) \/ ReceiveTimesOut(c) \/
             FinalizeAgain(c) \/ FinalizePhase(c) \/ FinalizeRelease(c)
    BY ZenonT(60), <1>1, <2>1 DEF EnsureRefused, EnsureLive, EnsureSpawn, SpawnActor, PushRefused, Rollback,
       WakeActor, BootOk, TakeReply, ReceiveTimesOut, FinalizeAgain, FinalizePhase,
       FinalizeRelease
  <2>2. CASE Push(c)
    <3> DEFINE m == [id |-> nextId, caller |-> c,
                     kind |-> IF call[c].pc = "push" THEN call[c].kind ELSE "boot"]
    <3>1. commands' = Append(commands, m) /\ m.id = nextId
      BY ZenonT(60), <2>2 DEF Push
    <3> HIDE DEF m
    <3>2. /\ Len(commands) \in Nat /\ DOMAIN commands = 1..Len(commands)
          /\ DOMAIN commands' = 1..(Len(commands) + 1)
          /\ \A i \in DOMAIN commands : commands'[i] = commands[i]
          /\ commands'[Len(commands) + 1] = m
      BY SMTT(60), <3>1 DEF Types, TypeCommands
    <3>3. \A i \in DOMAIN commands' : i \in DOMAIN commands \/ i = Len(commands) + 1
      BY SMTT(60), <3>2
    <3>4. \A i \in DOMAIN commands : commands[i].id # nextId
      BY SMTT(60) DEF IdentInv, IdInv, Issued, Elements, Types, TypeCommands
    <3> QED
      BY SMTT(60), <3>1, <3>2, <3>3, <3>4 DEF UniqueInv
  <2>3. CASE WakeFails(c)
    BY ZenonT(60), <2>0, <2>3, UniqueWithout DEF WakeFails
  <2>4. CASE BootWakeFails(c)
    BY ZenonT(60), <2>0, <2>4, UniqueWithout DEF BootWakeFails
  <2>5. CASE BootFails(c)
    BY ZenonT(60), <2>0, <2>5, UniqueWithout DEF BootFails
  <2>6. CASE FinalizeMark(c)
    BY ZenonT(60), <2>6, UniqueEmpty DEF FinalizeMark, MarkFinalized
  <2> QED
    BY ZenonT(60), <1>2, <2>1, <2>2, <2>3, <2>4, <2>5, <2>6 DEF HostStep
<1>3. ASSUME NEW c \in Callers, NEW kind \in Kinds, Begin(c, kind) PROVE UniqueInv'
  BY ZenonT(60), <1>1, <1>3 DEF Begin
<1>4. CASE IdleWake
  BY ZenonT(60), <1>1, <1>4 DEF IdleWake
<1>5. ASSUME NEW m \in CommandRecords, Executes(m) PROVE UniqueInv'
  BY ZenonT(60), <1>5, UniqueTail DEF Executes
<1>6. CASE ActorStep /\ ~ProcessNextCommand
  <2>1. CASE CloseRelease \/ HandleParticipantExit \/ HandleWatcherExit \/ WatcherExitFails \/
             WatcherExitRelease
    BY ZenonT(60), <1>1, <2>1 DEF CloseRelease, StopSelf, HandleParticipantExit, HandleWatcherExit,
       WatcherExitFails, WatcherExitRelease
  <2>2. CASE CloseMark
    BY ZenonT(60), <1>1, <2>2, UniqueEmpty DEF CloseMark, MarkFinalized
  <2>3. CASE WatcherExitMark
    BY ZenonT(60), <1>1, <2>3, UniqueEmpty DEF WatcherExitMark, MarkFinalized
  <2> QED
    BY ZenonT(60), <1>6, <2>1, <2>2, <2>3 DEF ActorStep
<1>7. CASE ParticipantStep \/ RegisterExitNotifier \/ ActorCrash \/ ParticipantCrash \/
             WatcherKilled
  BY ZenonT(60), <1>1, <1>7 DEF ParticipantStep, RegisterExitNotifier, ActorCrash, ParticipantCrash,
     WatcherKilled
<1>8. ASSUME NEW i \in 1..MaxSpawns, WatcherCleanup(i) PROVE UniqueInv'
  BY ZenonT(60), <1>1, <1>8 DEF WatcherCleanup
<1>9. CASE UNCHANGED vars
  BY ZenonT(60), <1>1, <1>9 DEF vars
<1> QED
  BY ZenonT(60), <1>2, <1>3, <1>4, <1>5, <1>6, <1>7, <1>8, <1>9, ProcessCases DEF Next, ActorStep

(***************************************************************************)
(* A reply is there only for a caller that waits, and Ok while booting     *)
(* means booted.                                                           *)
(***************************************************************************)
LEMMA ReplyKeeps ==
    ASSUME ReplyInv, UNCHANGED call, booted => booted',
           \A c \in Callers : \/ reply'[c] = reply[c]
                              \/ /\ Waits(c)
                                 /\ reply'[c] = "ok" /\ call[c].pc \in Booting => booted'
    PROVE  ReplyInv'
BY ZenonT(60) DEF ReplyInv, Waits

LEMMA ReplyMoves ==
    ASSUME Types, ReplyInv, NEW c \in Callers, NEW p, NEW i, Moved(c, p, i),
           p \in Waiting => Waits(c) \/ reply[c] = "none",
           p \in Booting => call[c].pc \in Booting \/ reply[c] = "none",
           p \notin Waiting => reply[c] = "none", UNCHANGED <<booted, reply>>
    PROVE  ReplyInv'
BY ZenonT(60) DEF ReplyInv, Waits, Moved

LEMMA ReplyLeaves ==
    ASSUME Types, ReplyInv, NEW c \in Callers, Leaves(c), UNCHANGED booted
    PROVE  ReplyInv'
BY ZenonT(60) DEF ReplyInv, Waits, Leaves, Moved

(* An error answers a waiting caller; an Ok to a command that is no Boot    *)
(* answers one that is not booting.                                        *)
LEMMA AnswersWait ==
    ASSUME Types, NEW r \in {"ok", "err"}, NEW who, Answers(r, who)
    PROVE  \A c \in Callers :
              reply'[c] = reply[c] \/ (reply'[c] = r /\ \E w \in who : w.caller = c /\
                                          w.id = call[c].id /\ Waits(c))
BY SMTT(60), AnswersFacts DEF Types, Listening, Waits

LEMMA ReplyStep ==
    ASSUME Types, LockInv, IdentInv, ReplyInv, [Next]_vars
    PROVE  ReplyInv'
<1>1. UNCHANGED <<call, reply, booted>> => ReplyInv'
  BY SMTT(60) DEF ReplyInv, Waits
<1>2. ASSUME NEW c \in Callers, HostStep(c) PROVE ReplyInv'
  <2>1. CASE EnsureRefused(c)
    <3>1. UNCHANGED booted
      BY ZenonT(60), <2>1 DEF EnsureRefused, actor
    <3> QED
      BY ZenonT(60), <2>1, <3>1, HostLeaves, ReplyLeaves
  <2>2. CASE EnsureLive(c)
    <3>1. Moved(c, "push", call[c].id)
      BY ZenonT(60), <2>2, HostMoves
    <3>2. UNCHANGED <<booted, reply>> /\ reply[c] = "none"
      BY ZenonT(60), <2>2 DEF EnsureLive, actor, ReplyInv, Waits, Waiting
    <3> QED
      BY ZenonT(60), <3>1, <3>2, ReplyMoves
  <2>3. CASE EnsureSpawn(c)
    <3>1. Moved(c, "boot_push", call[c].id)
      BY ZenonT(60), <2>3, HostMoves
    <3>2. UNCHANGED reply /\ reply[c] = "none" /\ lock = Nobody
      BY ZenonT(60), <2>3 DEF EnsureSpawn, ReplyInv, Waits, Waiting
    <3>3. \A d \in Callers : call[d].pc \notin Booting
      BY ZenonT(60), <3>2, NobodyAssumption DEF LockInv
    <3> QED
      BY ZenonT(60), <3>1, <3>2, <3>3 DEF ReplyInv, Waits, Moved
  <2>4. CASE Push(c)
    <3>1. Moved(c, IF call[c].pc = "push" THEN "wake" ELSE "boot_wake", nextId)
      BY ZenonT(60), <2>4, HostMoves
    <3>2. UNCHANGED <<booted, reply>> /\ reply[c] = "none"
      BY ZenonT(60), <2>4 DEF Push, actor, ReplyInv, Waits, Waiting
    <3> QED
      BY ZenonT(60), <3>1, <3>2, ReplyMoves DEF Waiting
  <2>5. CASE PushRefused(c)
    <3>1. UNCHANGED booted
      BY ZenonT(60), <2>5 DEF PushRefused, Rollback, actor
    <3> QED
      BY ZenonT(60), <2>5, <3>1, HostLeaves, ReplyLeaves
  <2>6. CASE WakeActor(c)
    <3>1. Moved(c, IF call[c].pc = "wake" THEN "wait" ELSE "boot_wait", call[c].id)
      BY ZenonT(60), <2>6, HostMoves
    <3>2. UNCHANGED <<booted, reply>> /\ call[c].pc \in {"wake", "boot_wake"}
      BY ZenonT(60), <2>6 DEF WakeActor
    <3> QED
      BY ZenonT(60), <3>1, <3>2, ReplyMoves DEF Waits, Waiting, Booting
  <2>7. CASE WakeFails(c)
    <3>1. UNCHANGED booted
      BY ZenonT(60), <2>7 DEF WakeFails, actor
    <3> QED
      BY ZenonT(60), <2>7, <3>1, HostLeaves, ReplyLeaves
  <2>8. CASE BootWakeFails(c)
    <3>1. UNCHANGED booted
      BY ZenonT(60), <2>8 DEF BootWakeFails, Rollback
    <3> QED
      BY ZenonT(60), <2>8, <3>1, HostLeaves, ReplyLeaves
  <2>9. CASE BootOk(c)
    <3>1. UNCHANGED booted
      BY ZenonT(60), <2>9 DEF BootOk, Rollback, actor
    <3> QED
      BY ZenonT(60), <2>9, <3>1, HostLeaves, ReplyLeaves
  <2>10. CASE BootFails(c)
    <3>1. UNCHANGED booted
      BY ZenonT(60), <2>10 DEF BootFails, Rollback
    <3> QED
      BY ZenonT(60), <2>10, <3>1, HostLeaves, ReplyLeaves
  <2>11. CASE TakeReply(c)
    <3>1. UNCHANGED booted
      BY ZenonT(60), <2>11 DEF TakeReply, actor
    <3> QED
      BY ZenonT(60), <2>11, <3>1, HostLeaves, ReplyLeaves
  <2>12. CASE ReceiveTimesOut(c)
    <3>1. UNCHANGED booted
      BY ZenonT(60), <2>12 DEF ReceiveTimesOut, actor
    <3> QED
      BY ZenonT(60), <2>12, <3>1, HostLeaves, ReplyLeaves
  <2>13. CASE FinalizeMark(c)
    <3>1. Moved(c, "fin_phase", call[c].id)
      BY ZenonT(60), <2>13, HostMoves
    <3>2. Answers("err", Elements(commands)) /\ booted' = booted /\ call[c].pc = "ensure"
      BY ZenonT(60), <2>13 DEF FinalizeMark, MarkFinalized, actor
    <3>3. \A d \in Callers : reply'[d] = reply[d] \/ (reply'[d] = "err" /\ Waits(d))
      BY ZenonT(60), <3>2, AnswersWait
    <3>4. ~Waits(c)
      BY ZenonT(60), <3>2 DEF Waits, Waiting
    <3> QED
      BY ZenonT(60), <3>1, <3>2, <3>3, <3>4 DEF ReplyInv, Waits, Moved
  <2>14. CASE FinalizeAgain(c)
    <3>1. UNCHANGED booted
      BY ZenonT(60), <2>14 DEF FinalizeAgain, actor
    <3> QED
      BY ZenonT(60), <2>14, <3>1, HostLeaves, ReplyLeaves
  <2>15. CASE FinalizePhase(c)
    <3>1. Moved(c, "fin_release", call[c].id)
      BY ZenonT(60), <2>15, HostMoves
    <3>2. UNCHANGED <<booted, reply>> /\ reply[c] = "none"
      BY ZenonT(60), <2>15 DEF FinalizePhase, actor, ReplyInv, Waits, Waiting
    <3> QED
      BY ZenonT(60), <3>1, <3>2, ReplyMoves
  <2>16. CASE FinalizeRelease(c)
    <3>1. Moved(c, "idle", 0)
      BY ZenonT(60), <2>16, HostMoves
    <3>2. Answers("err", Elements(pending)) /\ booted' = booted /\ call[c].pc = "fin_release"
      BY ZenonT(60), <2>16 DEF FinalizeRelease
    <3>3. \A d \in Callers : reply'[d] = reply[d] \/ (reply'[d] = "err" /\ Waits(d))
      BY ZenonT(60), <3>2, AnswersWait
    <3>4. ~Waits(c)
      BY ZenonT(60), <3>2 DEF Waits, Waiting
    <3> QED
      BY ZenonT(60), <3>1, <3>2, <3>3, <3>4 DEF ReplyInv, Waits, Moved
  <2> QED
    BY ZenonT(60), <1>2, <2>1, <2>2, <2>3, <2>4, <2>5, <2>6, <2>7, <2>8, <2>9, <2>10, <2>11, <2>12, <2>13,
       <2>14, <2>15, <2>16 DEF HostStep
<1>3. ASSUME NEW c \in Callers, NEW kind \in Kinds, Begin(c, kind) PROVE ReplyInv'
  <2>1. Moved(c, "ensure", 0)
    BY ZenonT(60), <1>3, HostMoves
  <2>2. UNCHANGED <<booted, reply>> /\ reply[c] = "none"
    BY ZenonT(60), <1>3 DEF Begin, actor, ReplyInv, Waits, Waiting
  <2> QED
    BY ZenonT(60), <2>1, <2>2, ReplyMoves
<1>4. CASE IdleWake
  BY ZenonT(60), <1>1, <1>4 DEF IdleWake
<1>5. ASSUME NEW m \in CommandRecords, Executes(m) PROVE ReplyInv'
  <2>1. CASE CloseSlice(m)
    BY ZenonT(60), <1>1, <1>5, <2>1 DEF CloseSlice, Executes, actor
  <2>2. CASE BootSlice(m)
    <3>1. UNCHANGED call /\ (booted' = TRUE \/ booted' = booted)
      BY ZenonT(60), <1>5, <2>2 DEF BootSlice, LinkParticipant, Executes
    <3>2. CASE watcher[pid] = "armed"
      <4>1. booted' = TRUE /\ (Answers("ok", {m}) \/ RecordExit("unknown", {m}, "ok"))
        BY ZenonT(60), <2>2, <3>2 DEF BootSlice, LinkParticipant
      <4>2. \A c \in Callers : reply'[c] = reply[c] \/ Waits(c)
        BY ZenonT(60), <4>1, AnswersWait, RecordExitFacts DEF Listening, Waits
      <4> QED
        BY ZenonT(60), <3>1, <4>1, <4>2, ReplyKeeps
    <3>3. CASE watcher[pid] # "armed"
      <4>1. booted' = booted /\ (Answers("err", {m}) \/ RecordExit("unknown", {m}, "err"))
        BY ZenonT(60), <2>2, <3>3 DEF BootSlice, LinkParticipant
      <4>2. \A c \in Callers : reply'[c] = reply[c] \/ (reply'[c] = "err" /\ Waits(c))
        BY ZenonT(60), <4>1, AnswersWait, RecordExitFacts DEF Listening, Waits
      <4> QED
        BY ZenonT(60), <3>1, <4>1, <4>2, ReplyKeeps
    <3> QED
      BY ZenonT(60), <3>2, <3>3
  <2>3. CASE SendSlice(m)
    <3>1. /\ UNCHANGED <<call, booted>> /\ m.kind # "boot"
          /\ Answers("ok", {m}) \/ Answers("err", {m})
      BY ZenonT(60), <1>5, <2>3 DEF SendSlice, Executes
    <3>2. \A c \in Callers : \/ reply'[c] = reply[c]
                             \/ reply'[c] \in {"ok", "err"} /\ m.id = call[c].id /\ Waits(c)
      BY SMTT(60), <3>1, AnswersWait
    <3>3. \A c \in Callers : m.id = call[c].id /\ Waits(c) => call[c].pc \notin Booting
      BY ZenonT(60), <1>5, <3>1, PopFacts DEF IdentInv, OwnerInv
    <3> QED
      BY ZenonT(60), <3>1, <3>2, <3>3, ReplyKeeps
  <2>4. CASE ReceiveSlice(m)
    <3>1. /\ UNCHANGED <<call, booted>> /\ m.kind # "boot"
          /\ Answers("ok", {m}) \/ Answers("err", {m}) \/ UNCHANGED reply
      BY ZenonT(60), <1>5, <2>4 DEF ReceiveSlice, Executes
    <3>2. \A c \in Callers : \/ reply'[c] = reply[c]
                             \/ reply'[c] \in {"ok", "err"} /\ m.id = call[c].id /\ Waits(c)
      BY SMTT(60), <3>1, AnswersWait
    <3>3. \A c \in Callers : m.id = call[c].id /\ Waits(c) => call[c].pc \notin Booting
      BY ZenonT(60), <1>5, <3>1, PopFacts DEF IdentInv, OwnerInv
    <3> QED
      BY ZenonT(60), <3>1, <3>2, <3>3, ReplyKeeps
  <2>5. CASE QuerySlice(m)
    <3>1. /\ UNCHANGED <<call, booted>> /\ m.kind # "boot"
          /\ Answers("ok", {m}) \/ Answers("err", {m})
      BY ZenonT(60), <1>5, <2>5 DEF QuerySlice, Executes
    <3>2. \A c \in Callers : \/ reply'[c] = reply[c]
                             \/ reply'[c] \in {"ok", "err"} /\ m.id = call[c].id /\ Waits(c)
      BY SMTT(60), <3>1, AnswersWait
    <3>3. \A c \in Callers : m.id = call[c].id /\ Waits(c) => call[c].pc \notin Booting
      BY ZenonT(60), <1>5, <3>1, PopFacts DEF IdentInv, OwnerInv
    <3> QED
      BY ZenonT(60), <3>1, <3>2, <3>3, ReplyKeeps
  <2> QED
    BY ZenonT(60), <1>5, <2>1, <2>2, <2>3, <2>4, <2>5 DEF Executes
<1>6. CASE ActorStep /\ ~ProcessNextCommand
  <2>1. CASE HandleWatcherExit \/ WatcherExitFails
    BY ZenonT(60), <1>1, <2>1 DEF HandleWatcherExit, WatcherExitFails, actor
  <2>2. CASE CloseMark
    <3>1. UNCHANGED <<call, booted>> /\ (UNCHANGED reply \/ Answers("err", Elements(commands)))
      BY ZenonT(60), <2>2 DEF CloseMark, MarkFinalized
    <3>2. \A c \in Callers : reply'[c] = reply[c] \/ (reply'[c] = "err" /\ Waits(c))
      BY ZenonT(60), <3>1, AnswersWait
    <3> QED
      BY ZenonT(60), <3>1, <3>2, ReplyKeeps
  <2>3. CASE CloseRelease
    <3>1. /\ UNCHANGED <<call, booted>>
          /\ \A c \in Callers : \/ reply'[c] = reply[c]
                                \/ reply'[c] = "ok" /\ slice.id = call[c].id /\ Waits(c)
                                \/ reply'[c] = "err" /\ Waits(c)
      BY ZenonT(60), <2>3 DEF CloseRelease, Listening, Waits
    <3>2. \A c \in Callers : slice.id = call[c].id /\ Waits(c) => call[c].pc \notin Booting
      BY ZenonT(60) DEF IdentInv, OwnerInv
    <3> QED
      BY ZenonT(60), <3>1, <3>2, ReplyKeeps
  <2>4. CASE HandleParticipantExit
    <3>1. UNCHANGED <<call, booted>> /\ \E reason : RecordExit(reason, {}, "ok")
      BY ZenonT(60), <2>4 DEF HandleParticipantExit
    <3>2. \A c \in Callers : reply'[c] = reply[c] \/ (reply'[c] = "err" /\ Waits(c))
      BY SMTT(60), <3>1, RecordExitFacts DEF Listening, Waits
    <3> QED
      BY ZenonT(60), <3>1, <3>2, ReplyKeeps
  <2>5. CASE WatcherExitMark
    <3>1. UNCHANGED <<call, booted>> /\ (UNCHANGED reply \/ Answers("err", Elements(commands)))
      BY ZenonT(60), <2>5 DEF WatcherExitMark, MarkFinalized
    <3>2. \A c \in Callers : reply'[c] = reply[c] \/ (reply'[c] = "err" /\ Waits(c))
      BY ZenonT(60), <3>1, AnswersWait
    <3> QED
      BY ZenonT(60), <3>1, <3>2, ReplyKeeps
  <2>6. CASE WatcherExitRelease
    <3>1. UNCHANGED <<call, booted>> /\ Answers("err", Elements(pending))
      BY ZenonT(60), <2>6 DEF WatcherExitRelease
    <3>2. \A c \in Callers : reply'[c] = reply[c] \/ (reply'[c] = "err" /\ Waits(c))
      BY ZenonT(60), <3>1, AnswersWait
    <3> QED
      BY ZenonT(60), <3>1, <3>2, ReplyKeeps
  <2> QED
    BY ZenonT(60), <1>6, <2>1, <2>2, <2>3, <2>4, <2>5, <2>6 DEF ActorStep
<1>7. CASE RegisterExitNotifier \/ ActorCrash \/ ParticipantCrash \/ WatcherKilled
  BY ZenonT(60), <1>1, <1>7 DEF RegisterExitNotifier, ActorCrash, ParticipantCrash, WatcherKilled, actor
<1>8. CASE ParticipantStep
  <2>1. UNCHANGED <<call, booted>>
    BY ZenonT(60), <1>8 DEF ParticipantStep, actor
  <2>2. CASE ~part.registered \/ requests = <<>>
    BY ZenonT(60), <1>1, <1>8, <2>1, <2>2 DEF ParticipantStep
  <2>3. CASE part.registered /\ requests # <<>>
    <3>1. DeliverLocalReply(Head(requests)) /\ Head(requests) \in Nat
      BY ZenonT(60), <1>8, <2>3, ElementsFacts DEF ParticipantStep, Types, TypeReplies
    <3>2. UNCHANGED reply \/ \E w \in Elements(pending) : Answers("ok", {w})
      BY ZenonT(60), <3>1, DeliverFacts
    <3>3. \A c \in Callers :
             \/ reply'[c] = reply[c]
             \/ /\ reply'[c] = "ok" /\ Waits(c)
                /\ \E w \in Elements(pending) : w.id = call[c].id
      <4>1. CASE UNCHANGED reply
        BY ZenonT(60), <4>1
      <4>2. ASSUME NEW w \in Elements(pending), Answers("ok", {w}), NEW c \in Callers
            PROVE  \/ reply'[c] = reply[c]
                   \/ reply'[c] = "ok" /\ Waits(c) /\ w.id = call[c].id
        BY SMTT(60), <4>2, AnswersWait
      <4> QED
        BY ZenonT(60), <3>2, <4>1, <4>2
    <3>4. \A c \in Callers : Waits(c) /\ (\E w \in Elements(pending) : w.id = call[c].id) =>
             call[c].pc \notin Booting
      BY ZenonT(60) DEF IdentInv, OwnerInv
    <3> QED
      BY ZenonT(60), <2>1, <3>3, <3>4, ReplyKeeps
  <2> QED
    BY ZenonT(60), <2>2, <2>3
<1>9. ASSUME NEW i \in 1..MaxSpawns, WatcherCleanup(i) PROVE ReplyInv'
  BY ZenonT(60), <1>1, <1>9 DEF WatcherCleanup, actor
<1>10. CASE UNCHANGED vars
  BY ZenonT(60), <1>1, <1>10 DEF vars, actor
<1> QED
  BY ZenonT(60), <1>2, <1>3, <1>4, <1>5, <1>6, <1>7, <1>8, <1>9, <1>10, ProcessCases DEF Next, ActorStep

(***************************************************************************)
(* No caller waits where nobody can see it.                                *)
(***************************************************************************)
Seen(d) ==
    \/ \E m \in Elements(commands') : m.id = call[d].id
    \/ \E w \in Elements(pending') : w.id = call[d].id
    \/ slice'.id = call[d].id

(* The caller waits before and after the step and has no answer yet.        *)
Unanswered(d) == Waits(d) /\ call'[d].pc \in Waiting /\ reply'[d] = "none"

(* An answer is only dropped by the caller that leaves with it.             *)
AnswersKept == \A d \in Callers : Unanswered(d) => reply[d] = "none"

LEMMA VisibleKeeps ==
    ASSUME VisibleInv, NoNewWait, AnswersKept,
           \A d \in Callers : Unanswered(d) =>
               /\ \A m \in Elements(commands) : m.id = call[d].id => Seen(d)
               /\ \A w \in Elements(pending) : w.id = call[d].id => Seen(d)
               /\ slice.id = call[d].id => Seen(d)
    PROVE  VisibleInv'
<1> SUFFICES ASSUME NEW d \in Callers, call'[d].pc \in Waiting, reply'[d] = "none"
             PROVE  Visible(d)'
  BY ZenonT(60) DEF VisibleInv, Waits
<1>1. Unanswered(d) /\ call'[d].id = call[d].id
  BY ZenonT(60) DEF NoNewWait, Unanswered
<1>2. reply[d] = "none"
  BY ZenonT(60), <1>1 DEF AnswersKept
<1>3. Visible(d)
  BY ZenonT(60), <1>1, <1>2 DEF VisibleInv, Unanswered
<1>4. Seen(d)
  BY ZenonT(60), <1>1, <1>3 DEF Visible
<1> QED
  BY ZenonT(60), <1>1, <1>4 DEF Seen, Visible

LEMMA VisibleSame ==
    ASSUME VisibleInv, NoNewWait, AnswersKept, UNCHANGED <<commands, pending, slice>>
    PROVE  VisibleInv'
<1>1. \A d \in Callers : /\ \A m \in Elements(commands) : m.id = call[d].id => Seen(d)
                         /\ \A w \in Elements(pending) : w.id = call[d].id => Seen(d)
                         /\ slice.id = call[d].id => Seen(d)
  BY ZenonT(60) DEF Seen
<1> QED
  BY ZenonT(60), <1>1, VisibleKeeps

LEMMA AnswersAreKept ==
    ASSUME Types
    PROVE  /\ UNCHANGED reply => AnswersKept
           /\ \A c \in Callers : Leaves(c) => AnswersKept
           /\ \A r \in {"ok", "err"} : \A who : Answers(r, who) => AnswersKept
<1>1. UNCHANGED reply => AnswersKept
  BY ZenonT(60) DEF AnswersKept, Unanswered
<1>2. ASSUME NEW c \in Callers, Leaves(c) PROVE AnswersKept
  <2>1. /\ call'[c].pc \in {"idle", "push"} /\ \A d \in Callers : d # c => reply'[d] = reply[d]
    BY ZenonT(60), <1>2 DEF Leaves, Moved
  <2> QED
    BY ZenonT(60), <2>1 DEF AnswersKept, Unanswered, Waiting
<1>3. ASSUME NEW r \in {"ok", "err"}, NEW who, Answers(r, who) PROVE AnswersKept
  BY ZenonT(60), <1>3, AnswersFacts DEF Types, AnswersKept, Unanswered
<1> QED
  BY ZenonT(60), <1>1, <1>2, <1>3

(* An answer reaches the waiting caller whose id it carries.                *)
LEMMA OwnersAnswered ==
    ASSUME Types, IdentInv, NEW r \in {"ok", "err"}, NEW who, Answers(r, who),
           who \subseteq Elements(commands) \/ who \subseteq Elements(pending)
    PROVE  \A d \in Callers : \A m \in who : Unanswered(d) => m.id # call[d].id
<1> SUFFICES ASSUME NEW d \in Callers, NEW m \in who, Waits(d), m.id = call[d].id
             PROVE  reply'[d] = r
  BY ZenonT(60) DEF Unanswered
<1>1. m.caller = d
  BY ZenonT(60) DEF IdentInv, OwnerInv
<1>2. Listening(d, m.id)
  BY ZenonT(60) DEF Listening, Waits
<1> QED
  BY SMTT(60), <1>1, <1>2, AnswersFacts DEF Types

(* A release answers every parked receive.                                 *)
LEMMA VisibleReleased ==
    ASSUME Types, IdentInv, VisibleInv, NoNewWait, AnswersKept, UNCHANGED commands,
           \A d \in Callers, w \in Elements(pending) : Unanswered(d) => w.id # call[d].id,
           \A d \in Callers : Unanswered(d) => slice'.id = slice.id \/ slice.id # call[d].id
    PROVE  VisibleInv'
<1>1. \A d \in Callers : Unanswered(d) =>
         /\ \A m \in Elements(commands) : m.id = call[d].id => Seen(d)
         /\ \A w \in Elements(pending) : w.id = call[d].id => Seen(d)
         /\ slice.id = call[d].id => Seen(d)
  BY ZenonT(60) DEF Seen
<1> QED
  BY ZenonT(60), <1>1, VisibleKeeps

(* Finalization answers every queued command.                              *)
LEMMA VisibleDrained ==
    ASSUME Types, IdentInv, VisibleInv, NoNewWait, UNCHANGED pending, slice'.id = slice.id,
           Answers("err", Elements(commands))
    PROVE  VisibleInv'
<1>1. \A d \in Callers, m \in Elements(commands) : Unanswered(d) => m.id # call[d].id
  BY ZenonT(60), OwnersAnswered
<1>2. \A d \in Callers : Unanswered(d) =>
         /\ \A m \in Elements(commands) : m.id = call[d].id => Seen(d)
         /\ \A w \in Elements(pending) : w.id = call[d].id => Seen(d)
         /\ slice.id = call[d].id => Seen(d)
  BY ZenonT(60), <1>1 DEF Seen
<1>3. AnswersKept
  BY ZenonT(60), AnswersAreKept
<1> QED
  BY ZenonT(60), <1>2, <1>3, VisibleKeeps

(* A popped command is answered, or is handed on with its id.               *)
LEMMA VisiblePopped ==
    ASSUME Types, IdentInv, VisibleInv, NEW m \in CommandRecords, Executes(m), AnswersKept,
           \A d \in Callers : Unanswered(d) => m.id # call[d].id \/ Seen(d),
           \A d \in Callers, w \in Elements(pending) :
               Unanswered(d) => w.id # call[d].id \/ w \in Elements(pending')
    PROVE  VisibleInv'
<1>1. slice.id = 0
  BY ZenonT(60) DEF Executes, NoSlice
<1>2. \A d \in Callers : Unanswered(d) => call[d].id # 0
  BY SMTT(60) DEF Unanswered, IdentInv, IdInv, Issued, Types, TypeCommands
<1>3. Elements(commands) = {m} \cup Elements(commands') /\ NoNewWait
  BY ZenonT(60), PopFacts
<1>4. \A d \in Callers : Unanswered(d) =>
         /\ \A n \in Elements(commands) : n.id = call[d].id => Seen(d)
         /\ \A w \in Elements(pending) : w.id = call[d].id => Seen(d)
         /\ slice.id = call[d].id => Seen(d)
  BY ZenonT(60), <1>1, <1>2, <1>3 DEF Seen
<1> QED
  BY ZenonT(60), <1>3, <1>4, VisibleKeeps

LEMMA VisibleRemoved ==
    ASSUME Types, IdentInv, VisibleInv, NEW c \in Callers, Waits(c), Leaves(c),
           commands' = Without(call[c].id), UNCHANGED <<pending, slice>>
    PROVE  VisibleInv'
<1>1. \A d \in Callers : Unanswered(d) => call[d].id # call[c].id
  <2>1. ~Unanswered(c)
    BY ZenonT(60) DEF Unanswered, Leaves, Moved, Waiting
  <2> QED
    BY ZenonT(60), <2>1 DEF Unanswered, IdentInv, IdInv
<1>2. call[c].id \in Nat
  BY ZenonT(60) DEF Types, TypeCall, CallRecords
<1>3. \A m \in Elements(commands) : m.id # call[c].id => m \in Elements(commands')
  BY ZenonT(60), <1>2, WithoutFacts DEF Types
<1>4. \A d \in Callers : Unanswered(d) =>
         /\ \A m \in Elements(commands) : m.id = call[d].id => Seen(d)
         /\ \A w \in Elements(pending) : w.id = call[d].id => Seen(d)
         /\ slice.id = call[d].id => Seen(d)
  BY ZenonT(60), <1>1, <1>3 DEF Seen
<1> QED
  BY ZenonT(60), <1>4, VisibleKeeps, NoNewWaits, AnswersAreKept

LEMMA VisibleStep ==
    ASSUME Types, IdentInv, VisibleInv, [Next]_vars
    PROVE  VisibleInv'
<1>1. UNCHANGED <<commands, pending, slice, call, reply>> => VisibleInv'
  BY ZenonT(60) DEF VisibleInv, Visible, Waits
<1>2. ASSUME NEW c \in Callers, HostStep(c) PROVE VisibleInv'
  <2>1. CASE EnsureRefused(c)
    <3>1. UNCHANGED <<commands, pending, slice>>
      BY ZenonT(60), <2>1 DEF EnsureRefused, actor, queues
    <3> QED
      BY ZenonT(60), <2>1, <3>1, HostLeaves, NoNewWaits, AnswersAreKept, VisibleSame
  <2>2. CASE EnsureLive(c)
    <3>1. Moved(c, "push", call[c].id) /\ "push" \notin Waiting
      BY ZenonT(60), <2>2, HostMoves DEF Waiting
    <3>2. UNCHANGED <<commands, pending, slice, reply>>
      BY ZenonT(60), <2>2 DEF EnsureLive, actor, queues
    <3> QED
      BY ZenonT(60), <3>1, <3>2, NoNewWaits, AnswersAreKept, VisibleSame
  <2>3. CASE EnsureSpawn(c)
    <3>1. Moved(c, "boot_push", call[c].id) /\ "boot_push" \notin Waiting
      BY ZenonT(60), <2>3, HostMoves DEF Waiting
    <3>2. UNCHANGED <<commands, pending, slice, reply>>
      BY ZenonT(60), <2>3 DEF EnsureSpawn, SpawnActor, queues
    <3> QED
      BY ZenonT(60), <3>1, <3>2, NoNewWaits, AnswersAreKept, VisibleSame
  <2>4. CASE Push(c)
    <3> DEFINE m == [id |-> nextId, caller |-> c,
                     kind |-> IF call[c].pc = "push" THEN call[c].kind ELSE "boot"]
    <3>1. /\ commands' = Append(commands, m) /\ m.id = nextId
          /\ UNCHANGED <<pending, slice, reply>>
      BY ZenonT(60), <2>4 DEF Push, actor, queues
    <3>2. m \in CommandRecords
      BY ZenonT(60) DEF CommandRecords, CallRecords, Types, TypeCall, TypeCommands
    <3> HIDE DEF m
    <3>3. Elements(commands') = Elements(commands) \cup {m}
      BY SMTT(60), <3>1, <3>2, ElementsFacts DEF Types, TypeCommands
    <3>4. call'[c].id = nextId /\ \A d \in Callers : d # c => call'[d] = call[d]
      BY ZenonT(60), <2>4, HostMoves DEF Moved
    <3> QED
      BY ZenonT(60), <3>1, <3>3, <3>4 DEF VisibleInv, Visible, Waits
  <2>5. CASE PushRefused(c)
    <3>1. UNCHANGED <<commands, pending, slice>>
      BY ZenonT(60), <2>5 DEF PushRefused, Rollback, actor, queues
    <3> QED
      BY ZenonT(60), <2>5, <3>1, HostLeaves, NoNewWaits, AnswersAreKept, VisibleSame
  <2>6. CASE WakeActor(c)
    <3>1. UNCHANGED <<commands, pending, slice, reply>>
      BY ZenonT(60), <2>6 DEF WakeActor, queues
    <3> QED
      BY ZenonT(60), <2>6, <3>1, NoNewWaits, AnswersAreKept, VisibleSame
  <2>7. CASE WakeFails(c)
    <3>1. commands' = Without(call[c].id) /\ UNCHANGED <<pending, slice>> /\ Waits(c)
      BY ZenonT(60), <2>7 DEF WakeFails, actor, queues, Waits, Waiting
    <3> QED
      BY ZenonT(60), <2>7, <3>1, HostLeaves, VisibleRemoved
  <2>8. CASE BootWakeFails(c)
    <3>1. commands' = Without(call[c].id) /\ UNCHANGED <<pending, slice>> /\ Waits(c)
      BY ZenonT(60), <2>8 DEF BootWakeFails, Rollback, actor, queues, Waits, Waiting
    <3> QED
      BY ZenonT(60), <2>8, <3>1, HostLeaves, VisibleRemoved
  <2>9. CASE BootOk(c)
    <3>1. UNCHANGED <<commands, pending, slice>>
      BY ZenonT(60), <2>9 DEF BootOk, Rollback, actor, queues
    <3> QED
      BY ZenonT(60), <2>9, <3>1, HostLeaves, NoNewWaits, AnswersAreKept, VisibleSame
  <2>10. CASE BootFails(c)
    <3>1. commands' = Without(call[c].id) /\ UNCHANGED <<pending, slice>> /\ Waits(c)
      BY ZenonT(60), <2>10 DEF BootFails, Rollback, actor, queues, Waits, Waiting
    <3> QED
      BY ZenonT(60), <2>10, <3>1, HostLeaves, VisibleRemoved
  <2>11. CASE TakeReply(c)
    <3>1. UNCHANGED <<commands, pending, slice>>
      BY ZenonT(60), <2>11 DEF TakeReply, actor, queues
    <3> QED
      BY ZenonT(60), <2>11, <3>1, HostLeaves, NoNewWaits, AnswersAreKept, VisibleSame
  <2>12. CASE ReceiveTimesOut(c)
    <3>1. UNCHANGED <<commands, pending, slice>>
      BY ZenonT(60), <2>12 DEF ReceiveTimesOut, actor, queues
    <3> QED
      BY ZenonT(60), <2>12, <3>1, HostLeaves, NoNewWaits, AnswersAreKept, VisibleSame
  <2>13. CASE FinalizeMark(c)
    <3>1. Moved(c, "fin_phase", call[c].id) /\ "fin_phase" \notin Waiting
      BY ZenonT(60), <2>13, HostMoves DEF Waiting
    <3>2. Answers("err", Elements(commands)) /\ UNCHANGED <<pending, slice>>
      BY ZenonT(60), <2>13 DEF FinalizeMark, MarkFinalized, actor
    <3> QED
      BY ZenonT(60), <3>1, <3>2, NoNewWaits, VisibleDrained
  <2>14. CASE FinalizeAgain(c)
    <3>1. UNCHANGED <<commands, pending, slice>>
      BY ZenonT(60), <2>14 DEF FinalizeAgain, actor, queues
    <3> QED
      BY ZenonT(60), <2>14, <3>1, HostLeaves, NoNewWaits, AnswersAreKept, VisibleSame
  <2>15. CASE FinalizePhase(c)
    <3>1. Moved(c, "fin_release", call[c].id) /\ "fin_release" \notin Waiting
      BY ZenonT(60), <2>15, HostMoves DEF Waiting
    <3>2. UNCHANGED <<commands, pending, slice, reply>>
      BY ZenonT(60), <2>15 DEF FinalizePhase, actor, queues
    <3> QED
      BY ZenonT(60), <3>1, <3>2, NoNewWaits, AnswersAreKept, VisibleSame
  <2>16. CASE FinalizeRelease(c)
    <3>1. Moved(c, "idle", 0) /\ "idle" \notin Waiting
      BY ZenonT(60), <2>16, HostMoves DEF Waiting
    <3>2. Answers("err", Elements(pending)) /\ UNCHANGED <<commands, slice>>
      BY ZenonT(60), <2>16 DEF FinalizeRelease
    <3>3. \A d \in Callers, w \in Elements(pending) : Unanswered(d) => w.id # call[d].id
      BY ZenonT(60), <3>2, OwnersAnswered
    <3> QED
      BY ZenonT(60), <3>1, <3>2, <3>3, NoNewWaits, AnswersAreKept, VisibleReleased
  <2> QED
    BY ZenonT(60), <1>2, <2>1, <2>2, <2>3, <2>4, <2>5, <2>6, <2>7, <2>8, <2>9, <2>10, <2>11, <2>12, <2>13,
       <2>14, <2>15, <2>16 DEF HostStep
<1>3. ASSUME NEW c \in Callers, NEW kind \in Kinds, Begin(c, kind) PROVE VisibleInv'
  <2>1. Moved(c, "ensure", 0) /\ "ensure" \notin Waiting
    BY ZenonT(60), <1>3, HostMoves DEF Waiting
  <2>2. UNCHANGED <<commands, pending, slice, reply>>
    BY ZenonT(60), <1>3 DEF Begin, actor, queues
  <2> QED
    BY ZenonT(60), <2>1, <2>2, NoNewWaits, AnswersAreKept, VisibleSame
<1>4. CASE IdleWake
  BY ZenonT(60), <1>1, <1>4 DEF IdleWake
<1>5. ASSUME NEW m \in CommandRecords, Executes(m) PROVE VisibleInv'
  <2>1. CASE BootSlice(m)
    <3>1. m \in Elements(commands)
      BY ZenonT(60), <1>5, PopFacts
    <3>2. CASE RecordExit("unknown", {m}, "ok") \/ RecordExit("unknown", {m}, "err")
      <4>1. \A d \in Callers, x \in {m} \cup Elements(pending) :
               Unanswered(d) /\ x.id = call[d].id => x.caller = d /\ Listening(d, x.id)
        BY SMTT(60), <3>1 DEF Unanswered, Listening, Waits, IdentInv, OwnerInv
      <4>2. \A d \in Callers : Unanswered(d) => m.id # call[d].id
        BY SMTT(60), <3>2, <4>1, RecordExitFacts DEF Unanswered
      <4>3. pending' # pending => \A d \in Callers, w \in Elements(pending) :
               Unanswered(d) => w.id # call[d].id
        BY SMTT(60), <3>2, <4>1, RecordExitFacts DEF Unanswered
      <4>4. AnswersKept
        BY ZenonT(60), <3>2, RecordExitFacts DEF AnswersKept, Unanswered
      <4> QED
        BY ZenonT(60), <1>5, <4>2, <4>3, <4>4, VisiblePopped
    <3>3. CASE (Answers("ok", {m}) \/ Answers("err", {m})) /\ pending' = pending
      <4>1. \A d \in Callers : Unanswered(d) => m.id # call[d].id
        BY ZenonT(60), <3>1, <3>3, OwnersAnswered
      <4> QED
        BY ZenonT(60), <1>5, <3>3, <4>1, AnswersAreKept, VisiblePopped
    <3> QED
      BY ZenonT(60), <2>1, <3>2, <3>3 DEF BootSlice, LinkParticipant
  <2>2. CASE SendSlice(m)
    <3>1. (Answers("ok", {m}) \/ Answers("err", {m})) /\ pending' = pending
      BY ZenonT(60), <2>2 DEF SendSlice, queues
    <3>2. m \in Elements(commands)
      BY ZenonT(60), <1>5, PopFacts
    <3>3. \A d \in Callers : Unanswered(d) => m.id # call[d].id
      BY ZenonT(60), <3>1, <3>2, OwnersAnswered
    <3> QED
      BY ZenonT(60), <1>5, <3>1, <3>3, AnswersAreKept, VisiblePopped
  <2>3. CASE ReceiveSlice(m)
    <3> DEFINE w == [caller |-> m.caller, id |-> m.id]
    <3>1. m \in Elements(commands)
      BY ZenonT(60), <1>5, PopFacts
    <3>2. CASE pending' = Append(pending, w) /\ UNCHANGED reply
      <4>1. w \in Waiters /\ w.id = m.id
        BY ZenonT(60) DEF Waiters, CommandRecords
      <4> HIDE DEF w
      <4>2. Elements(pending') = Elements(pending) \cup {w}
        BY SMTT(60), <3>2, <4>1, ElementsFacts DEF Types, TypePending
      <4>3. \A d \in Callers : m.id # call[d].id \/ Seen(d)
        BY ZenonT(60), <4>1, <4>2 DEF Seen
      <4> QED
        BY ZenonT(60), <1>5, <3>2, <4>2, <4>3, AnswersAreKept, VisiblePopped
    <3>3. CASE (Answers("ok", {m}) \/ Answers("err", {m})) /\ pending' = pending
      <4>1. \A d \in Callers : Unanswered(d) => m.id # call[d].id
        BY ZenonT(60), <3>1, <3>3, OwnersAnswered
      <4> QED
        BY ZenonT(60), <1>5, <3>3, <4>1, AnswersAreKept, VisiblePopped
    <3> QED
      BY ZenonT(60), <2>3, <3>2, <3>3 DEF ReceiveSlice
  <2>4. CASE QuerySlice(m)
    <3>1. (Answers("ok", {m}) \/ Answers("err", {m})) /\ pending' = pending
      BY ZenonT(60), <2>4 DEF QuerySlice, queues
    <3>2. m \in Elements(commands)
      BY ZenonT(60), <1>5, PopFacts
    <3>3. \A d \in Callers : Unanswered(d) => m.id # call[d].id
      BY ZenonT(60), <3>1, <3>2, OwnersAnswered
    <3> QED
      BY ZenonT(60), <1>5, <3>1, <3>3, AnswersAreKept, VisiblePopped
  <2>5. CASE CloseSlice(m)
    <3>1. slice'.id = m.id /\ UNCHANGED <<pending, reply>>
      BY ZenonT(60), <2>5 DEF CloseSlice, queues
    <3>2. \A d \in Callers : m.id # call[d].id \/ Seen(d)
      BY ZenonT(60), <3>1 DEF Seen
    <3> QED
      BY ZenonT(60), <1>5, <3>1, <3>2, AnswersAreKept, VisiblePopped
  <2> QED
    BY ZenonT(60), <1>5, <2>1, <2>2, <2>3, <2>4, <2>5 DEF Executes
<1>6. CASE ActorStep /\ ~ProcessNextCommand
  <2>1. CASE CloseMark
    <3>1. slice'.id = slice.id /\ UNCHANGED <<pending, call>>
      BY ZenonT(60), <2>1, SliceMoves DEF CloseMark, Types, SliceSteps
    <3>2. CASE finalized
      <4>1. UNCHANGED <<commands, reply>>
        BY ZenonT(60), <2>1, <3>2 DEF CloseMark
      <4> QED
        BY ZenonT(60), <3>1, <4>1, NoNewWaits DEF VisibleInv, Visible, Waits
    <3>3. CASE ~finalized
      <4>1. Answers("err", Elements(commands))
        BY ZenonT(60), <2>1, <3>3 DEF CloseMark, MarkFinalized
      <4> QED
        BY ZenonT(60), <3>1, <4>1, NoNewWaits, VisibleDrained
    <3> QED
      BY ZenonT(60), <3>2, <3>3
  <2>2. CASE CloseRelease
    <3>1. UNCHANGED <<commands, call>>
      BY ZenonT(60), <2>2 DEF CloseRelease
    <3>2. \A d \in Callers, w \in Elements(pending) :
             Unanswered(d) /\ w.id = call[d].id => w.caller = d /\ Listening(d, w.id)
      BY ZenonT(60) DEF Unanswered, Listening, Waits, IdentInv, OwnerInv
    <3>3. \A d \in Callers :
             Unanswered(d) /\ slice.id = call[d].id => slice.caller = d /\ Listening(d, slice.id)
      BY ZenonT(60) DEF Unanswered, Listening, Waits, IdentInv, OwnerInv
    <3>4. \A d \in Callers :
             /\ slice.caller = d /\ Listening(d, slice.id) => reply'[d] = "ok"
             /\ (\E w \in Elements(pending) : w.caller = d /\ Listening(d, w.id)) =>
                   reply'[d] # "none"
             /\ reply'[d] = "none" => reply[d] = "none"
      BY ZenonT(60), <2>2 DEF CloseRelease
    <3>5. AnswersKept
      BY ZenonT(60), <3>4 DEF AnswersKept, Unanswered
    <3>6. \A d \in Callers, w \in Elements(pending) : Unanswered(d) => w.id # call[d].id
      BY ZenonT(60), <3>2, <3>4 DEF Unanswered
    <3>7. \A d \in Callers : Unanswered(d) => slice.id # call[d].id
      BY ZenonT(60), <3>3, <3>4 DEF Unanswered
    <3> QED
      BY ZenonT(60), <3>1, <3>5, <3>6, <3>7, NoNewWaits, VisibleReleased
  <2>3. CASE HandleParticipantExit
    <3>1. UNCHANGED <<commands, slice, call>> /\ \E reason : RecordExit(reason, {}, "ok")
      BY ZenonT(60), <2>3 DEF HandleParticipantExit
    <3>2. AnswersKept
      BY ZenonT(60), <3>1, RecordExitFacts DEF AnswersKept, Unanswered
    <3>3. CASE pending' = pending
      BY ZenonT(60), <3>1, <3>2, <3>3, NoNewWaits, VisibleSame
    <3>4. CASE pending' # pending
      <4>1. \A d \in Callers, w \in Elements(pending) :
               Unanswered(d) /\ w.id = call[d].id => w.caller = d /\ Listening(d, w.id)
        BY ZenonT(60) DEF Unanswered, Listening, Waits, IdentInv, OwnerInv
      <4>2. \A d \in Callers, w \in Elements(pending) : Unanswered(d) => w.id # call[d].id
        BY SMTT(60), <3>1, <3>4, <4>1, RecordExitFacts DEF Unanswered
      <4> QED
        BY ZenonT(60), <3>1, <3>2, <4>2, NoNewWaits, VisibleReleased
    <3> QED
      BY ZenonT(60), <3>3, <3>4
  <2>4. CASE HandleWatcherExit
    <3>1. slice.id = 0 /\ slice'.id = 0 /\ UNCHANGED <<commands, pending, call, reply>>
      BY ZenonT(60), <2>4 DEF HandleWatcherExit, NoSlice, queues
    <3> QED
      BY ZenonT(60), <3>1 DEF VisibleInv, Visible, Waits
  <2>5. CASE WatcherExitFails
    <3>1. slice'.id = slice.id /\ UNCHANGED <<commands, pending, call, reply>>
      BY ZenonT(60), <2>5, SliceMoves DEF WatcherExitFails, Types, SliceSteps, queues
    <3> QED
      BY ZenonT(60), <3>1 DEF VisibleInv, Visible, Waits
  <2>6. CASE WatcherExitMark
    <3>1. slice.id = 0 /\ UNCHANGED <<pending, call>>
      BY ZenonT(60), <2>6 DEF WatcherExitMark, IdentInv, IdInv
    <3>2. slice'.id = 0
      BY ZenonT(60), <2>6, <3>1, SliceMoves DEF WatcherExitMark, Types, SliceSteps
    <3>3. CASE finalized
      <4>1. UNCHANGED <<commands, reply>>
        BY ZenonT(60), <2>6, <3>3 DEF WatcherExitMark
      <4> QED
        BY ZenonT(60), <3>1, <3>2, <4>1 DEF VisibleInv, Visible, Waits
    <3>4. CASE ~finalized
      <4>1. Answers("err", Elements(commands))
        BY ZenonT(60), <2>6, <3>4 DEF WatcherExitMark, MarkFinalized
      <4> QED
        BY ZenonT(60), <3>1, <3>2, <4>1, NoNewWaits, VisibleDrained
    <3> QED
      BY ZenonT(60), <3>3, <3>4
  <2>7. CASE WatcherExitRelease
    <3>1. Answers("err", Elements(pending)) /\ UNCHANGED <<commands, call>>
      BY ZenonT(60), <2>7 DEF WatcherExitRelease
    <3>2. slice.id = 0 /\ slice'.id = 0
      BY ZenonT(60), <2>7 DEF WatcherExitRelease, NoSlice, IdentInv, IdInv
    <3>3. \A d \in Callers, w \in Elements(pending) : Unanswered(d) => w.id # call[d].id
      BY ZenonT(60), <3>1, OwnersAnswered
    <3> QED
      BY ZenonT(60), <3>1, <3>2, <3>3, NoNewWaits, AnswersAreKept, VisibleReleased
  <2> QED
    BY ZenonT(60), <1>6, <2>1, <2>2, <2>3, <2>4, <2>5, <2>6, <2>7 DEF ActorStep
<1>7. CASE RegisterExitNotifier \/ ActorCrash \/ ParticipantCrash \/ WatcherKilled
  BY ZenonT(60), <1>1, <1>7 DEF RegisterExitNotifier, ActorCrash, ParticipantCrash, WatcherKilled, actor,
     queues
<1>8. CASE ParticipantStep
  <2>1. UNCHANGED <<commands, slice, call>>
    BY ZenonT(60), <1>8 DEF ParticipantStep, actor
  <2>2. CASE ~part.registered \/ requests = <<>>
    BY ZenonT(60), <1>1, <1>8, <2>1, <2>2 DEF ParticipantStep, queues
  <2>3. CASE part.registered /\ requests # <<>>
    <3>1. DeliverLocalReply(Head(requests)) /\ Head(requests) \in Nat
      BY ZenonT(60), <1>8, <2>3, ElementsFacts DEF ParticipantStep, Types, TypeReplies
    <3>2. CASE pending = <<>>
      BY ZenonT(60), <2>1, <3>1, <3>2, DeliverFacts, NoNewWaits, AnswersAreKept, VisibleSame
    <3>3. CASE pending # <<>>
      <4>1. /\ Head(pending) \in Elements(pending) /\ Answers("ok", {Head(pending)})
            /\ pending' = Tail(pending)
        BY ZenonT(60), <3>1, <3>3, DeliverFacts
      <4>2. Elements(pending) = {Head(pending)} \cup Elements(pending')
        BY ZenonT(60), <3>3, <4>1, ElementsFacts DEF Types, TypePending
      <4>3. \A d \in Callers : Unanswered(d) => Head(pending).id # call[d].id
        BY ZenonT(60), <4>1, OwnersAnswered
      <4>4. \A d \in Callers : Unanswered(d) =>
               /\ \A m \in Elements(commands) : m.id = call[d].id => Seen(d)
               /\ \A w \in Elements(pending) : w.id = call[d].id => Seen(d)
               /\ slice.id = call[d].id => Seen(d)
        BY ZenonT(60), <2>1, <4>2, <4>3 DEF Seen
      <4> QED
        BY ZenonT(60), <2>1, <4>1, <4>4, NoNewWaits, AnswersAreKept, VisibleKeeps
    <3> QED
      BY ZenonT(60), <3>2, <3>3
  <2> QED
    BY ZenonT(60), <2>2, <2>3
<1>9. ASSUME NEW i \in 1..MaxSpawns, WatcherCleanup(i) PROVE VisibleInv'
  BY ZenonT(60), <1>1, <1>9 DEF WatcherCleanup, actor, queues
<1>10. CASE UNCHANGED vars
  BY ZenonT(60), <1>1, <1>10 DEF vars, actor, queues
<1> QED
  BY ZenonT(60), <1>2, <1>3, <1>4, <1>5, <1>6, <1>7, <1>8, <1>9, <1>10, ProcessCases DEF Next, ActorStep

(***************************************************************************)
(* An actor that is not booted has a caller that will roll it back.        *)
(***************************************************************************)
LEMMA BootMoves ==
    ASSUME Types, BootInv, NEW c \in Callers, NEW p, NEW i, Moved(c, p, i),
           UNCHANGED <<alive, booted, slice, pid>>,
           call[c].pc \in Booting => p \in Booting
    PROVE  BootInv'
<1>1. (\E d \in Callers : call[d].pc \in Booting) => \E d \in Callers : call'[d].pc \in Booting
  BY ZenonT(60) DEF Moved
<1> QED
  BY ZenonT(60), <1>1 DEF BootInv

LEMMA BootLeaves ==
    ASSUME Types, BootInv, NEW c \in Callers, Leaves(c), call[c].pc \notin Booting,
           UNCHANGED <<alive, booted, slice, pid>>
    PROVE  BootInv'
<1>1. PICK p \in {"idle", "push"}, i \in Nat : Moved(c, p, i)
  BY ZenonT(60) DEF Leaves
<1> QED
  BY ZenonT(60), <1>1, BootMoves

LEMMA BootStops ==
    ASSUME BootInv, ~alive', UNCHANGED <<booted, slice, pid>>
    PROVE  BootInv'
BY ZenonT(60) DEF BootInv

LEMMA BootStep ==
    ASSUME Types, ReplyInv, BootInv, [Next]_vars
    PROVE  BootInv'
<1>1. UNCHANGED <<alive, booted, call, slice, pid>> => BootInv'
  BY SMTT(60) DEF BootInv
<1>2. ASSUME NEW c \in Callers, HostStep(c) PROVE BootInv'
  <2>1. CASE EnsureRefused(c)
    <3>1. call[c].pc \notin Booting /\ UNCHANGED <<alive, booted, slice, pid>>
      BY ZenonT(60), <2>1 DEF EnsureRefused, actor, Booting
    <3> QED
      BY ZenonT(60), <2>1, <3>1, HostLeaves, BootLeaves
  <2>2. CASE EnsureLive(c)
    <3>1. Moved(c, "push", call[c].id)
      BY ZenonT(60), <2>2, HostMoves
    <3>2. UNCHANGED <<alive, booted, slice, pid>>
      BY ZenonT(60), <2>2 DEF EnsureLive, actor
    <3>3. call[c].pc \in Booting => "push" \in Booting
      BY ZenonT(60), <2>2 DEF EnsureLive, Booting
    <3> QED
      BY ZenonT(60), <3>1, <3>2, <3>3, BootMoves
  <2>3. CASE EnsureSpawn(c)
    <3>1. Moved(c, "boot_push", call[c].id)
      BY ZenonT(60), <2>3, HostMoves
    <3>2. call'[c].pc \in Booting /\ ~booted'
      BY ZenonT(60), <2>3, <3>1 DEF EnsureSpawn, SpawnActor, Moved, Booting
    <3> QED
      BY ZenonT(60), <3>2 DEF BootInv
  <2>4. CASE Push(c)
    <3>1. Moved(c, (IF call[c].pc = "push" THEN "wake" ELSE "boot_wake"), nextId)
      BY ZenonT(60), <2>4, HostMoves
    <3>2. UNCHANGED <<alive, booted, slice, pid>>
      BY ZenonT(60), <2>4 DEF Push, actor
    <3>3. call[c].pc \in Booting => (IF call[c].pc = "push" THEN "wake" ELSE "boot_wake") \in Booting
      BY ZenonT(60), <2>4 DEF Push, Booting
    <3> QED
      BY ZenonT(60), <3>1, <3>2, <3>3, BootMoves
  <2>5. CASE PushRefused(c)
    <3>1. CASE call[c].pc = "boot_push"
      BY ZenonT(60), <2>5, <3>1, BootStops DEF PushRefused, Rollback
    <3>2. CASE call[c].pc # "boot_push"
      <4>1. call[c].pc \notin Booting /\ UNCHANGED <<alive, booted, slice, pid>>
        BY ZenonT(60), <2>5, <3>2 DEF PushRefused, actor, Booting
      <4> QED
        BY ZenonT(60), <2>5, <4>1, HostLeaves, BootLeaves
    <3> QED
      BY ZenonT(60), <3>1, <3>2
  <2>6. CASE WakeActor(c)
    <3>1. Moved(c, (IF call[c].pc = "wake" THEN "wait" ELSE "boot_wait"), call[c].id)
      BY ZenonT(60), <2>6, HostMoves
    <3>2. UNCHANGED <<alive, booted, slice, pid>>
      BY ZenonT(60), <2>6 DEF WakeActor, actor
    <3>3. call[c].pc \in Booting => (IF call[c].pc = "wake" THEN "wait" ELSE "boot_wait") \in Booting
      BY ZenonT(60), <2>6 DEF WakeActor, Booting
    <3> QED
      BY ZenonT(60), <3>1, <3>2, <3>3, BootMoves
  <2>7. CASE WakeFails(c)
    <3>1. call[c].pc \notin Booting /\ UNCHANGED <<alive, booted, slice, pid>>
      BY ZenonT(60), <2>7 DEF WakeFails, actor, Booting
    <3> QED
      BY ZenonT(60), <2>7, <3>1, HostLeaves, BootLeaves
  <2>8. CASE BootWakeFails(c)
    BY ZenonT(60), <2>8, BootStops DEF BootWakeFails, Rollback
  <2>9. CASE BootOk(c)
    <3>1. CASE finalized
      BY ZenonT(60), <2>9, <3>1, BootStops DEF BootOk, Rollback
    <3>2. CASE ~finalized
      <4>1. booted /\ UNCHANGED <<booted, slice, pid>>
        BY ZenonT(60), <2>9, <3>2 DEF BootOk, actor, ReplyInv, Booting
      <4> QED
        BY ZenonT(60), <4>1 DEF BootInv
    <3> QED
      BY ZenonT(60), <3>1, <3>2
  <2>10. CASE BootFails(c)
    BY ZenonT(60), <2>10, BootStops DEF BootFails, Rollback
  <2>11. CASE TakeReply(c)
    <3>1. call[c].pc \notin Booting /\ UNCHANGED <<alive, booted, slice, pid>>
      BY ZenonT(60), <2>11 DEF TakeReply, actor, Booting
    <3> QED
      BY ZenonT(60), <2>11, <3>1, HostLeaves, BootLeaves
  <2>12. CASE ReceiveTimesOut(c)
    <3>1. call[c].pc \notin Booting /\ UNCHANGED <<alive, booted, slice, pid>>
      BY ZenonT(60), <2>12 DEF ReceiveTimesOut, actor, Booting
    <3> QED
      BY ZenonT(60), <2>12, <3>1, HostLeaves, BootLeaves
  <2>13. CASE FinalizeMark(c)
    <3>1. Moved(c, "fin_phase", call[c].id)
      BY ZenonT(60), <2>13, HostMoves
    <3>2. UNCHANGED <<alive, booted, slice, pid>>
      BY ZenonT(60), <2>13 DEF FinalizeMark, actor
    <3>3. call[c].pc \in Booting => "fin_phase" \in Booting
      BY ZenonT(60), <2>13 DEF FinalizeMark, Booting
    <3> QED
      BY ZenonT(60), <3>1, <3>2, <3>3, BootMoves
  <2>14. CASE FinalizeAgain(c)
    <3>1. call[c].pc \notin Booting /\ UNCHANGED <<alive, booted, slice, pid>>
      BY ZenonT(60), <2>14 DEF FinalizeAgain, actor, Booting
    <3> QED
      BY ZenonT(60), <2>14, <3>1, HostLeaves, BootLeaves
  <2>15. CASE FinalizePhase(c)
    <3>1. Moved(c, "fin_release", call[c].id)
      BY ZenonT(60), <2>15, HostMoves
    <3>2. UNCHANGED <<alive, booted, slice, pid>>
      BY ZenonT(60), <2>15 DEF FinalizePhase, actor
    <3>3. call[c].pc \in Booting => "fin_release" \in Booting
      BY ZenonT(60), <2>15 DEF FinalizePhase, Booting
    <3> QED
      BY ZenonT(60), <3>1, <3>2, <3>3, BootMoves
  <2>16. CASE FinalizeRelease(c)
    BY ZenonT(60), <2>16, BootStops DEF FinalizeRelease
  <2> QED
    BY ZenonT(60), <1>2, <2>1, <2>2, <2>3, <2>4, <2>5, <2>6, <2>7, <2>8, <2>9, <2>10, <2>11, <2>12, <2>13,
       <2>14, <2>15, <2>16 DEF HostStep
<1>3. ASSUME NEW c \in Callers, NEW kind \in Kinds, Begin(c, kind) PROVE BootInv'
  <2>1. Moved(c, "ensure", 0)
    BY ZenonT(60), <1>3, HostMoves
  <2>2. UNCHANGED <<alive, booted, slice, pid>>
    BY ZenonT(60), <1>3 DEF Begin, actor
  <2>3. call[c].pc \in Booting => "ensure" \in Booting
    BY ZenonT(60), <1>3 DEF Begin, Booting
  <2> QED
    BY ZenonT(60), <2>1, <2>2, <2>3, BootMoves
<1>4. CASE IdleWake
  BY ZenonT(60), <1>1, <1>4 DEF IdleWake
<1>5. ASSUME NEW m \in CommandRecords, Executes(m) PROVE BootInv'
  <2>1. CASE SendSlice(m) \/ ReceiveSlice(m) \/ QuerySlice(m)
    BY ZenonT(60), <1>1, <1>5, <2>1 DEF SendSlice, ReceiveSlice, QuerySlice, Executes, actor
  <2>2. CASE BootSlice(m)
    <3>1. /\ booted' = TRUE \/ booted' = booted
          /\ slice'.step = "idle" /\ UNCHANGED <<alive, call>>
      BY ZenonT(60), <1>5, <2>2 DEF BootSlice, LinkParticipant, Executes, NoSlice
    <3> QED
      BY ZenonT(60), <3>1 DEF BootInv
  <2>3. CASE CloseSlice(m)
    <3>1. slice'.pid = pid /\ UNCHANGED <<alive, booted, pid, call>>
      BY ZenonT(60), <1>5, <2>3 DEF CloseSlice, Executes
    <3> QED
      BY ZenonT(60), <3>1 DEF BootInv
  <2> QED
    BY ZenonT(60), <1>5, <2>1, <2>2, <2>3 DEF Executes
<1>6. CASE ActorStep /\ ~ProcessNextCommand
  <2>1. CASE HandleParticipantExit
    BY ZenonT(60), <1>1, <2>1 DEF HandleParticipantExit, actor
  <2>2. CASE CloseMark
    <3>1. slice.step # "idle" /\ slice'.pid = slice.pid
      BY ZenonT(60), <2>2, SliceMoves DEF CloseMark, Types, SliceSteps
    <3>2. UNCHANGED <<alive, booted, pid, call>>
      BY ZenonT(60), <2>2 DEF CloseMark
    <3> QED
      BY ZenonT(60), <3>1, <3>2 DEF BootInv
  <2>3. CASE CloseRelease
    <3>1. slice'.step = "idle" /\ UNCHANGED <<booted, pid, call>>
      BY ZenonT(60), <2>3 DEF CloseRelease, NoSlice
    <3>2. alive' => alive
      BY ZenonT(60), <2>3, StopSelfFacts DEF CloseRelease
    <3> QED
      BY ZenonT(60), <3>1, <3>2 DEF BootInv
  <2>4. CASE HandleWatcherExit
    <3>1. UNCHANGED <<alive, booted, pid, call>>
      BY ZenonT(60), <2>4 DEF HandleWatcherExit
    <3>2. slice' = slice \/ slice'.pid = pid
      BY ZenonT(60), <2>4 DEF HandleWatcherExit, NoSlice
    <3> QED
      BY ZenonT(60), <3>1, <3>2 DEF BootInv
  <2>5. CASE WatcherExitFails
    <3>1. slice.step # "idle" /\ slice'.pid = slice.pid
      BY ZenonT(60), <2>5, SliceMoves DEF WatcherExitFails, Types, SliceSteps
    <3>2. UNCHANGED <<alive, booted, pid, call>>
      BY ZenonT(60), <2>5 DEF WatcherExitFails
    <3> QED
      BY ZenonT(60), <3>1, <3>2 DEF BootInv
  <2>6. CASE WatcherExitMark
    <3>1. UNCHANGED <<booted, pid, call>> /\ slice.step # "idle"
      BY ZenonT(60), <2>6 DEF WatcherExitMark
    <3>2. slice'.step = "idle" \/ slice'.pid = slice.pid
      BY ZenonT(60), <2>6, SliceMoves DEF WatcherExitMark, Types, SliceSteps
    <3>3. alive' => alive
      BY ZenonT(60), <2>6, StopSelfFacts DEF WatcherExitMark
    <3> QED
      BY ZenonT(60), <3>1, <3>2, <3>3 DEF BootInv
  <2>7. CASE WatcherExitRelease
    <3>1. slice'.step = "idle" /\ UNCHANGED <<booted, pid, call>>
      BY ZenonT(60), <2>7 DEF WatcherExitRelease, NoSlice
    <3>2. alive' => alive
      BY ZenonT(60), <2>7, StopSelfFacts DEF WatcherExitRelease
    <3> QED
      BY ZenonT(60), <3>1, <3>2 DEF BootInv
  <2> QED
    BY ZenonT(60), <1>6, <2>1, <2>2, <2>3, <2>4, <2>5, <2>6, <2>7 DEF ActorStep
<1>7. CASE ParticipantStep \/ RegisterExitNotifier \/ ParticipantCrash \/ WatcherKilled
  BY ZenonT(60), <1>1, <1>7 DEF ParticipantStep, RegisterExitNotifier, ParticipantCrash, WatcherKilled,
     actor
<1>8. CASE ActorCrash
  BY ZenonT(60), <1>8, BootStops DEF ActorCrash
<1>9. ASSUME NEW i \in 1..MaxSpawns, WatcherCleanup(i) PROVE BootInv'
  BY ZenonT(60), <1>1, <1>9 DEF WatcherCleanup, actor
<1>10. CASE UNCHANGED vars
  BY ZenonT(60), <1>1, <1>10 DEF vars, actor
<1> QED
  BY ZenonT(60), <1>2, <1>3, <1>4, <1>5, <1>6, <1>7, <1>8, <1>9, <1>10, ProcessCases DEF Next, ActorStep

(***************************************************************************)
(* Finalization is carried to its end by whoever began it.                 *)
(***************************************************************************)
LEMMA FinalMoves ==
    ASSUME FinalInv, NEW c \in Callers, NEW p, NEW i, Moved(c, p, i),
           UNCHANGED <<finalized, slice, registered, part, watcher, pid, pending, alive>>,
           call[c].pc \in Booting => p \in Booting,
           call[c].pc \in Finalizing => p \in Finalizing
    PROVE  FinalInv'
<1>1. Releasing => Releasing'
  BY ZenonT(60) DEF Releasing, Moved
<1>2. Released => Released'
  BY ZenonT(60) DEF Released
<1>3. Stopped => Stopped'
  BY ZenonT(60) DEF Stopped, Moved
<1> QED
  BY ZenonT(60), <1>1, <1>2, <1>3 DEF FinalInv

LEMMA FinalLeaves ==
    ASSUME FinalInv, NEW c \in Callers, Leaves(c), call[c].pc \notin Booting \cup Finalizing,
           UNCHANGED <<finalized, slice, registered, part, watcher, pid, pending, alive>>
    PROVE  FinalInv'
<1>1. PICK p \in {"idle", "push"}, i \in Nat : Moved(c, p, i)
  BY ZenonT(60) DEF Leaves
<1> QED
  BY ZenonT(60), <1>1, FinalMoves

LEMMA FinalRollback ==
    ASSUME Types, FinalInv, NEW c \in Callers, Rollback(c), call[c].pc \in Booting
    PROVE  FinalInv'
<1>1. /\ ~alive' /\ ~registered' /\ EndWatcher
      /\ UNCHANGED <<finalized, pid, slice, part, pending>>
  BY ZenonT(60) DEF Rollback, queues
<1>2. watcher'[pid] = "gone"
  BY ZenonT(60), <1>1 DEF EndWatcher, Types, TypeWatcher, TypeActor
<1>3. Moved(c, "idle", 0)
  BY ZenonT(60), ReturnMoves DEF Rollback, Types
<1>4. Releasing => Releasing'
  BY ZenonT(60), <1>1, <1>3 DEF Releasing, Moved, Booting, Finalizing
<1>5. Released => Released'
  BY ZenonT(60), <1>1, <1>2 DEF Released
<1>6. Stopped'
  BY ZenonT(60), <1>1 DEF Stopped
<1> QED
  BY ZenonT(60), <1>1, <1>4, <1>5, <1>6 DEF FinalInv

(* The participant, the registrations and the watcher are released.         *)
LEMMA ReleaseFacts ==
    ASSUME Types, pending' = <<>>, EndParticipant, ~registered', EndWatcher, UNCHANGED pid
    PROVE  Released'
<1>1. watcher'[pid] = "gone"
  BY ZenonT(60) DEF EndWatcher, Types, TypeWatcher, TypeActor
<1>2. ~part'.live /\ ~part'.registered
  BY ZenonT(60) DEF EndParticipant
<1> QED
  BY ZenonT(60), <1>1, <1>2 DEF Released

(* The slice that releases stops its own incarnation, and no other lives    *)
(* without a caller that boots or finalizes it.                            *)
LEMMA ReleaseStops ==
    ASSUME Types, FinalInv, slice.step \in ReleaseSteps, StopSelf, Released',
           UNCHANGED <<finalized, pid, call>>
    PROVE  FinalInv'
<1>1. finalized' => Stopped'
  BY ZenonT(60), StopSelfFacts DEF FinalInv, Stopped
<1> QED
  BY ZenonT(60), <1>1 DEF FinalInv

(* A slice that marks goes on to release.                                  *)
LEMMA MarkReleases ==
    ASSUME Types, BootInv, slice.step # "idle", slice'.step \in ReleaseSteps,
           slice'.pid = slice.pid, UNCHANGED <<pid, alive, call>>
    PROVE  FinalInv'
<1>1. slice.pid # pid /\ alive => \E c \in Callers : call[c].pc \in Booting
  BY ZenonT(60) DEF BootInv
<1>2. Stopped'
  BY ZenonT(60), <1>1 DEF Stopped
<1> QED
  BY ZenonT(60), <1>2 DEF FinalInv, Releasing

(* Deaths of the actor, its participant or its watcher take nothing back.   *)
LEMMA FinalFrame ==
    ASSUME FinalInv, UNCHANGED <<finalized, pid, call, slice>>, alive' => alive,
           Released => Released'
    PROVE  FinalInv'
<1>1. Releasing => Releasing'
  BY ZenonT(60) DEF Releasing
<1>2. Stopped => Stopped'
  BY ZenonT(60) DEF Stopped
<1> QED
  BY ZenonT(60), <1>1, <1>2 DEF FinalInv

LEMMA FinalStep ==
    ASSUME Types, DrainInv, BootInv, FinalInv, [Next]_vars
    PROVE  FinalInv'
<1>1. UNCHANGED <<finalized, call, slice, registered, part, watcher, pid, pending, alive>> => FinalInv'
  BY SMTT(60) DEF FinalInv, Releasing, Released, Stopped
<1>2. ASSUME NEW c \in Callers, HostStep(c) PROVE FinalInv'
  <2>1. CASE EnsureRefused(c)
    <3>1. /\ call[c].pc \notin Booting \cup Finalizing
          /\ UNCHANGED <<finalized, slice, registered, part, watcher, pid, pending, alive>>
      BY ZenonT(60), <2>1 DEF EnsureRefused, actor, people, queues, Booting, Finalizing
    <3> QED
      BY ZenonT(60), <2>1, <3>1, HostLeaves, FinalLeaves
  <2>2. CASE EnsureLive(c)
    BY ZenonT(60), <2>2 DEF EnsureLive, FinalInv
  <2>3. CASE EnsureSpawn(c)
    BY ZenonT(60), <2>3 DEF EnsureSpawn, FinalInv
  <2>4. CASE Push(c)
    BY ZenonT(60), <2>4 DEF Push, FinalInv
  <2>5. CASE PushRefused(c)
    <3>1. CASE call[c].pc = "boot_push"
      BY ZenonT(60), <2>5, <3>1, FinalRollback DEF PushRefused, Booting
    <3>2. CASE call[c].pc # "boot_push"
      <4>1. /\ call[c].pc \notin Booting \cup Finalizing
            /\ UNCHANGED <<finalized, slice, registered, part, watcher, pid, pending, alive>>
        BY ZenonT(60), <2>5, <3>2 DEF PushRefused, actor, people, queues, Booting, Finalizing
      <4> QED
        BY ZenonT(60), <2>5, <4>1, HostLeaves, FinalLeaves
    <3> QED
      BY ZenonT(60), <3>1, <3>2
  <2>6. CASE WakeActor(c)
    <3>1. Moved(c, (IF call[c].pc = "wake" THEN "wait" ELSE "boot_wait"), call[c].id)
      BY ZenonT(60), <2>6, HostMoves
    <3>2. UNCHANGED <<finalized, slice, registered, part, watcher, pid, pending, alive>>
      BY ZenonT(60), <2>6 DEF WakeActor, actor, people, queues
    <3>3. /\ call[c].pc \in Booting => (IF call[c].pc = "wake" THEN "wait" ELSE "boot_wait") \in Booting
          /\ call[c].pc \in Finalizing => (IF call[c].pc = "wake" THEN "wait" ELSE "boot_wait") \in Finalizing
      BY ZenonT(60), <2>6 DEF WakeActor, Booting, Finalizing
    <3> QED
      BY ZenonT(60), <3>1, <3>2, <3>3, FinalMoves
  <2>7. CASE WakeFails(c)
    <3>1. /\ call[c].pc \notin Booting \cup Finalizing
          /\ UNCHANGED <<finalized, slice, registered, part, watcher, pid, pending, alive>>
      BY ZenonT(60), <2>7 DEF WakeFails, actor, people, queues, Booting, Finalizing
    <3> QED
      BY ZenonT(60), <2>7, <3>1, HostLeaves, FinalLeaves
  <2>8. CASE BootWakeFails(c)
    BY ZenonT(60), <2>8, FinalRollback DEF BootWakeFails, Booting
  <2>9. CASE BootOk(c)
    <3>1. CASE finalized
      BY ZenonT(60), <2>9, <3>1, FinalRollback DEF BootOk, Booting
    <3>2. CASE ~finalized
      BY ZenonT(60), <2>9, <3>2 DEF BootOk, FinalInv
    <3> QED
      BY ZenonT(60), <3>1, <3>2
  <2>10. CASE BootFails(c)
    BY ZenonT(60), <2>10, FinalRollback DEF BootFails, Booting
  <2>11. CASE TakeReply(c)
    <3>1. /\ call[c].pc \notin Booting \cup Finalizing
          /\ UNCHANGED <<finalized, slice, registered, part, watcher, pid, pending, alive>>
      BY ZenonT(60), <2>11 DEF TakeReply, actor, people, queues, Booting, Finalizing
    <3> QED
      BY ZenonT(60), <2>11, <3>1, HostLeaves, FinalLeaves
  <2>12. CASE ReceiveTimesOut(c)
    <3>1. /\ call[c].pc \notin Booting \cup Finalizing
          /\ UNCHANGED <<finalized, slice, registered, part, watcher, pid, pending, alive>>
      BY ZenonT(60), <2>12 DEF ReceiveTimesOut, actor, people, queues, Booting, Finalizing
    <3> QED
      BY ZenonT(60), <2>12, <3>1, HostLeaves, FinalLeaves
  <2>13. CASE FinalizeMark(c)
    <3>1. call'[c].pc \in Finalizing
      BY ZenonT(60), <2>13, HostMoves DEF Moved, Finalizing
    <3> QED
      BY ZenonT(60), <3>1 DEF FinalInv, Releasing, Stopped
  <2>14. CASE FinalizeAgain(c)
    <3>1. /\ call[c].pc \notin Booting \cup Finalizing
          /\ UNCHANGED <<finalized, slice, registered, part, watcher, pid, pending, alive>>
      BY ZenonT(60), <2>14 DEF FinalizeAgain, actor, people, queues, Booting, Finalizing
    <3> QED
      BY ZenonT(60), <2>14, <3>1, HostLeaves, FinalLeaves
  <2>15. CASE FinalizePhase(c)
    <3>1. Moved(c, "fin_release", call[c].id)
      BY ZenonT(60), <2>15, HostMoves
    <3>2. UNCHANGED <<finalized, slice, registered, part, watcher, pid, pending, alive>>
      BY ZenonT(60), <2>15 DEF FinalizePhase, actor, people, queues
    <3>3. /\ call[c].pc \in Booting => "fin_release" \in Booting
          /\ call[c].pc \in Finalizing => "fin_release" \in Finalizing
      BY ZenonT(60), <2>15 DEF FinalizePhase, Booting, Finalizing
    <3> QED
      BY ZenonT(60), <3>1, <3>2, <3>3, FinalMoves
  <2>16. CASE FinalizeRelease(c)
    <3>1. ~alive' /\ Released'
      BY ZenonT(60), <2>16, ReleaseFacts DEF FinalizeRelease
    <3> QED
      BY ZenonT(60), <3>1 DEF FinalInv, Stopped
  <2> QED
    BY ZenonT(60), <1>2, <2>1, <2>2, <2>3, <2>4, <2>5, <2>6, <2>7, <2>8, <2>9, <2>10, <2>11, <2>12, <2>13,
       <2>14, <2>15, <2>16 DEF HostStep
<1>3. ASSUME NEW c \in Callers, NEW kind \in Kinds, Begin(c, kind) PROVE FinalInv'
  <2>1. Moved(c, "ensure", 0)
    BY ZenonT(60), <1>3, HostMoves
  <2>2. UNCHANGED <<finalized, slice, registered, part, watcher, pid, pending, alive>>
    BY ZenonT(60), <1>3 DEF Begin, actor, people, queues
  <2>3. /\ call[c].pc \in Booting => "ensure" \in Booting
        /\ call[c].pc \in Finalizing => "ensure" \in Finalizing
    BY ZenonT(60), <1>3 DEF Begin, Booting, Finalizing
  <2> QED
    BY ZenonT(60), <2>1, <2>2, <2>3, FinalMoves
<1>4. CASE IdleWake
  BY ZenonT(60), <1>1, <1>4 DEF IdleWake
<1>5. ASSUME NEW m \in CommandRecords, Executes(m) PROVE FinalInv'
  <2>1. CASE QuerySlice(m)
    BY ZenonT(60), <1>1, <1>5, <2>1 DEF QuerySlice, Executes, actor, people, queues
  <2>2. CASE BootSlice(m)
    BY ZenonT(60), <1>5, <2>2 DEF BootSlice, LinkParticipant, Executes, DrainInv, FinalInv
  <2>3. CASE SendSlice(m)
    BY ZenonT(60), <1>5, <2>3 DEF SendSlice, Executes, DrainInv, FinalInv
  <2>4. CASE ReceiveSlice(m)
    BY ZenonT(60), <1>5, <2>4 DEF ReceiveSlice, Executes, DrainInv, FinalInv
  <2>5. CASE CloseSlice(m)
    BY ZenonT(60), <1>5, <2>5 DEF CloseSlice, Executes, DrainInv, FinalInv
  <2> QED
    BY ZenonT(60), <1>5, <2>1, <2>2, <2>3, <2>4, <2>5 DEF Executes
<1>6. CASE ActorStep /\ ~ProcessNextCommand
  <2>1. CASE CloseMark
    <3>1. slice.step # "idle" /\ slice'.step = "close_release" /\ slice'.pid = slice.pid
      BY ZenonT(60), <2>1, SliceMoves DEF CloseMark, Types, SliceSteps
    <3> QED
      BY ZenonT(60), <2>1, <3>1, MarkReleases DEF CloseMark, ReleaseSteps
  <2>2. CASE CloseRelease
    <3>1. Released'
      BY ZenonT(60), <2>2, ReleaseFacts DEF CloseRelease
    <3>2. slice.step \in ReleaseSteps /\ StopSelf /\ UNCHANGED <<finalized, pid, call>>
      BY ZenonT(60), <2>2 DEF CloseRelease, ReleaseSteps
    <3> QED
      BY ZenonT(60), <3>1, <3>2, ReleaseStops
  <2>3. CASE HandleParticipantExit
    <3>1. /\ part' = [part EXCEPT !.registered = FALSE] /\ \E reason : RecordExit(reason, {}, "ok")
          /\ UNCHANGED <<finalized, pid, alive, slice, call, registered, watcher>>
      BY ZenonT(60), <2>3 DEF HandleParticipantExit
    <3>2. part'.live = part.live /\ ~part'.registered
      BY ZenonT(60), <3>1 DEF Types, TypePart, Parts
    <3>3. pending' = pending \/ pending' = <<>>
      BY ZenonT(60), <3>1, RecordExitFacts
    <3>4. Released => Released'
      BY ZenonT(60), <3>1, <3>2, <3>3 DEF Released
    <3> QED
      BY ZenonT(60), <3>1, <3>4, FinalFrame
  <2>4. CASE HandleWatcherExit
    <3>1. CASE finalized
      BY ZenonT(60), <1>1, <2>4, <3>1 DEF HandleWatcherExit, people, queues
    <3>2. CASE ~finalized
      BY ZenonT(60), <2>4, <3>2 DEF HandleWatcherExit, FinalInv
    <3> QED
      BY ZenonT(60), <3>1, <3>2
  <2>5. CASE WatcherExitFails
    <3>1. /\ slice.step \notin ReleaseSteps
          /\ UNCHANGED <<finalized, pid, call, registered, part, watcher, pending, alive>>
      BY ZenonT(60), <2>5 DEF WatcherExitFails, ReleaseSteps, people, queues
    <3>2. (Releasing => Releasing') /\ (Released => Released') /\ (Stopped => Stopped')
      BY ZenonT(60), <3>1 DEF Releasing, Released, Stopped
    <3> QED
      BY ZenonT(60), <3>1, <3>2 DEF FinalInv
  <2>6. CASE WatcherExitMark
    <3>1. CASE finalized
      <4>1. /\ StopSelf /\ slice.step \notin ReleaseSteps
            /\ UNCHANGED <<finalized, pid, call, registered, part, watcher, pending>>
        BY ZenonT(60), <2>6, <3>1 DEF WatcherExitMark, ReleaseSteps, people
      <4>2. alive' => alive
        BY ZenonT(60), <4>1, StopSelfFacts
      <4>3. (Releasing => Releasing') /\ (Released => Released') /\ (Stopped => Stopped')
        BY ZenonT(60), <4>1, <4>2 DEF Releasing, Released, Stopped
      <4> QED
        BY ZenonT(60), <4>1, <4>3 DEF FinalInv
    <3>2. CASE ~finalized
      <4>1. slice.step # "idle" /\ slice'.step = "watcher_release" /\ slice'.pid = slice.pid
        BY ZenonT(60), <2>6, <3>2, SliceMoves DEF WatcherExitMark, Types, SliceSteps
      <4> QED
        BY ZenonT(60), <2>6, <3>2, <4>1, MarkReleases DEF WatcherExitMark, ReleaseSteps
    <3> QED
      BY ZenonT(60), <3>1, <3>2
  <2>7. CASE WatcherExitRelease
    <3>1. Released'
      BY ZenonT(60), <2>7, ReleaseFacts DEF WatcherExitRelease
    <3>2. slice.step \in ReleaseSteps /\ StopSelf /\ UNCHANGED <<finalized, pid, call>>
      BY ZenonT(60), <2>7 DEF WatcherExitRelease, ReleaseSteps
    <3> QED
      BY ZenonT(60), <3>1, <3>2, ReleaseStops
  <2> QED
    BY ZenonT(60), <1>6, <2>1, <2>2, <2>3, <2>4, <2>5, <2>6, <2>7 DEF ActorStep
<1>7. CASE RegisterExitNotifier
  BY ZenonT(60), <1>1, <1>7 DEF RegisterExitNotifier, actor, people, queues
<1>8. CASE ParticipantStep
  <2>1. part.live /\ UNCHANGED <<finalized, pid, alive, slice, call>>
    BY ZenonT(60), <1>8 DEF ParticipantStep, actor
  <2> QED
    BY ZenonT(60), <2>1, FinalFrame DEF Released
<1>9. CASE ActorCrash
  <2>1. /\ UNCHANGED <<finalized, pid, call, slice, registered, pending>> /\ ~alive'
        /\ part' = part \/ part' = [part EXCEPT !.live = FALSE, !.woken = FALSE]
        /\ watcher' = [watcher EXCEPT ![pid] = IF @ = "linked" THEN "exit" ELSE @]
    BY ZenonT(60), <1>9 DEF ActorCrash, queues
  <2>2. ~part.live /\ ~part.registered => ~part'.live /\ ~part'.registered
    BY ZenonT(60), <2>1 DEF Types, TypePart, Parts
  <2>3. watcher'[pid] = IF watcher[pid] = "linked" THEN "exit" ELSE watcher[pid]
    BY ZenonT(60), <2>1 DEF Types, TypeWatcher, TypeActor
  <2>4. Released => Released'
    BY ZenonT(60), <2>1, <2>2, <2>3 DEF Released
  <2> QED
    BY ZenonT(60), <2>1, <2>4, FinalFrame
<1>10. CASE ParticipantCrash
  BY ZenonT(60), <1>10, FinalFrame DEF ParticipantCrash, Released
<1>11. CASE WatcherKilled
  BY ZenonT(60), <1>11, FinalFrame DEF WatcherKilled, Released
<1>12. ASSUME NEW i \in 1..MaxSpawns, WatcherCleanup(i) PROVE FinalInv'
  <2>1. /\ UNCHANGED <<finalized, pid, call, slice, alive, pending>> /\ EndParticipant
        /\ registered' => registered
        /\ watcher' = [watcher EXCEPT ![i] = "gone"]
    BY ZenonT(60), <1>12 DEF WatcherCleanup, queues
  <2>2. ~part'.live /\ ~part'.registered
    BY ZenonT(60), <2>1 DEF EndParticipant
  <2>3. watcher'[pid] = watcher[pid] \/ watcher'[pid] = "gone"
    BY ZenonT(60), <2>1 DEF Types, TypeWatcher, TypeActor
  <2>4. Released => Released'
    BY ZenonT(60), <2>1, <2>2, <2>3 DEF Released
  <2> QED
    BY ZenonT(60), <2>1, <2>4, FinalFrame
<1>13. CASE UNCHANGED vars
  BY ZenonT(60), <1>1, <1>13 DEF vars, actor, people, queues
<1> QED
  BY ZenonT(60), <1>2, <1>3, <1>4, <1>5, <1>6, <1>7, <1>8, <1>9, <1>10, <1>11, <1>12, <1>13,
     ProcessCases DEF Next, ActorStep

(***************************************************************************)
(* The phase of an ended conversation.                                     *)
(***************************************************************************)
PhaseKept == phase \in {"closed", "failed"} => phase' = phase \/ slice.step = "watcher_fail"

LEMMA PhaseStep ==
    ASSUME Types, [Next]_vars
    PROVE  PhaseKept
<1>1. UNCHANGED phase => PhaseKept
  BY ZenonT(60) DEF PhaseKept
<1>2. ASSUME NEW c \in Callers, HostStep(c) PROVE PhaseKept
  <2>1. CASE EnsureRefused(c) \/ EnsureLive(c) \/ EnsureSpawn(c) \/ Push(c) \/ PushRefused(c) \/
             WakeActor(c) \/ WakeFails(c) \/ BootWakeFails(c) \/ BootOk(c) \/ BootFails(c) \/
             TakeReply(c) \/ ReceiveTimesOut(c) \/ FinalizeMark(c) \/ FinalizeAgain(c) \/
             FinalizeRelease(c)
    BY ZenonT(60), <1>1, <2>1 DEF EnsureRefused, EnsureLive, EnsureSpawn, SpawnActor, Push, PushRefused,
       Rollback, WakeActor, WakeFails, BootWakeFails, BootOk, BootFails, TakeReply,
       ReceiveTimesOut, FinalizeMark, FinalizeAgain, FinalizeRelease
  <2>2. CASE FinalizePhase(c)
    BY ZenonT(60), <2>2 DEF FinalizePhase, PhaseKept
  <2> QED
    BY ZenonT(60), <1>2, <2>1, <2>2 DEF HostStep
<1>3. ASSUME NEW c \in Callers, NEW kind \in Kinds, Begin(c, kind) PROVE PhaseKept
  BY ZenonT(60), <1>1, <1>3 DEF Begin
<1>4. CASE IdleWake
  BY ZenonT(60), <1>1, <1>4 DEF IdleWake
<1>5. ASSUME NEW m \in CommandRecords, Executes(m) PROVE PhaseKept
  <2>1. CASE QuerySlice(m)
    BY ZenonT(60), <1>1, <1>5, <2>1 DEF QuerySlice, Executes
  <2>2. CASE BootSlice(m)
    <3>1. phase' = phase \/ (phase' = "failed" /\ phase # "closed")
      BY ZenonT(60), <2>2, RecordExitFacts DEF BootSlice, LinkParticipant
    <3> QED
      BY ZenonT(60), <3>1 DEF PhaseKept
  <2>3. CASE SendSlice(m)
    BY ZenonT(60), <2>3 DEF SendSlice, Activatable, PhaseKept
  <2>4. CASE ReceiveSlice(m)
    BY ZenonT(60), <2>4 DEF ReceiveSlice, Activatable, PhaseKept
  <2>5. CASE CloseSlice(m)
    BY ZenonT(60), <2>5 DEF CloseSlice, PhaseKept
  <2> QED
    BY ZenonT(60), <1>5, <2>1, <2>2, <2>3, <2>4, <2>5 DEF Executes
<1>6. CASE ActorStep /\ ~ProcessNextCommand
  <2>1. CASE CloseMark \/ CloseRelease \/ HandleWatcherExit \/ WatcherExitMark \/
             WatcherExitRelease
    BY ZenonT(60), <1>1, <2>1 DEF CloseMark, CloseRelease, StopSelf, HandleWatcherExit, WatcherExitMark,
       WatcherExitRelease
  <2>2. CASE HandleParticipantExit
    <3>1. phase' = phase \/ (phase' = "failed" /\ phase # "closed")
      BY ZenonT(60), <2>2, RecordExitFacts DEF HandleParticipantExit
    <3> QED
      BY ZenonT(60), <3>1 DEF PhaseKept
  <2>3. CASE WatcherExitFails
    BY ZenonT(60), <2>3 DEF WatcherExitFails, PhaseKept
  <2> QED
    BY ZenonT(60), <1>6, <2>1, <2>2, <2>3 DEF ActorStep
<1>7. CASE ParticipantStep \/ RegisterExitNotifier \/ ActorCrash \/ ParticipantCrash \/
             WatcherKilled
  BY ZenonT(60), <1>1, <1>7 DEF ParticipantStep, RegisterExitNotifier, ActorCrash, ParticipantCrash,
     WatcherKilled
<1>8. ASSUME NEW i \in 1..MaxSpawns, WatcherCleanup(i) PROVE PhaseKept
  BY ZenonT(60), <1>1, <1>8 DEF WatcherCleanup
<1>9. CASE UNCHANGED vars
  BY ZenonT(60), <1>1, <1>9 DEF vars
<1> QED
  BY ZenonT(60), <1>2, <1>3, <1>4, <1>5, <1>6, <1>7, <1>8, <1>9, ProcessCases DEF Next, ActorStep

(***************************************************************************)
(* The inductive invariant.                                                *)
(***************************************************************************)
ConversationInv ==
    /\ Types /\ CrashInv /\ LockInv /\ DrainInv /\ ClosedInv /\ HandoffInv /\ OrderInv
    /\ IdentInv /\ UniqueInv /\ ReplyInv /\ VisibleInv /\ BootInv /\ FinalInv

LEMMA TypesInit == Init => Types
<1> SUFFICES ASSUME Init PROVE Types
  BY ZenonT(60)
<1> USE DEF Init, Types
<1>0. TypePhase /\ TypeLock
  BY ZenonT(60) DEF TypePhase, TypeLock
<1>1. TypeActor /\ TypeMailbox /\ TypePending
  <2>1. pid \in 1..MaxSpawns
    BY SMTT(60), Bounds
  <2>2. TypeActor
    BY ZenonT(60), <2>1 DEF TypeActor
  <2> QED
    BY SMTT(60), <2>2 DEF TypeMailbox, TypePending
<1>2. TypeSlice
  BY ZenonT(60), SliceMoves, NobodyAssumption DEF TypeSlice, Slices, SliceSteps, NoSlice
<1>3. TypeWatcher
  BY ZenonT(60) DEF TypeWatcher, WatcherStates
<1>4. TypeCommands /\ TypeReplies /\ TypeBounds
  BY SMTT(60), Bounds DEF TypeCommands, TypeReplies, TypeBounds
<1>5. TypePart /\ TypeNotify
  BY SMTT(60) DEF TypePart, Parts, TypeNotify
<1>6. TypeCall
  <2>1. Idle \in CallRecords
    BY ZenonT(60) DEF Idle, CallRecords, Places, AllKinds
  <2> QED
    BY ZenonT(60), <2>1 DEF TypeCall
<1>7. TypeReply
  BY ZenonT(60) DEF TypeReply
<1> QED
  BY ZenonT(60), <1>0, <1>1, <1>2, <1>3, <1>4, <1>5, <1>6, <1>7

LEMMA InitHolds == Init => ConversationInv
<1> SUFFICES ASSUME Init PROVE ConversationInv
  BY ZenonT(60)
<1> USE DEF Init
<1>1. Types
  BY ZenonT(60), TypesInit
<1>2. \A c \in Callers : call[c].pc = "idle" /\ call[c].id = 0 /\ reply[c] = "none"
  BY ZenonT(60) DEF Idle
<1>3. \A c \in Callers : call[c].pc \notin Booting \cup Finalizing \cup Waiting
  BY ZenonT(60), <1>2 DEF Booting, Finalizing, Waiting
<1>4. slice.id = 0 /\ slice.step = "idle" /\ Elements(commands) = {} /\ Elements(pending) = {}
  BY SMTT(60) DEF NoSlice, Elements
<1>5. CrashInv /\ DrainInv /\ ClosedInv /\ FinalInv
  BY ZenonT(60) DEF CrashInv, DrainInv, ClosedInv, FinalInv
<1>6. LockInv /\ BootInv
  BY ZenonT(60), <1>3, <1>4 DEF LockInv, BootInv
<1>7. HandoffInv /\ OrderInv
  BY SMTT(60) DEF HandoffInv, OrderInv, Increasing, Precedes, Upto
<1>8. IdentInv /\ VisibleInv /\ UniqueInv /\ ReplyInv
  BY SMTT(60), <1>2, <1>3, <1>4 DEF IdentInv, IdInv, OwnerInv, VisibleInv, Waits, UniqueInv, ReplyInv
<1> QED
  BY ZenonT(60), <1>1, <1>5, <1>6, <1>7, <1>8 DEF ConversationInv

LEMMA StepHolds == ConversationInv /\ [Next]_vars => ConversationInv'
<1> SUFFICES ASSUME ConversationInv, [Next]_vars PROVE ConversationInv'
  BY ZenonT(60)
<1> USE DEF ConversationInv
<1>1. Types'
  <2>1. CASE UNCHANGED vars
    BY ZenonT(60), <2>1, TypeFrame DEF Types, vars, actor, people, queues, history
  <2> QED
    BY ZenonT(60), <2>1, TypesHost, TypesActorStep, TypesRest DEF Next
<1>2. CrashInv' /\ LockInv' /\ DrainInv' /\ ClosedInv'
  BY ZenonT(60), CrashStep, LockStep, DrainStep, ClosedStep
<1>3. HandoffInv' /\ OrderInv'
  BY ZenonT(60), HandoffStep, OrderStep
<1>4. IdentInv' /\ UniqueInv' /\ ReplyInv' /\ VisibleInv'
  BY ZenonT(60), IdentStep, UniqueStep, ReplyStep, VisibleStep
<1>5. BootInv' /\ FinalInv'
  BY ZenonT(60), BootStep, FinalStep
<1> QED
  BY ZenonT(60), <1>1, <1>2, <1>3, <1>4, <1>5

(***************************************************************************)
(* The invariant holds of every behaviour: in particular two queued        *)
(* commands never carry the same id, nor do two waiting callers, which is  *)
(* what remove_command and the reply channels rely on.                     *)
(***************************************************************************)
THEOREM ConversationInvHolds == Spec => []ConversationInv
<1> QED
  BY InitHolds, StepHolds, PTL DEF Spec

(***************************************************************************)
(* record_participant_exit and register_exit_notifier: however often the   *)
(* actor restarts and rediscovers a dead participant, the death is         *)
(* recorded once and a registrant is signalled exactly once for it.        *)
(***************************************************************************)
THEOREM CrashReportedOnceAlways == Spec => []CrashReportedOnce
<1>1. ConversationInv => CrashReportedOnce
  BY ZenonT(60) DEF ConversationInv, CrashInv, CrashReportedOnce
<1> QED
  BY <1>1, ConversationInvHolds, PTL

(***************************************************************************)
(* deliver_local_reply and apply_receive: no receive is parked beside a    *)
(* buffered reply, no reply is lost unless its receive had timed out or    *)
(* the conversation failed, and receives return replies in send order.     *)
(***************************************************************************)
THEOREM HandoffIsExactAlways == Spec => []HandoffIsExact
<1>1. ConversationInv => HandoffIsExact
  BY ZenonT(60) DEF ConversationInv, HandoffInv, OrderInv, Increasing, HandoffIsExact
<1> QED
  BY <1>1, ConversationInvHolds, PTL

(***************************************************************************)
(* enqueue_for_pid and finalize: no caller blocks on a command that        *)
(* finalization can no longer see, and once the calls and the slice in     *)
(* progress have ended a finalized conversation has no actor, participant, *)
(* watcher, registration, command or parked receive left.                  *)
(***************************************************************************)
THEOREM FinalizationCompleteAlways == Spec => []FinalizationComplete
<1>1. ASSUME ConversationInv PROVE FinalizationComplete
  <2>1. TypeOK
    BY ZenonT(60), <1>1, TypesAreTypeOK DEF ConversationInv
  <2>2. WaiterVisible
    BY ZenonT(60), <1>1 DEF ConversationInv, DrainInv, VisibleInv, Visible, Waits, WaiterVisible
  <2>3. NothingLeftBehind
    <3> SUFFICES ASSUME finalized, slice = NoSlice, \A c \in Callers : call[c].pc = "idle"
                 PROVE  ~alive /\ Released /\ commands = <<>>
      BY ZenonT(60) DEF NothingLeftBehind, Released
    <3>1. slice.step \notin ReleaseSteps
      BY ZenonT(60) DEF NoSlice, ReleaseSteps
    <3>2. \A c \in Callers : call[c].pc \notin Booting \cup Finalizing
      BY ZenonT(60) DEF Booting, Finalizing
    <3> QED
      BY ZenonT(60), <1>1, <3>1, <3>2 DEF ConversationInv, FinalInv, Releasing, Stopped, DrainInv
  <2> QED
    BY ZenonT(60), <2>1, <2>2, <2>3 DEF FinalizationComplete
<1> QED
  BY <1>1, ConversationInvHolds, PTL

(***************************************************************************)
(* activate, record_participant_exit, close and finalize: no step but the  *)
(* watcher's own marking of Failed changes the phase of a conversation     *)
(* that is Closed or Failed.                                               *)
(***************************************************************************)
THEOREM TerminalPhaseStandsAlways == Spec => TerminalPhaseStands
<1>1. ASSUME ConversationInv, [Next]_vars PROVE PhaseKept
  BY ZenonT(60), <1>1, PhaseStep DEF ConversationInv
<1>2. ConversationInv /\ [Next]_vars =>
         [(phase \in {"closed", "failed"}) => phase' = phase \/ slice.step = "watcher_fail"]_vars
  BY ZenonT(60), <1>1 DEF PhaseKept
<1> QED
  BY <1>2, ConversationInvHolds, PTL DEF Spec, TerminalPhaseStands
=============================================================================
