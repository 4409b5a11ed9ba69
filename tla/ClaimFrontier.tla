--------------------------- MODULE ClaimFrontier ---------------------------
(***************************************************************************)
(* The coupled claim frontier of one participant conversation: the         *)
(* sequence and order ledgers that reserve numbers for every exit still    *)
(* owed, the retained suffix of causal rows and its floor, the compaction  *)
(* markers that tell an overtaken participant what it lost, the closure    *)
(* accounting charged for all of it, and the lane of rows that are decided *)
(* but not yet appended.  Sources: liminal-protocol lifecycle/             *)
(* claim_frontier.rs, admission/, operations/live_frontier.rs,             *)
(* operations/ordinary_record_projection.rs, algebra/, and the server's    *)
(* participant/production handlers that drive them.                        *)
(*                                                                         *)
(* Every operation runs under the conversation's lock and is one durable   *)
(* row (or a row and its fate row, which a load repairs when it finds only *)
(* the first), so an operation is one step.  Rows are consecutive numbers  *)
(* from floor to high; a charge is counted in entries, one per row.        *)
(***************************************************************************)
EXTENDS Integers, Sequences, FiniteSets

CONSTANTS
    Slots,          \* identity slots of the conversation
    MaxSeq,         \* the last delivery sequence (u64::MAX)
    MaxOrder,       \* the last transaction order (u64::MAX)
    RetainedLimit,  \* retained_record_limit, rows
    Cap,            \* retained_capacity_entries, the closure cap
    Headroom,       \* mandatory bound plus full recovery claim an ordinary record leaves free
    MaxCrashes      \* bound of the model: process crashes

ASSUME FrontierConstants ==
    /\ Slots \in Nat \ {0} /\ MaxSeq \in Nat /\ MaxOrder \in Nat
    /\ RetainedLimit \in Nat /\ Cap \in Nat /\ Headroom \in Nat /\ MaxCrashes \in Nat

P == 0 .. Slots - 1

VARIABLES
    high,       \* sequence ledger high watermark
    order,      \* next transaction order
    live,       \* SequenceClaims.live_members, OrderClaims.membership_exits
    terms,      \* SequenceClaims.binding_terminals
    mkrs,       \* SequenceClaims.markers
    ordTerms,   \* OrderClaims.active_binding_terminals
    tailed,     \* an empty exit range is kept one past the last sequence claim
    floor,      \* retained_floor
    obs,        \* observer_progress
    slot,       \* the participant's slot
    mem,        \* LiveMember.cursor
    cur,        \* FrontierParticipant.cursor
    fate,       \* participants whose binding carries a sealed fate token
    lane,       \* immutable_candidates
    marks,      \* marker_records: <<delivery_seq, participant>>
    credits,    \* marker_capacity_credits
    anchors,    \* marker_anchors
    folded,     \* the marker_anchors a fold of the log yields before reconciling
    base,       \* closure baseline
    phase,      \* serving, or a stage of boot
    crashes

ledger == <<high, order, live, terms, mkrs, ordTerms, tailed>>
acct == <<credits, anchors, folded, base>>
vars == <<ledger, floor, obs, slot, mem, cur, fate, lane, marks, acct, phase, crashes>>

SlotStates == {"free", "bound", "detached", "pending", "erased", "retired"}
Candidates == [kind: {"marker", "detached", "died"}, p: P]

MaxOf(a, b) == IF a > b THEN a ELSE b
MinOf(a, b) == IF a < b THEN a ELSE b
Least(S, d) == IF S = {} THEN d ELSE CHOOSE x \in S : \A y \in S : x <= y

Bound == {p \in P : slot[p] = "bound"}
Enrolled == {p \in P : slot[p] /= "free"}
\* active_identities: an identity a drained Died erased from the server's slots
\* is still a participant of the frontier.
Active == {p \in P : slot[p] \in {"bound", "detached", "pending", "erased"}}
Retained == high + 1 - floor
Sealed == Enrolled /= {} /\ \A p \in Enrolled : slot[p] = "erased"

Unaccepted == {m \in marks : cur[m[2]] < m[1]}
MarksOf(p) == {m \in marks : m[2] = p}
LaneMarkers == {i \in 1 .. Len(lane) : lane[i].kind = "marker"}

(***************************************************************************)
(* The ledgers.                                                            *)
(***************************************************************************)
Reserve(l, t, m) == l + t + m + l * t + (IF l = 0 THEN 0 ELSE (l - 1) * l)
SeqFits(h, l, t, m) == h + Reserve(l, t, m) <= MaxSeq
OrdFits(o, t, e) == o + t + e <= MaxOrder + 1

Fits(h, l, t, m, o, ot) == SeqFits(h, l, t, m) /\ OrdFits(o, ot, l)
\* A rebuild lays every claim out anew behind a checked cursor (take_live_sequence,
\* take_live_order), so the number one past the last claim must exist as well.
Rebuilds(h, l, t, m, o, ot) == SeqFits(h + 1, l, t, m) /\ OrdFits(o + 1, ot, l)

MoveLedgers(rows, l, t, m, ot, o) ==
    /\ live + l >= 0 /\ terms + t >= 0 /\ mkrs + m >= 0 /\ ordTerms + ot >= 0
    /\ high' = high + rows
    /\ live' = live + l
    /\ terms' = terms + t
    /\ mkrs' = mkrs + m
    /\ ordTerms' = ordTerms + ot
    /\ order' = order + o

AdvanceUnreserved(rows, l, t, m, ot, o) ==
    /\ high + rows <= MaxSeq /\ order + o <= MaxOrder + 1
    /\ MoveLedgers(rows, l, t, m, ot, o)

\* rows appended, change of live members, of sequence terminals, of pending
\* markers, of order terminals, and orders allocated: the checked subtractions
\* and try_new of both ledgers.  A record, a marker's drain and a Leave shift
\* the claims and ask no more.
Advance(rows, l, t, m, ot, o) ==
    /\ Fits(high + rows, live + l, terms + t, mkrs + m, order + o, ordTerms + ot)
    /\ MoveLedgers(rows, l, t, m, ot, o)

\* An enrollment after the first, an attach, and every terminal rebuild them;
\* the only member's empty exit range then stands one past the last claim.
Rebuild(rows, l, t, m, ot, o) ==
    /\ Rebuilds(high + rows, live + l, terms + t, mkrs + m, order + o, ordTerms + ot)
    /\ MoveLedgers(rows, l, t, m, ot, o)
    /\ tailed' = (live + l = 1)

(***************************************************************************)
(* Floors.                                                                 *)
(***************************************************************************)
UnclampedFloor(f) == f
MarkerClamped(f) == MinOf(f, Least({m[1] : m \in marks}, f))
\* floor_transition without a capacity floor: what every cursor and the
\* observer have passed.
Preferred(cursors, h, o) == MaxOf(floor, MinOf(Least(cursors, h), o) + 1)
\* validate_binding_fate_floor: the dead participant no longer holds the floor.
FateFloor(p, h, o) == MarkerClamped(Preferred({cur[q] : q \in Active \ {p}}, h, o))

(***************************************************************************)
(* The ordinary record's fixed point.                                      *)
(***************************************************************************)
Surviving(f) == {m \in marks : m[1] >= f}
OvertakenLate(f) ==
    {p \in Active : cur[p] + 2 < f /\ ~ \E m \in Surviving(f) : m[2] = p}
Overtaken(f) ==
    {p \in Active : cur[p] + 1 < f /\ ~ \E m \in Surviving(f) : m[2] = p}
RecordBase(f) == (high + 2 - f) + Slots - Cardinality(Surviving(f))
Admits(f) == RecordBase(f) + Headroom <= Cap
\* search_capacity_floor: from the preferred floor upward one row at a time.
CapacityFloors ==
    {f \in Preferred({cur[q] : q \in Active}, high + 1, obs) .. high + 2 : Admits(f)}
\* validate_marker_state and the baseline check: the stored accounting is the
\* derived one.
AccountingAgrees ==
    /\ credits = Cardinality(marks)
    /\ anchors = Cardinality(Unaccepted)
    /\ base = Retained + Slots - credits

Ascending(e) == \A i, j \in DOMAIN e : i < j => e[i] < e[j]

Init ==
    /\ high = 0 /\ order = 0 /\ live = 0 /\ terms = 0 /\ mkrs = 0 /\ ordTerms = 0
    /\ tailed = FALSE
    /\ floor = 1 /\ obs = 0
    /\ slot = [p \in P |-> "free"]
    /\ mem = [p \in P |-> 0] /\ cur = [p \in P |-> 0]
    /\ fate = {} /\ lane = << >> /\ marks = {}
    /\ credits = 0 /\ anchors = 0 /\ folded = 0 /\ base = Slots
    /\ phase = "up" /\ crashes = 0

Append1OneRow(rows) ==
    /\ lane = << >>
    /\ Retained + rows <= RetainedLimit
    /\ base + rows <= Cap
    /\ base' = base + 1

\* transition: the checks and the charge of rows appended with an empty lane.
Append1(rows) ==
    /\ lane = << >>
    /\ Retained + rows <= RetainedLimit
    /\ base + rows <= Cap
    /\ base' = base + rows

\* Identities are numbered in order of enrollment and never reused.  The first
\* one's claims are laid out without a cursor (initial_frontier_positions).
Enroll(p) ==
    /\ phase = "up" /\ ~Sealed
    /\ slot[p] = "free" /\ \A q \in 0 .. p - 1 : slot[q] /= "free"
    /\ Append1(1)
    /\ IF p = 0 THEN Advance(1, 1, 1, 0, 1, 1) /\ tailed' = FALSE
                ELSE Rebuild(1, 1, 1, 0, 1, 1)
    /\ slot' = [slot EXCEPT ![p] = "bound"]
    /\ UNCHANGED <<floor, obs, mem, cur, fate, lane, marks, credits, anchors, folded,
                   phase, crashes>>

\* A credential attach of a detached participant: its frontier cursor is the
\* member's again, and the new binding carries a sealed fate token.
AttachDetached(p) ==
    /\ phase = "up" /\ slot[p] = "detached"
    /\ Append1(1)
    /\ Rebuild(1, 0, 1, 0, 1, 1)
    /\ slot' = [slot EXCEPT ![p] = "bound"]
    /\ cur' = [cur EXCEPT ![p] = mem[p]]
    /\ fate' = fate \cup {p}
    /\ UNCHANGED <<floor, obs, mem, lane, marks, credits, anchors, folded, phase, crashes>>

\* A credential attach over a live binding appends the old binding's terminal
\* and the new attachment.
AttachSuperseding(p) ==
    /\ phase = "up" /\ slot[p] = "bound"
    /\ Append1(2)
    /\ Rebuild(2, 0, 0, 0, 0, 1)
    /\ obs' = MaxOf(obs, high + 1)
    /\ cur' = [cur EXCEPT ![p] = mem[p]]
    /\ fate' = fate \cup {p}
    /\ UNCHANGED <<floor, slot, mem, lane, marks, credits, anchors, folded, phase, crashes>>

\* An explicit detach is never pended: over a limit it is refused.
Detach(p) ==
    /\ phase = "up" /\ slot[p] = "bound"
    /\ Append1(1)
    /\ Rebuild(1, 0, -1, 0, -1, 1)
    /\ slot' = [slot EXCEPT ![p] = "detached"]
    /\ obs' = MaxOf(obs, high + 1)
    /\ cur' = [cur EXCEPT ![p] = mem[p]]
    /\ UNCHANGED <<floor, mem, fate, lane, marks, credits, anchors, folded, phase, crashes>>

\* A connection fate ends the binding while a retained row is free.  A death
\* of a binding with a fate token also releases what only it held: the floor
\* moves and the frontier counts the dead participant as caught up.
FateCommit(p, cause) ==
    /\ slot[p] = "bound"
    /\ Retained + 1 <= RetainedLimit
    /\ lane = << >> /\ base + 1 <= Cap
    /\ Rebuild(1, 0, -1, 0, -1, 1)
    /\ slot' = [slot EXCEPT ![p] = "detached"]
    /\ obs' = MaxOf(obs, high + 1)
    /\ fate' = fate \ {p}
    /\ LET f == IF cause = "died" /\ p \in fate
                THEN FateFloor(p, high + 1, MaxOf(obs, high + 1)) ELSE floor
       IN  /\ floor' = f
           /\ base' = base + 1 - (f - floor)
    /\ cur' = IF cause = "died" /\ p \in fate THEN [cur EXCEPT ![p] = high + 1] ELSE cur
    /\ UNCHANGED <<mem, lane, marks, credits, anchors, folded, phase, crashes>>

\* With no retained row free the terminal is pended: it takes its order and
\* blocks the lane.  (admit pends only below the observer, which is always so:
\* the observer never passes the high watermark.)
FatePend(p, cause) ==
    /\ slot[p] = "bound"
    /\ Retained + 1 > RetainedLimit
    /\ obs < high + 1
    /\ lane = << >>
    /\ Rebuild(0, 0, 0, 0, -1, 1)
    /\ slot' = [slot EXCEPT ![p] = "pending"]
    /\ lane' = <<[kind |-> cause, p |-> p]>>
    /\ fate' = IF cause = "died" THEN fate ELSE fate \ {p}
    /\ UNCHANGED <<floor, obs, mem, cur, marks, acct, phase, crashes>>

Fate(p, cause) == FateCommit(p, cause) \/ FatePend(p, cause)

\* A ledger whose claims take its very last number.
OrderFull == order + ordTerms + live = MaxOrder + 1
SequenceFull == high + Reserve(live, terms, mkrs) = MaxSeq
\* The rebuild of a fate fails: any terminal on a full order ledger, a pended one
\* on a full sequence ledger too.
Exhausted == OrderFull \/ (SequenceFull /\ Retained + 1 > RetainedLimit)

\* The connections' fates while serving.
ConnectionFate ==
    /\ phase = "up"
    /\ \E p \in P, cause \in {"detached", "died"} : Fate(p, cause)

DrainsNoBootTerminal(kinds) ==
    \/ phase = "drain" /\ "marker" \in kinds
    \/ phase = "up" /\ Bound /= {}
    \/ phase = "up" /\ "marker" \in kinds /\ \E p \in P : slot[p] = "detached"

\* A drain is driven by a record of any bound participant, by a Leave (a
\* marker only), or by boot.
Drains(kinds) ==
    \/ phase = "drain"
    \/ phase = "up" /\ Bound /= {}
    \/ phase = "up" /\ "marker" \in kinds /\ \E p \in P : slot[p] = "detached"

DrainMarker ==
    /\ lane /= << >> /\ Head(lane).kind = "marker"
    /\ Drains({"marker"})
    /\ Advance(1, 0, 0, -1, 0, 0) /\ tailed' = tailed
    /\ marks' = marks \cup {<<high + 1, Head(lane).p>>}
    /\ lane' = Tail(lane)
    /\ UNCHANGED <<floor, obs, slot, mem, cur, fate, acct, phase, crashes>>

\* A pending terminal becomes a row.  A drained Detached leaves the participant
\* detached; a drained Died erases its slot and enrollment token, and the floor
\* its fate token measured before the row is installed after it.  When the
\* erased token was the last one the conversation is sealed and its frontier
\* is gone, so a fate that still has to be installed finds none: the error
\* meets every later load too.
DrainTerminal ==
    /\ lane /= << >> /\ Head(lane).kind /= "marker"
    /\ Drains({})
    /\ base + 1 <= Cap
    /\ Rebuild(1, 0, -1, 0, 0, 0)
    /\ obs' = MaxOf(obs, high + 1)
    /\ lane' = Tail(lane)
    /\ LET p == Head(lane).p
           died == Head(lane).kind = "died"
           seals == died /\ \A q \in Enrolled \ {p} : slot[q] = "erased"
           f == IF died /\ p \in fate /\ ~seals THEN FateFloor(p, high, obs) ELSE floor
       IN  /\ slot' = [slot EXCEPT ![p] = IF died THEN "erased" ELSE "detached"]
           /\ fate' = fate \ {p}
           /\ floor' = f
           /\ base' = base + 1 - (f - floor)
           /\ phase' = IF seals /\ p \in fate THEN "lost" ELSE phase
    /\ UNCHANGED <<mem, cur, marks, credits, anchors, folded, crashes>>

\* An ordinary record over an empty lane.  A snapshot whose accounting is not
\* the derived one faults; a floor that would pass an unaccepted marker or the
\* observer is refused.  Every identity the floor overtakes is given a marker.
\* Every claim is shifted behind them, the empty range one past the last included.
RecordAdmission(p) ==
    /\ phase = "up" /\ slot[p] = "bound" /\ lane = << >>
    /\ AccountingAgrees
    /\ CapacityFloors /= {}
    /\ LET f == Least(CapacityFloors, 0)
           told == Overtaken(f)
           kept == Cardinality(Surviving(f))
       IN  /\ \A m \in Unaccepted : f <= m[1]
           /\ f <= obs + 1
           /\ Advance(1, 0, 0, Cardinality(told), 0, 1) /\ tailed' = tailed
           /\ tailed => SeqFits(high + 2, live, terms, mkrs + Cardinality(told))
           /\ floor' = f
           /\ marks' = Surviving(f)
           /\ \E e \in [1 .. Cardinality(told) -> told] :
                 /\ Ascending(e)
                 /\ lane' = [i \in 1 .. Cardinality(told) |-> [kind |-> "marker", p |-> e[i]]]
           /\ credits' = kept + Cardinality(told)
           /\ anchors' = Cardinality({m \in Unaccepted : m[1] >= f}) + Cardinality(told)
           /\ folded' = anchors'
           /\ base' = RecordBase(f)
    /\ UNCHANGED <<obs, slot, mem, cur, fate, phase, crashes>>

\* A cumulative acknowledgement through s.  Whether the outbox owes s to p is
\* not modelled: any delivered number is admitted.  A marker the cursor crosses
\* is accepted, and its anchor retired.
ParticipantAck(p, s) ==
    /\ phase = "up" /\ slot[p] = "bound"
    /\ mem[p] < s /\ s <= high
    /\ LET crossed == Cardinality({m \in MarksOf(p) : cur[p] < m[1] /\ m[1] <= s})
       IN  /\ crossed <= anchors
           /\ anchors' = anchors - crossed
           /\ folded' = folded - crossed
    /\ mem' = [mem EXCEPT ![p] = s]
    /\ cur' = [cur EXCEPT ![p] = s]
    /\ obs' = MaxOf(obs, s)
    /\ UNCHANGED <<ledger, floor, slot, fate, lane, marks, credits, base, phase, crashes>>

\* The acknowledgement of the participant's own retained marker.
MarkerAck(p) ==
    /\ phase = "up" /\ slot[p] = "bound"
    /\ anchors > 0
    /\ anchors' = anchors - 1
    /\ folded' = folded - 1
    /\ \E m \in MarksOf(p) :
          /\ mem[p] < m[1]
          /\ mem' = [mem EXCEPT ![p] = m[1]]
          /\ cur' = [cur EXCEPT ![p] = m[1]]
          /\ obs' = MaxOf(obs, m[1])
    /\ UNCHANGED <<ledger, floor, slot, fate, lane, marks, credits, base, phase, crashes>>

\* A settled Leave, bound or detached.  A retained marker of the leaver gives
\* back a credit and an anchor, and its row is charged as an ordinary one.
Leave(p) ==
    /\ phase = "up" /\ slot[p] \in {"bound", "detached"} /\ lane = << >>
    /\ cur[p] = mem[p]
    /\ LET own == IF MarksOf(p) = {} THEN 0 ELSE 1
           bound == IF slot[p] = "bound" THEN -1 ELSE 0
       IN  /\ Retained + 1 <= RetainedLimit
           /\ base + 1 + own <= Cap
           /\ own <= anchors /\ own <= credits
           /\ base' = base + 1 + own
           /\ credits' = credits - own
           /\ anchors' = anchors - own
           /\ folded' = folded - own
           /\ Advance(1, -1, bound, 0, bound, 1) /\ tailed' = FALSE
    /\ marks' = marks \ MarksOf(p)
    /\ slot' = [slot EXCEPT ![p] = "retired"]
    /\ fate' = fate \ {p}
    /\ obs' = MaxOf(obs, high + 1)
    /\ UNCHANGED <<floor, mem, cur, lane, phase, crashes>>

\* What a load leaves: the fold's anchors with the orphaned ones retired.
Reconciled == MinOf(folded, Cardinality(Unaccepted) + mkrs)

\* An operation that failed evicts the owner; the next one loads it again.
Reload ==
    /\ phase = "up"
    /\ anchors' = Reconciled
    /\ UNCHANGED <<ledger, floor, obs, slot, mem, cur, fate, lane, marks, credits, folded,
                   base, phase, crashes>>

\* The process stops at any point, boot included.
Crash ==
    /\ phase \in {"up", "drain", "fate"} /\ crashes < MaxCrashes
    /\ crashes' = crashes + 1
    /\ phase' = "drain"
    /\ anchors' = Reconciled
    /\ UNCHANGED <<ledger, floor, obs, slot, mem, cur, fate, lane, marks, credits, folded, base>>

\* Boot drains the whole lane before any retained fate is replayed.
BootDrained ==
    /\ phase = "drain" /\ lane = << >>
    /\ phase' = "fate"
    /\ UNCHANGED <<ledger, floor, obs, slot, mem, cur, fate, lane, marks, acct, crashes>>

\* Then every binding of the previous process dies, in the order of the slots.
BootFate ==
    /\ phase = "fate" /\ Bound /= {}
    /\ Fate(Least(Bound, 0), "died")

\* A death the lane or the ledgers refuse fails the start; the next start begins
\* again.
BootRefused ==
    /\ phase = "fate" /\ Bound /= {}
    /\ lane /= << >> \/ Exhausted
    /\ phase' = "drain"
    /\ anchors' = Reconciled
    /\ UNCHANGED <<ledger, floor, obs, slot, mem, cur, fate, lane, marks, credits, folded,
                   base, crashes>>

BootDone ==
    /\ phase = "fate" /\ Bound = {}
    /\ phase' = "up"
    /\ UNCHANGED <<ledger, floor, obs, slot, mem, cur, fate, lane, marks, acct, crashes>>

Boot == BootDrained \/ BootFate \/ BootRefused \/ BootDone

Next ==
    \/ \E p \in P : \/ Enroll(p) \/ AttachDetached(p) \/ AttachSuperseding(p) \/ Detach(p)
                    \/ RecordAdmission(p) \/ MarkerAck(p) \/ Leave(p)
                    \/ \E s \in 1 .. high : ParticipantAck(p, s)
    \/ ConnectionFate
    \/ DrainMarker \/ DrainTerminal
    \/ Reload \/ Crash \/ Boot

\* A start that was begun is carried through, and a start that fails is retried.
Fairness == WF_vars(Boot) /\ WF_vars(phase = "drain" /\ (DrainMarker \/ DrainTerminal))

Spec == Init /\ [][Next]_vars /\ Fairness

TypeOK ==
    /\ {high, order, live, terms, mkrs, ordTerms, floor, obs} \subseteq Nat
    /\ {credits, anchors, folded, base, crashes} \subseteq Nat
    /\ tailed \in BOOLEAN
    /\ slot \in [P -> SlotStates]
    /\ mem \in [P -> Nat] /\ cur \in [P -> Nat]
    /\ fate \in SUBSET P
    /\ lane \in Seq(Candidates)
    /\ marks \in SUBSET (Nat \X P)
    /\ phase \in {"up", "drain", "fate", "lost"}

\* What the claims are reserved for can be paid: a Leave, the drain of a marker
\* and the drain of a pended terminal always pass the checks of both ledgers, and
\* so does the terminal of a bound participant (commit_binding_terminal_candidate,
\* pend_binding_terminal_candidate) except at one number.  A record may take the
\* last order no claim needs; the checked cursor of the terminal's rebuild then
\* runs off the end, and the fate is refused although its claim is reserved.
ExitsFunded ==
    \A p \in P :
        /\ slot[p] = "bound" =>
              /\ Fits(high + 1, live - 1, terms - 1, mkrs, order + 1, ordTerms - 1)
              /\ Rebuilds(high + 1, live, terms - 1, mkrs, order + 1, ordTerms - 1)
                    <=> ~OrderFull
              /\ Rebuilds(high, live, terms, mkrs, order + 1, ordTerms - 1)
                    <=> ~OrderFull /\ ~SequenceFull
        /\ slot[p] = "detached" => Fits(high + 1, live - 1, terms, mkrs, order + 1, ordTerms)
        /\ slot[p] = "pending" => Rebuilds(high + 1, live, terms - 1, mkrs, order, ordTerms)
        /\ mkrs > 0 => Fits(high + 1, live, terms, mkrs - 1, order, ordTerms)

\* The stored ledger claims are the census of the slots and the lane, and the
\* stored baseline and marker credits are the ones an ordinary record derives
\* (validate_marker_state, retained_baseline_wide): a stored value that drifted
\* would fault every later record.
AccountingExact ==
    /\ live = Cardinality(Active)
    /\ ordTerms = Cardinality(Bound)
    /\ terms = ordTerms + Cardinality({p \in P : slot[p] = "pending"})
    /\ mkrs = Cardinality(LaneMarkers)
    /\ credits = Cardinality(marks) + mkrs
    /\ base = Retained + mkrs + Slots - credits

\* A pending terminal exists only while no retained row is free, so the Leave
\* that would append it together with its own row (commit_pending_leave_frontier)
\* never fits the retained limit.
PendingAtLimit ==
    \A p \in P : slot[p] = "pending" => Retained + 2 > RetainedLimit

\* The fold of the log never retires an anchor it does not hold: replaying the
\* rows that retired one live cannot underflow.
ReplayCovers == folded >= anchors

\* The row of a marker its owner has not accepted is dropped only with the owner:
\* none of the ways the floor moves (an ordinary record, a death, the drain of a
\* pending death) compacts it.
MarkerSurvives ==
    [][\A m \in Unaccepted : \/ m \in marks' /\ floor' <= m[1]
                             \/ slot'[m[2]] = "retired"]_vars

\* Once an ordinary record is admitted, every identity whose cursor the floor has
\* overtaken has a marker, retained or next in the lane.
RecordTells ==
    [][high' /= high /\ order' /= order /\ obs' = obs /\ slot' = slot =>
          \A p \in Active : cur'[p] + 1 < floor' =>
             \/ \E m \in marks' : m[2] = p /\ cur'[p] < m[1]
             \/ \E i \in DOMAIN lane' : lane'[i] = [kind |-> "marker", p |-> p]]_vars

\* Once crashes stop, the conversation is served again: the lane drains and every
\* binding of the dead process is given its terminal, however many starts that
\* takes.  Two logs are the exception, and no other: one whose last enrollment
\* token a drained Died erased while its fate was still to be installed, and one
\* whose full ledger refuses the terminal of a participant that is still bound.
\* On those every start fails.
NeverStarts == phase = "lost" \/ (phase /= "up" /\ Exhausted /\ Bound /= {})
BootEnds == <>[](phase = "up") \/ <>[]NeverStarts
=============================================================================
