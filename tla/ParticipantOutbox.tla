------------------------- MODULE ParticipantOutbox -------------------------
(***************************************************************************)
(* One participant conversation from a committed operation to the frame on *)
(* a recipient's socket: the operation log and the recipient extension log *)
(* beside it, the owner folded from both, the tells a commit sends after   *)
(* the lock is released, the coalescing inbox of each connection, and the  *)
(* pump that selects, holds and offers the next owed record.  Sources:     *)
(* liminal-server participant/production (outbox, outbox_replay, handler,  *)
(* handler_semantic, dispatch_impact), participant/publication.rs,         *)
(* participant/dispatch.rs and connection/participant_delivery.rs.         *)
(*                                                                         *)
(* A row is [k, p, x, y]: its kind, its participant, the connection it     *)
(* binds or the number it acknowledges, and, of an acknowledgement, the    *)
(* last number that was available.  An extension row carries the length of *)
(* the operation log it belongs to (base).                                 *)
(* Whether an operation fits the sequence and closure accounting is        *)
(* ClaimFrontier's concern; here every operation the membership admits may *)
(* commit, and a compaction marker may be drained for a member that is     *)
(* behind.                                                                 *)
(***************************************************************************)
EXTENDS Integers, Sequences, FiniteSets

CONSTANTS
    N,           \* identity slots; participants are 1 .. N, in order of enrollment
    Conns,       \* connection incarnations 1 .. Conns, in order of acceptance
    Limit,       \* max_live_recipient_obligations
    Quotas       \* bounds of the model, one environment per behaviour: rows of the
                 \* operation log, failed appends and server crashes, what clients do

Kinds == {"enroll", "attach", "detach", "record", "ack", "leave", "lose"}

ASSUME OutboxConstants ==
    /\ N \in Nat \ {0} /\ Conns \in Nat /\ Limit \in Nat
    /\ Quotas \subseteq [rows : Nat, faults : Nat, kinds : SUBSET Kinds]

P == 1 .. N
C == 1 .. Conns
Boot == 0   \* the actor that repairs the bindings of a dead server

VARIABLES
    log,      \* operation log
    ext,      \* recipient extension log
    live,     \* the conversation's owner, NoOwner when evicted or not loaded
    job,      \* the operation holding the conversation's lock
    conn,     \* each connection: "new", "up", "closing" or "closed"
    tells,    \* connections an actor has still to notify, after its unlock
    inbox,    \* the connection's publication inbox names the conversation
    pump,     \* the participant's own marker, enqueued and not yet recorded as offered
    held,     \* the head kept while the outbound buffer has no room
    offered,  \* participant_offered: the connection's volatile offer cursor
    fatal,    \* ParticipantServiceFatal is latched
    booting,
    quota,    \* what the environment of this behaviour may still do
    load,     \* derived: what replaying the two logs yields
    written,    \* ghost: the numbers written to each participant's current binding
    dropped   \* ghost: connections a stale head or a failed operation left untold

durable == <<log, ext, load>>
wire == <<inbox, pump, held, offered>>
ghost == <<written, dropped>>
core == <<log, ext, live, job, conn, tells, wire, fatal, booting, quota, ghost>>
vars == <<core, load>>

MaxOf(a, b) == IF a > b THEN a ELSE b
Least(S) == CHOOSE s \in S : \A t \in S : s <= t

(***************************************************************************)
(* The owner: slots and members, then the outbox.                          *)
(***************************************************************************)
Fresh ==
    [st     |-> [p \in P |-> "none"],   \* none, bound, detached, retired
     at     |-> [p \in P |-> 0],        \* binding epoch: connection incarnation
     gen    |-> [p \in P |-> 0],        \* binding epoch: capability generation
     cur    |-> [p \in P |-> 0],        \* member cursor
     next   |-> 1,                      \* next delivery sequence
     marker |-> [p \in P |-> 0],        \* last HistoryCompacted record about p
     owed   |-> [p \in P |-> {}],       \* live recipient obligations
     ack    |-> [p \in P |-> 0],        \* ack_frontiers
     mark   |-> [p \in P |-> 0],        \* marker_ack_frontiers
     full   |-> FALSE,                  \* LiveRecipientObligationsExceeded
     shown  |-> [p \in P |-> <<0, 0, 0>>]]  \* offered_markers: sequence and epoch
NoOwner == [Fresh EXCEPT !.next = 0]
Loaded == live /= NoOwner

LiveSlots(a) == {p \in P : a.st[p] \in {"bound", "detached"}}
BoundOn(a, c) == {p \in P : a.st[p] = "bound" /\ a.at[p] = c}
Row(k, p, x) == [k |-> k, p |-> p, x |-> x, y |-> 0]

\* recipient_ack_obligations: the endpoints an acknowledgement may name.  Above
\* the member's cursor all_obligations and the live ones are the same.
Ackable(a, p) == {s \in a.owed[p] : s > a.cur[p]}
Available(a, p) == CHOOSE s \in Ackable(a, p) : \A t \in Ackable(a, p) : t <= s

\* The numbers an operation consumes: superseding a live binding ends it first.
Width(a, r) == IF r.k = "ack" THEN 0 ELSE IF r.k = "attach" /\ a.st[r.p] = "bound" THEN 2 ELSE 1

\* What each operation row does to the slots and members, the same live and in
\* replay: an enrollment and an attachment bind at a new epoch, a detachment and a
\* connection's fate end the binding, a departure retires the identity.
Bind(a, r) == [a EXCEPT !.st[r.p] = "bound", !.at[r.p] = r.x, !.gen[r.p] = @ + 1]
EnrollCommit(a, r) == Bind(a, r)
AttachCommit(a, r) == Bind(a, r)
DetachCommit(a, r) == [a EXCEPT !.st[r.p] = "detached"]
FateCommit(a, r) == [a EXCEPT !.st[r.p] = "detached"]
LeaveCommit(a, r) == [a EXCEPT !.st[r.p] = "retired"]
MarkerCommit(a, r) == [a EXCEPT !.marker[r.p] = a.next]
AckCommit(a, r) == [a EXCEPT !.cur[r.p] = r.x]

Commit(a, r) ==
    LET b == CASE r.k = "enroll" -> EnrollCommit(a, r)
               [] r.k = "attach" -> AttachCommit(a, r)
               [] r.k = "detach" -> DetachCommit(a, r)
               [] r.k = "fate"   -> FateCommit(a, r)
               [] r.k = "leave"  -> LeaveCommit(a, r)
               [] r.k = "marker" -> MarkerCommit(a, r)
               [] r.k = "ack"    -> AckCommit(a, r)
               [] r.k = "record" -> a
    IN  [b EXCEPT !.next = @ + Width(a, r)]

\* Whom a row's records are owed to: every live member but the sender.  A marker
\* has no sender.
\* Mutant: only members with a live binding are owed the record.
RecipientsBound(b, r) == {p \in P : b.st[p] = "bound"} \ {r.p}

Recipients(b, r) == IF r.k = "marker" THEN LiveSlots(b) ELSE LiveSlots(b) \ {r.p}

\* project_committed_source: the extension row of operation row r, from the
\* state before it (a) and after it (b).
Projection(a, b, r, base) ==
    IF r.k = "ack"
    THEN [k |-> "ack", base |-> base, p |-> r.p, thru |-> r.x]
    ELSE [k |-> "produced", base |-> base, seqs |-> a.next .. b.next - 1,
          to |-> Recipients(b, r), retires |-> IF r.k = "leave" THEN {r.p} ELSE {}]

Obligations(owed) == Cardinality({z \in P \X UNION {owed[p] : p \in P} : z[2] \in owed[z[1]]})

\* ConversationOutbox::apply_row.  A produced batch may exceed the bound on live
\* obligations once it is durable.  A marker acknowledgement moves the member's
\* cursor and the marker frontier, and discharges nothing.
ApplyProduced(a, x) ==
    LET owed == [p \in P |-> IF p \in x.retires THEN {}
                             ELSE IF p \in x.to THEN a.owed[p] \cup x.seqs ELSE a.owed[p]]
    IN  [a EXCEPT !.owed = owed, !.full = @ \/ Obligations(owed) > Limit]
ApplyAck(a, x) == [a EXCEPT !.ack[x.p] = x.thru, !.owed[x.p] = {s \in @ : s > x.thru}]
ApplyMarkerAck(a, x) == [a EXCEPT !.mark[x.p] = x.thru, !.cur[x.p] = x.thru]

ApplyRow(a, x) ==
    CASE x.k = "produced" -> ApplyProduced(a, x)
      [] x.k = "ack"      -> ApplyAck(a, x)
      [] x.k = "marker"   -> ApplyMarkerAck(a, x)

\* Rows the outbox refuses: a record for a retired recipient, an acknowledgement
\* that does not advance, a marker acknowledgement whose binding or prestate is
\* not the one it was given in.
MarkerAckRefused(a, x) ==
    \/ a.st[x.p] /= "bound" \/ a.gen[x.p] /= x.gen
    \/ x.from /= a.cur[x.p]
    \/ x.from /= MaxOf(a.ack[x.p], a.mark[x.p]) \/ x.thru <= x.from

RowRefused(a, x) ==
    CASE x.k = "produced" -> \E p \in x.to : a.st[p] = "retired"
      [] x.k = "ack"      -> x.thru <= a.ack[x.p]
      [] x.k = "marker"   -> MarkerAckRefused(a, x)

(***************************************************************************)
(* Replay: the operation log folded row by row, the extension rows merged  *)
(* at the boundary they name, a projection missing at the end appended.    *)
(***************************************************************************)
Step(s, x) ==
    [s EXCEPT !.a = ApplyRow(@, x), !.ok = @ /\ ~RowRefused(s.a, x)]

\* apply_boundary: the rows the extension log holds next for a log of this
\* length, the projection of its last row first.
Boundary(s, base, expected, ex) ==
    LET last == CHOOSE i \in s.n .. Len(ex) :
                    /\ \A j \in s.n + 1 .. i : ex[j].base = base
                    /\ i < Len(ex) => ex[i + 1].base /= base
        seen == \E i \in s.n + 1 .. last : ex[i].k /= "marker"
        missing == expected /= << >> /\ ~seen
        fold[i \in s.n .. last] == IF i = s.n THEN s ELSE Step(fold[i - 1], ex[i])
        t == IF missing THEN Step(fold[last], expected[1]) ELSE fold[last]
    IN  [t EXCEPT !.n = last,
                  !.repair = IF missing THEN Append(@, expected[1]) ELSE @,
                  !.ok = /\ @
                         /\ \A i \in s.n + 1 .. last :
                               ex[i].k /= "marker" => <<ex[i]>> = expected
                         /\ missing => last = Len(ex)]

\* An acknowledgement row is found again: the endpoint and the availability it
\* was decided from.
AckFound(a, r) == r.x \in Ackable(a, r.p) /\ r.y = Available(a, r.p)

ReplayRow(s, r, ex) ==
    LET b == Commit(s.a, r)
        found == r.k = "ack" => AckFound(s.a, r)
    IN  Boundary([s EXCEPT !.a = b, !.ok = @ /\ found, !.len = @ + 1], s.len + 1,
                 <<Projection(s.a, b, r, s.len + 1)>>, ex)

Replay(lg, ex) ==
    LET start == [a |-> Fresh, ok |-> TRUE, n |-> 0, len |-> 0, repair |-> << >>]
        fold[i \in 0 .. Len(lg)] ==
            IF i = 0 THEN Boundary(start, 0, << >>, ex) ELSE ReplayRow(fold[i - 1], lg[i], ex)
        s == fold[Len(lg)]
    IN  [s EXCEPT !.ok = @ /\ s.n = Len(ex)]

Logged == load' = IF <<log', ext'>> = <<log, ext>> THEN load ELSE Replay(log', ext')

\* What a load yields: nothing when the logs are refused.
Reloaded == IF load.ok /\ ~load.a.full THEN load.a ELSE NoOwner

\* next_publication: the least number owed to the participant bound on c, after
\* its cursor and what this connection has offered under the same epoch.
Pub(p, g, s, own) == [p |-> p, gen |-> g, seq |-> s, own |-> own]
NoPub == Pub(0, 0, 0, FALSE)

\* Mutant: the offer cursor is used whatever binding it was made for.
OfferedAnyEpoch(a, c, p) == offered[c].seq

Offered(a, c, p) == IF offered[c].gen = a.gen[p] THEN offered[c].seq ELSE 0
DispatchAfter(a, c, p) == {s \in a.owed[p] : s > MaxOf(a.cur[p], Offered(a, c, p))}

NextPub(a, c) ==
    IF BoundOn(a, c) = {} THEN NoPub
    ELSE LET p     == Least(BoundOn(a, c))
             ahead == DispatchAfter(a, c, p)
         IN  IF ahead = {} THEN NoPub
             ELSE Pub(p, a.gen[p], Least(ahead), a.marker[p] = Least(ahead))

(***************************************************************************)
(* Operations.  The lock is held from the first append to the last; a      *)
(* crash or another connection's pump may come in between.                 *)
(***************************************************************************)
NoJob == [by |-> -1, todo |-> << >>, proj |-> << >>, drained |-> FALSE]

Init ==
    /\ quota \in Quotas
    /\ log = << >> /\ ext = << >> /\ load = Replay(log, ext) /\ live = NoOwner /\ job = NoJob
    /\ conn = [c \in C |-> "new"]
    /\ tells = [c \in C |-> {}] /\ inbox = [c \in C |-> FALSE]
    /\ pump = [c \in C |-> NoPub] /\ held = [c \in C |-> NoPub]
    /\ offered = [c \in C |-> NoPub]
    /\ fatal = FALSE /\ booting = FALSE
    /\ written = [p \in P |-> {}] /\ dropped = [c \in C |-> FALSE]

Serving == ~booting /\ ~fatal
\* The connection's process is between slices' parts, not inside one.
AtRest(c) == pump[c] = NoPub /\ tells[c] = {} /\ job.by /= c

\* A connection is accepted with its first request.
Accepted(c) ==
    \/ conn[c] = "up"
    \/ conn[c] = "new" /\ \A d \in 1 .. c - 1 : conn[d] /= "new"

\* An operation that finds no owner loads it, and repairs the extension log.  The
\* missing row is appended before it is applied, so a load that is refused for the
\* bound on live obligations has repaired the log as well.
Load ==
    /\ ~Loaded /\ job = NoJob /\ ~fatal
    /\ booting \/ \E c \in C : (Accepted(c) \/ conn[c] = "closing") /\ AtRest(c)
    /\ live' = Reloaded /\ (live' /= live \/ load.repair /= << >>)
    /\ ext' = ext \o load.repair
    /\ UNCHANGED <<log, job, conn, tells, wire, fatal, booting, quota, ghost>>

\* The rows a request of connection c may commit, from the lookups and the
\* binding-slot decision of each operation.
Enrollments(c) ==
    {Row("enroll", p, c) : p \in {q \in P : /\ live.st[q] = "none" /\ BoundOn(live, c) = {}
                                           /\ \A o \in 1 .. q - 1 : live.st[o] /= "none"}}
Attachments(c) ==
    {Row("attach", p, c) : p \in {q \in LiveSlots(live) : BoundOn(live, c) \subseteq {q}}}
Detachments(c) == {Row("detach", p, 0) : p \in BoundOn(live, c)}
Records(c) == {Row("record", p, 0) : p \in BoundOn(live, c)}
Departures(c) ==
    {Row("leave", p, 0) : p \in BoundOn(live, c) \cup {q \in P : live.st[q] = "detached"}}
Acknowledgements(c) ==
    UNION {{[k |-> "ack", p |-> p, x |-> s, y |-> Available(live, p)] : s \in Ackable(live, p)} :
              p \in BoundOn(live, c)}

Requests(c) ==
    Enrollments(c) \cup Attachments(c) \cup Detachments(c) \cup Records(c)
        \cup Departures(c) \cup Acknowledgements(c)

\* A member the floor has overtaken: behind, and without an unaccepted marker.
Overtaken == {p \in LiveSlots(live) : Ackable(live, p) /= {} /\ live.marker[p] <= live.cur[p]}

\* Drained markers go before the record or the departure that found them; the
\* operation may be refused once they are committed.
Plans(r) ==
    {<<r>>} \cup IF r.k \in {"record", "leave"}
                 THEN {<<Row("marker", q, 0)>> : q \in Overtaken}
                      \cup {<<Row("marker", q, 0), r>> : q \in Overtaken}
                 ELSE {}

Reset(r) == IF r.k \in {"enroll", "attach"} THEN [written EXCEPT ![r.p] = {}] ELSE written

\* The durable append of a row, and the owner's commit of it.
AppendRow(by, plan) ==
    LET r == Head(plan)
        b == Commit(live, r)
    IN  /\ Len(log) + Len(plan) <= quota.rows
        /\ log' = Append(log, r)
        /\ UNCHANGED ext
        /\ live' = b
        /\ job' = [by |-> by, todo |-> plan, proj |-> <<Projection(live, b, r, Len(log) + 1)>>,
                   drained |-> job.drained]
        /\ written' = Reset(r)

Request(c) ==
    /\ Accepted(c) /\ Serving /\ Loaded /\ job = NoJob /\ AtRest(c)
    /\ \E r \in Requests(c) :
          r.k \in quota.kinds /\ \E plan \in Plans(r) : AppendRow(c, plan)
    /\ conn' = [conn EXCEPT ![c] = "up"]
    /\ UNCHANGED <<tells, wire, fatal, booting, quota, dropped>>
    /\ Logged

\* The record or the departure, after the markers drained for it.
Continue(c) ==
    /\ job.by = c /\ job.proj = << >>
    /\ AppendRow(c, job.todo)
    /\ UNCHANGED <<conn, tells, wire, fatal, booting, quota, dropped>>

Targets(a) == {a.at[p] : p \in {q \in P : a.st[q] = "bound"}} \cap C
Tell(by, cs) == tells' = IF by = Boot THEN tells ELSE [tells EXCEPT ![by] = cs]
\* A failed request closes its connection; a failed fate latches the service.
Failed(by) ==
    /\ conn' = [conn EXCEPT ![by] = IF @ = "up" THEN "closing" ELSE "closed"]
    /\ fatal' = (fatal \/ conn[by] = "closing")
    /\ dropped' = [c \in C |-> TRUE]

\* complete_source_in_place: the extension row of an operation that owes one.
InstallInPlace(by) ==
    LET x == job.proj[1]
        a == ApplyRow(live, x)
    IN  /\ ext' = Append(ext, x)
        /\ IF a.full
           THEN /\ live' = NoOwner /\ job' = NoJob /\ Failed(by) /\ UNCHANGED tells
           ELSE /\ live' = a
                /\ UNCHANGED <<conn, fatal, dropped>>
                /\ IF Len(job.todo) > 1
                   THEN /\ job' = [job EXCEPT !.todo = Tail(@), !.proj = << >>, !.drained = TRUE]
                        /\ UNCHANGED tells
                   ELSE job' = NoJob /\ Tell(by, Targets(a))

\* complete_appended_source: acknowledgements, departures and connection fates
\* leave their extension row to a replay, whose owner replaces the live one.
InstallByReplay(by) ==
    /\ ext' = ext \o load.repair
    /\ live' = Reloaded
    /\ job' = NoJob
    /\ IF Reloaded = NoOwner
       THEN /\ IF by = Boot THEN UNCHANGED <<conn, fatal, dropped>> ELSE Failed(by)
            /\ UNCHANGED tells
       ELSE Tell(by, Targets(Reloaded)) /\ UNCHANGED <<conn, fatal, dropped>>

Install ==
    /\ job.proj /= << >>
    /\ IF Head(job.todo).k \in {"ack", "leave", "fate"}
       THEN InstallByReplay(job.by) ELSE InstallInPlace(job.by)
    /\ UNCHANGED <<log, wire, booting, quota, written>>

\* notify_impact, after the unlock.  A closed connection is not registered.
Notify(c) ==
    /\ tells[c] /= {}
    /\ tells' = [tells EXCEPT ![c] = {}]
    /\ LET told == {d \in tells[c] : conn[d] \in {"up", "closing"}}
       IN  /\ inbox' = [d \in C |-> inbox[d] \/ d \in told]
           /\ dropped' = [d \in C |-> dropped[d] /\ d \notin told]
    /\ UNCHANGED <<durable, live, job, conn, pump, held, offered, fatal, booting, quota,
                   written>>

\* The extension row of a marker acknowledgement: it is merged after the last
\* operation row, under the binding and the cursor it was decided from.
\* Mutant: the base names the row before.
MarkerRowBehind(p, m) ==
    [k |-> "marker", base |-> Len(log) - 1, p |-> p, gen |-> live.gen[p],
     from |-> live.cur[p], thru |-> m]

MarkerRow(p, m) ==
    [k |-> "marker", base |-> Len(log), p |-> p, gen |-> live.gen[p],
     from |-> live.cur[p], thru |-> m]

\* The acknowledgement of a marker offered on the receiving binding: one
\* extension row and no operation row.
MarkerAck(c) ==
    /\ conn[c] = "up" /\ Serving /\ Loaded /\ job = NoJob /\ AtRest(c)
    /\ \E p \in BoundOn(live, c) :
          LET m == live.shown[p][1]
              x == MarkerRow(p, m)
          IN  /\ live.shown[p] = <<m, c, live.gen[p]>> /\ m > live.cur[p]
              /\ ext' = Append(ext, x)
              /\ \/ /\ live' = [ApplyRow(live, x) EXCEPT !.shown[p] = <<0, 0, 0>>]
                    /\ tells' = [tells EXCEPT ![c] = {c}]
                    /\ UNCHANGED <<conn, fatal, quota, dropped>>
                 \/ /\ quota.faults > 0 /\ quota' = [quota EXCEPT !.faults = @ - 1]
                    /\ live' = NoOwner /\ Failed(c) /\ UNCHANGED tells
    /\ UNCHANGED <<log, job, wire, booting, written>>
    /\ Logged

\* Mutant: a failed append leaves the owner in place.
EvictNobody(c) ==
    /\ quota.faults > 0 /\ quota' = [quota EXCEPT !.faults = @ - 1]
    /\ job.by = c \/ (job = NoJob /\ Loaded /\ AtRest(c) /\ conn[c] \in {"up", "closing"} /\ Serving)
    /\ job' = NoJob
    /\ Failed(c)
    /\ UNCHANGED <<log, ext, live, tells, wire, booting, written>>
    /\ Logged

\* An append that fails evicts the owner: before the operation row, after it,
\* or after the extension row.  Tells already staged by a drained marker are
\* sent from a fresh replay.
Evict(c) ==
    /\ quota.faults > 0 /\ quota' = [quota EXCEPT !.faults = @ - 1]
    /\ \/ job.by = c
       \/ job = NoJob /\ Loaded /\ AtRest(c) /\ conn[c] \in {"up", "closing"} /\ Serving
    /\ job' = NoJob
    /\ Failed(c)
    /\ IF job.drained
       THEN /\ ext' = ext \o load.repair
            /\ live' = Reloaded
            /\ tells' = [tells EXCEPT ![c] = Targets(Reloaded)]
       ELSE /\ ext' \in {ext, ext \o job.proj}
            /\ live' = NoOwner
            /\ UNCHANGED tells
    /\ UNCHANGED <<log, wire, booting, written>>
    /\ Logged

(***************************************************************************)
(* The end of a connection, and of the server.                             *)
(***************************************************************************)
\* The connection's fate: every binding it holds ends, then it is gone.
Fate(c) ==
    /\ "lose" \in quota.kinds
    /\ conn[c] \in {"up", "closing"} /\ Serving /\ Loaded /\ job = NoJob /\ AtRest(c)
    /\ IF BoundOn(live, c) = {}
       THEN /\ conn' = [conn EXCEPT ![c] = "closed"]
            /\ UNCHANGED <<log, ext, live, job, written>>
       ELSE /\ AppendRow(c, <<Row("fate", Least(BoundOn(live, c)), 0)>>)
            /\ conn' = [conn EXCEPT ![c] = "closing"]
    /\ UNCHANGED <<tells, wire, fatal, booting, quota, dropped>>
    /\ Logged

\* A fate that cannot load its conversation latches the service; one that finds
\* it latched fails as well.
FateRefused(c) ==
    /\ "lose" \in quota.kinds
    /\ conn[c] \in {"up", "closing"} /\ ~booting /\ AtRest(c)
    /\ fatal \/ (job = NoJob /\ ~Loaded /\ Reloaded = NoOwner)
    /\ conn' = [conn EXCEPT ![c] = "closed"]
    /\ fatal' = TRUE
    /\ UNCHANGED <<durable, live, job, tells, wire, booting, quota, ghost>>

Crash ==
    /\ quota.faults > 0 /\ quota' = [quota EXCEPT !.faults = @ - 1]
    /\ booting' = TRUE /\ fatal' = FALSE
    /\ live' = NoOwner /\ job' = NoJob
    /\ conn' = [c \in C |-> IF conn[c] = "new" THEN "new" ELSE "closed"]
    /\ tells' = [c \in C |-> {}] /\ inbox' = [c \in C |-> FALSE]
    /\ pump' = [c \in C |-> NoPub] /\ held' = [c \in C |-> NoPub]
    /\ offered' = [c \in C |-> NoPub] /\ dropped' = [c \in C |-> FALSE]
    /\ UNCHANGED <<durable, written>>

\* A start ends the bindings of the dead server before it serves, and tells
\* nobody.
Repair ==
    /\ booting /\ Loaded /\ job = NoJob
    /\ LET bound == {p \in P : live.st[p] = "bound"}
       IN  IF bound = {}
           THEN booting' = FALSE /\ UNCHANGED <<log, ext, live, job, written>>
           ELSE AppendRow(Boot, <<Row("fate", Least(bound), 0)>>) /\ UNCHANGED booting
    /\ UNCHANGED <<conn, tells, wire, fatal, quota, dropped>>

(***************************************************************************)
(* The participant pump of one connection.  A slice is cut after every     *)
(* frame, which admits every interleaving of a larger budget.              *)
(***************************************************************************)
\* A pump error tears the connection down and completes no fate.
TornDown(c) ==
    /\ conn' = [conn EXCEPT ![c] = "closed"]
    /\ pump' = [pump EXCEPT ![c] = NoPub]

\* Mutant: the work is not requeued after a frame.
EnqueuedOnce(c, b) ==
    /\ offered' = [offered EXCEPT ![c] = b]
    /\ inbox' = [inbox EXCEPT ![c] = FALSE]
    /\ written' = IF b.p \in BoundOn(load.a, c) /\ load.a.gen[b.p] = b.gen
                THEN [written EXCEPT ![b.p] = @ \cup {b.seq}] ELSE written

\* The enqueued frame moves the offer cursor, and the work is requeued.
Enqueued(c, b) ==
    /\ offered' = [offered EXCEPT ![c] = b]
    /\ inbox' = [inbox EXCEPT ![c] = TRUE]
    /\ written' = IF b.p \in BoundOn(load.a, c) /\ load.a.gen[b.p] = b.gen
                THEN [written EXCEPT ![b.p] = @ \cup {b.seq}] ELSE written

\* Mutant: only fresh tells make a conversation ready, a held head does not.
ReadyInboxOnly(c) == inbox[c]

\* prepare_ready_queue: what the inbox names, and what was held.
Ready(c) == inbox[c] \/ held[c] /= NoPub

\* service_one_conversation up to the enqueue, under one lock.  A held head is
\* offered only if it is still what would be selected; otherwise, and when there
\* is nothing to offer, the conversation is done.  Without room the head is held.
Pump(c) ==
    /\ conn[c] = "up" /\ AtRest(c) /\ ~booting /\ job = NoJob
    /\ Ready(c)
    /\ LET b     == NextPub(live, c)
           stale == held[c] /= NoPub /\ held[c] /= b
           done  == b = NoPub \/ stale
       IN  IF fatal
           THEN TornDown(c) /\ UNCHANGED <<inbox, held, offered, ghost>>
           ELSE /\ dropped' = [dropped EXCEPT ![c] = (@ /\ done) \/ stale \/ ~Loaded]
                /\ UNCHANGED conn
                /\ \/ /\ done
                      /\ held' = [held EXCEPT ![c] = NoPub]
                      /\ inbox' = [inbox EXCEPT ![c] = FALSE]
                      /\ UNCHANGED <<pump, offered, written>>
                   \/ /\ ~done
                      /\ held' = [held EXCEPT ![c] = b]
                      /\ inbox' = [inbox EXCEPT ![c] = FALSE]
                      /\ UNCHANGED <<pump, offered, written>>
                   \/ /\ ~done /\ ~b.own
                      /\ held' = [held EXCEPT ![c] = NoPub]
                      /\ Enqueued(c, b)
                      /\ UNCHANGED pump
                   \/ /\ ~done /\ b.own
                      /\ held' = [held EXCEPT ![c] = NoPub]
                      /\ pump' = [pump EXCEPT ![c] = b]
                      /\ UNCHANGED <<inbox, offered, written>>
    /\ UNCHANGED <<durable, live, job, tells, fatal, booting, quota>>

\* record_publication_offer of the participant's own marker takes the lock
\* again: the binding or the obligation may be gone.
OfferMarker(c) ==
    LET b == pump[c]
    IN  /\ b /= NoPub /\ job = NoJob
        /\ IF \/ fatal \/ b.p \notin BoundOn(live, c) \/ live.gen[b.p] /= b.gen
              \/ b.seq \notin live.owed[b.p]
           THEN TornDown(c) /\ UNCHANGED <<live, inbox, offered, written>>
           ELSE /\ live' = [live EXCEPT !.shown[b.p] = <<b.seq, c, b.gen>>]
                /\ Enqueued(c, b)
                /\ pump' = [pump EXCEPT ![c] = NoPub]
                /\ UNCHANGED conn
        /\ UNCHANGED <<durable, job, tells, held, fatal, booting, quota, dropped>>

LoadOwner == Load /\ Logged
InstallRow == Install /\ Logged
RepairBinding == Repair /\ Logged
ContinueJob(c) == Continue(c) /\ Logged

Next ==
    \/ LoadOwner \/ InstallRow \/ Crash \/ RepairBinding
    \/ \E c \in C : \/ Request(c) \/ ContinueJob(c) \/ Notify(c) \/ MarkerAck(c)
                     \/ Evict(c) \/ Fate(c) \/ FateRefused(c)
                     \/ Pump(c) \/ OfferMarker(c)

\* Processes keep running: an operation under way, a tell or an offer to record
\* is not put off for ever; and an outbound buffer that keeps draining finds room
\* in the end.
Working ==
    \/ Install
    \/ \E c \in C : Continue(c) \/ Notify(c) \/ OfferMarker(c)

Fairness == WF_core(Working) /\ \A c \in C : SF_core(Pump(c) /\ held'[c] = NoPub)

Spec == Init /\ [][Next]_vars /\ Fairness

(***************************************************************************)
(* Properties.                                                             *)
(***************************************************************************)
\* At every instant, a crash between the two appends of an operation included,
\* the two logs merge: every extension row is the projection of its operation row,
\* every acknowledgement finds its endpoint and its availability again, every
\* marker acknowledgement its binding and its cursor (outbox_replay.rs
\* apply_boundary, finish), and the acknowledgement and marker frontiers reconcile
\* to the member's cursor, so that dispatch_after never meets
\* ProtocolCursorProvenance.  What a load may still refuse them for is the bound on
\* live obligations (outbox/limits.rs ensure_live_obligation_capacity), and it does
\* so exactly when more is owed at the end of the logs than the bound allows: no row
\* that would discharge something is ever logged behind the one that exceeds it.
LoadsUnlessOverBound ==
    /\ load.ok
    /\ \A p \in P : load.a.cur[p] = MaxOf(load.a.ack[p], load.a.mark[p])
    /\ Reloaded = NoOwner <=> Obligations(load.a.owed) > Limit

\* Between operations the owner that commits kept up to date in place is the one
\* a load would yield, the volatile marker offers apart: no operation depends on
\* whether the owner was evicted before it, and none is served from an owner over
\* the bound, which a load would refuse (handler.rs complete_appended_source).
LiveIsReplay ==
    Loaded /\ job = NoJob =>
        load.repair = << >> /\ [live EXCEPT !.shown = Fresh.shown] = Reloaded

\* What was written on a binding has no gap: each number still owed up to the
\* connection's offer cursor has been written to this very binding, if the offer
\* cursor is this participant's (participant_delivery.rs service_one_conversation).
OffersGapless ==
    \A c \in C : \A p \in BoundOn(live, c) :
        conn[c] = "up" /\ offered[c].gen = live.gen[p] /\ offered[c].p = p =>
            \A s \in Ackable(live, p) : s <= offered[c].seq => s \in written[p]

\* A record a connected participant could be offered is on its way: a tell is
\* pending, the inbox or a held head names the conversation, or the pump is
\* working on it.  The exception is the pump having let the conversation go
\* because a held head was stale or the owner was evicted, or an operation
\* having failed after its row was durable.
OwedIsTold ==
    \A c \in C :
        conn[c] = "up" /\ Loaded /\ job = NoJob /\ NextPub(live, c) /= NoPub =>
            \/ inbox[c] \/ held[c] /= NoPub \/ pump[c] /= NoPub \/ dropped[c]
            \/ \E d \in C : c \in tells[d]

\* Under a draining socket every record owed to a participant that stays
\* connected is written to it in the end, with the same exceptions.
OffersComplete ==
    <>[](\A c \in C : \A p \in BoundOn(live, c) :
            conn[c] = "up" /\ offered[c].p \in {0, p} /\ Serving =>
                dropped[c] \/ Ackable(live, p) \subseteq written[p])

\* The offer cursor is that of "one conversation and exact binding"
\* (participant/publication.rs:21): what it covers was written to the binding it
\* is used for.  The same comment has a different epoch discard the cursor, which
\* the code does; two participants can hold equal epochs on one connection.
OfferCursorIsBindings ==
    \A c \in C : \A p \in BoundOn(live, c) :
        conn[c] = "up" /\ offered[c].gen = live.gen[p] =>
            \A s \in Ackable(live, p) : s <= offered[c].seq => s \in written[p]

(***************************************************************************)
(* The conversation implements the ledger its members rely on: the durable *)
(* logs, read as a load would read them, are the ledger's state.  The two  *)
(* appends of an operation are one step of it; evictions, repairs,    *)
(* tells and offers are none.                                              *)
(***************************************************************************)
Ledger == INSTANCE RecipientLedger WITH
    Members <- P,
    member <- [p \in P |-> CASE load.a.st[p] = "none" -> "none"
                              [] load.a.st[p] = "retired" -> "gone"
                              [] OTHER -> "live"],
    cursor <- load.a.cur,
    owed <- [p \in P |-> Ackable(load.a, p)],
    high <- load.a.next - 1

\* Every step of the conversation is a step of the ledger or leaves it alone.
ImplementsLedger == Ledger!LedgerSpec
=============================================================================
