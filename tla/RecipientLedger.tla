-------------------------- MODULE RecipientLedger --------------------------
(***************************************************************************)
(* What a participant conversation promises its members, without logs,     *)
(* owners, connections or crashes: a record is owed at once to every live  *)
(* member but its sender, and stays owed to each of them until that        *)
(* member's own cursor reaches it or the member leaves.  The cursor moves  *)
(* only forward and only onto a number that is owed.  ParticipantOutbox    *)
(* implements this specification.                                          *)
(***************************************************************************)
EXTENDS Integers

CONSTANT Members

VARIABLES
    member,  \* "none", "live" or "gone"
    cursor,  \* the acknowledged position of each member
    owed,    \* the numbers each member is still owed
    high     \* the last number assigned

lvars == <<member, cursor, owed, high>>

Live == {p \in Members : member[p] = "live"}

\* n consecutive numbers become owed to every member of R.
Owe(R, n) ==
    /\ high' = high + n
    /\ owed' = [p \in Members |-> IF p \in R THEN owed[p] \cup (high + 1 .. high + n) ELSE owed[p]]

LedgerInit ==
    /\ member = [p \in Members |-> "none"]
    /\ cursor = [p \in Members |-> 0]
    /\ owed = [p \in Members |-> {}]
    /\ high = 0

Join(p) ==
    /\ member[p] = "none"
    /\ member' = [member EXCEPT ![p] = "live"]
    /\ Owe(Live, 1)
    /\ UNCHANGED cursor

\* A record of p, or the end and the beginning of its bindings.
Post(p, n) ==
    /\ p \in Live
    /\ Owe(Live \ {p}, n)
    /\ UNCHANGED <<member, cursor>>

\* A compaction marker has no sender.
Announce ==
    /\ Live /= {}
    /\ Owe(Live, 1)
    /\ UNCHANGED <<member, cursor>>

Accept(p, s) ==
    /\ p \in Live /\ s \in owed[p]
    /\ cursor' = [cursor EXCEPT ![p] = s]
    /\ owed' = [owed EXCEPT ![p] = {t \in @ : t > s}]
    /\ UNCHANGED <<member, high>>

Leave(p) ==
    /\ p \in Live
    /\ member' = [member EXCEPT ![p] = "gone"]
    /\ high' = high + 1
    /\ owed' = [q \in Members |-> IF q = p THEN {}
                                  ELSE IF q \in Live THEN owed[q] \cup {high + 1} ELSE owed[q]]
    /\ UNCHANGED cursor

LedgerNext ==
    \/ \E p \in Members : Join(p) \/ Leave(p)
    \/ \E p \in Members, n \in 1 .. 2 : Post(p, n)
    \/ Announce
    \/ \E p \in Members : \E s \in owed[p] : Accept(p, s)

LedgerSpec == LedgerInit /\ [][LedgerNext]_lvars

LedgerType ==
    /\ member \in [Members -> {"none", "live", "gone"}]
    /\ cursor \in [Members -> Nat]
    /\ owed \in [Members -> SUBSET Nat]
    /\ high \in Nat

\* Only a live member is owed anything, and what it is owed lies between its
\* cursor and the last number: an acknowledgement never leaves a number behind
\* it that would be dispatched again.
OwedAhead ==
    \A p \in Members :
        /\ cursor[p] <= high
        /\ owed[p] \subseteq cursor[p] + 1 .. high
        /\ member[p] /= "live" => owed[p] = {}

\* A number stops being owed only by its recipient's own cursor or departure.
NothingLost ==
    [][\A p \in Members : \A s \in owed[p] \ owed'[p] :
          s <= cursor'[p] \/ member'[p] = "gone"]_lvars

\* A cursor never moves back, and moves only onto a number that was owed.
CursorOntoOwed ==
    [][\A p \in Members : cursor'[p] /= cursor[p] =>
          cursor'[p] > cursor[p] /\ cursor'[p] \in owed[p]]_lvars
=============================================================================
