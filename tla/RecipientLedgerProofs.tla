----------------------- MODULE RecipientLedgerProofs -----------------------
(***************************************************************************)
(* What the ledger guarantees, for every set of members and every length   *)
(* of its history.  ParticipantOutbox implements the ledger, so these hold *)
(* of the durable logs of a conversation wherever that refinement does.    *)
(***************************************************************************)
EXTENDS RecipientLedger, TLAPS

LedgerInv == LedgerType /\ OwedAhead

\* Owing fresh numbers to some live members keeps what is owed ahead of the
\* cursors.
LEMMA OweKeepsAhead ==
    ASSUME LedgerInv, NEW R \in SUBSET Live, NEW n \in Nat, Owe(R, n)
    PROVE  /\ owed' \in [Members -> SUBSET Nat] /\ high' \in Nat
           /\ \A p \in Members : /\ cursor[p] <= high'
                                 /\ owed'[p] \subseteq cursor[p] + 1 .. high'
                                 /\ member[p] /= "live" => owed'[p] = {}
  <1> USE DEF LedgerInv, LedgerType
  <1>1. high' = high + n /\ high' \in Nat
    BY SMTT(60) DEF Owe
  <1>2. owed' = [p \in Members |-> IF p \in R THEN owed[p] \cup (high + 1 .. high + n)
                                             ELSE owed[p]]
    BY ZenonT(60) DEF Owe
  <1>3. owed' \in [Members -> SUBSET Nat]
    <2>1. (high + 1 .. high + n) \subseteq Nat  BY SMTT(60)
    <2> QED BY ZenonT(60), <1>2, <2>1
  <1>4. ASSUME NEW p \in Members
        PROVE  /\ cursor[p] <= high'
               /\ owed'[p] \subseteq cursor[p] + 1 .. high'
               /\ member[p] /= "live" => owed'[p] = {}
    <2>1. cursor[p] \in Nat /\ cursor[p] <= high /\ owed[p] \subseteq cursor[p] + 1 .. high
      BY ZenonT(60) DEF OwedAhead
    <2>2. cursor[p] <= high'  BY SMTT(60), <1>1, <2>1
    <2>3. owed[p] \subseteq cursor[p] + 1 .. high'  BY SMTT(60), <1>1, <2>1
    <2>4. (high + 1 .. high + n) \subseteq cursor[p] + 1 .. high'  BY SMTT(60), <1>1, <2>1
    <2>5. owed'[p] \subseteq cursor[p] + 1 .. high'  BY ZenonT(60), <1>2, <2>3, <2>4
    <2>6. ASSUME member[p] /= "live" PROVE owed'[p] = {}
      BY ZenonT(60), <1>2, <2>6 DEF OwedAhead, Live
    <2> QED BY ZenonT(60), <2>2, <2>5, <2>6
  <1> QED BY ZenonT(60), <1>1, <1>3, <1>4

\* Each operation of the ledger preserves its invariant.
LEMMA LedgerStep == LedgerInv /\ [LedgerNext]_lvars => LedgerInv'
  <1> SUFFICES ASSUME LedgerInv, [LedgerNext]_lvars PROVE LedgerInv'  BY ZenonT(60)
  <1>0. LedgerType /\ OwedAhead  BY ZenonT(60) DEF LedgerInv
  <1>1. CASE \E p \in Members : Join(p)
    <2>1. PICK p \in Members : Join(p)  BY ZenonT(60), <1>1
    <2>2. Owe(Live, 1) /\ member' = [member EXCEPT ![p] = "live"] /\ cursor' = cursor
      BY ZenonT(60), <2>1 DEF Join
    <2>3. /\ owed' \in [Members -> SUBSET Nat] /\ high' \in Nat
          /\ \A q \in Members : /\ cursor[q] <= high'
                                /\ owed'[q] \subseteq cursor[q] + 1 .. high'
                                /\ member[q] /= "live" => owed'[q] = {}
      BY ZenonT(60), <2>2, OweKeepsAhead
    <2>4. LedgerType'  BY ZenonT(60), <1>0, <2>2, <2>3 DEF LedgerType
    <2>5. \A q \in Members : member'[q] /= "live" => member[q] /= "live"
      BY ZenonT(60), <1>0, <2>2 DEF LedgerType
    <2>6. OwedAhead'  BY ZenonT(60), <2>2, <2>3, <2>5 DEF OwedAhead
    <2> QED BY ZenonT(60), <2>4, <2>6 DEF LedgerInv
  <1>2. CASE (\E p \in Members, n \in 1 .. 2 : Post(p, n)) \/ Announce
    <2>1. PICK R \in SUBSET Live, n \in Nat : Owe(R, n) /\ UNCHANGED <<member, cursor>>
      <3>1. CASE Announce  BY ZenonT(60), <3>1 DEF Announce
      <3>2. CASE \E p \in Members, n \in 1 .. 2 : Post(p, n)
        <4>1. PICK p \in Members, n \in 1 .. 2 : Post(p, n)  BY ZenonT(60), <3>2
        <4>2. Owe(Live \ {p}, n) /\ UNCHANGED <<member, cursor>> /\ n \in Nat
          BY SMTT(60), <4>1 DEF Post
        <4> QED BY ZenonT(60), <4>2
      <3> QED BY ZenonT(60), <1>2, <3>1, <3>2
    <2>2. /\ owed' \in [Members -> SUBSET Nat] /\ high' \in Nat
          /\ \A q \in Members : /\ cursor[q] <= high'
                                /\ owed'[q] \subseteq cursor[q] + 1 .. high'
                                /\ member[q] /= "live" => owed'[q] = {}
      BY ZenonT(60), <2>1, OweKeepsAhead
    <2>3. LedgerType'  BY ZenonT(60), <1>0, <2>1, <2>2 DEF LedgerType
    <2>4. OwedAhead'  BY ZenonT(60), <2>1, <2>2 DEF OwedAhead
    <2> QED BY ZenonT(60), <2>3, <2>4 DEF LedgerInv
  <1>3. CASE \E p \in Members : \E s \in owed[p] : Accept(p, s)
    <2>1. PICK p \in Members : \E s \in owed[p] : Accept(p, s)  BY ZenonT(60), <1>3
    <2>2. PICK s \in owed[p] : Accept(p, s)  BY ZenonT(60), <2>1
    <2>3. /\ cursor' = [cursor EXCEPT ![p] = s]
          /\ owed' = [owed EXCEPT ![p] = {t \in owed[p] : t > s}]
          /\ member' = member /\ high' = high /\ p \in Live
      BY ZenonT(60), <2>2 DEF Accept
    <2>4. s \in Nat /\ s <= high
      BY SMTT(60), <1>0 DEF LedgerType, OwedAhead
    <2>5. LedgerType'  BY ZenonT(60), <1>0, <2>3, <2>4 DEF LedgerType
    <2>6. ASSUME NEW q \in Members
          PROVE  /\ cursor'[q] <= high'
                 /\ owed'[q] \subseteq cursor'[q] + 1 .. high'
                 /\ member'[q] /= "live" => owed'[q] = {}
      <3>1. CASE q /= p  BY ZenonT(60), <1>0, <2>3, <3>1 DEF LedgerType, OwedAhead
      <3>2. CASE q = p
        <4>1. cursor'[q] = s /\ owed'[q] = {t \in owed[p] : t > s} /\ member'[q] = "live"
          BY ZenonT(60), <1>0, <2>3, <3>2 DEF LedgerType, Live
        <4>2. owed[p] \subseteq cursor[p] + 1 .. high /\ cursor[p] \in Nat /\ high \in Nat
          BY ZenonT(60), <1>0 DEF LedgerType, OwedAhead
        <4> QED BY SMTT(60), <2>3, <2>4, <4>1, <4>2
      <3> QED BY ZenonT(60), <3>1, <3>2
    <2> QED BY ZenonT(60), <2>5, <2>6 DEF LedgerInv, OwedAhead
  <1>4. CASE \E p \in Members : Leave(p)
    <2>1. PICK p \in Members : Leave(p)  BY ZenonT(60), <1>4
    <2>2. /\ member' = [member EXCEPT ![p] = "gone"] /\ high' = high + 1 /\ cursor' = cursor
          /\ owed' = [q \in Members |-> IF q = p THEN {}
                                        ELSE IF q \in Live THEN owed[q] \cup {high + 1} ELSE owed[q]]
      BY ZenonT(60), <2>1 DEF Leave
    <2>3. LedgerType'  BY SMTT(60), <1>0, <2>2 DEF LedgerType
    <2>4. ASSUME NEW q \in Members
          PROVE  /\ cursor'[q] <= high'
                 /\ owed'[q] \subseteq cursor'[q] + 1 .. high'
                 /\ member'[q] /= "live" => owed'[q] = {}
      <3>1. cursor[q] \in Nat /\ cursor[q] <= high /\ high \in Nat /\ owed[q] \subseteq cursor[q] + 1 .. high
        BY ZenonT(60), <1>0 DEF LedgerType, OwedAhead
      <3>2. owed'[q] \subseteq owed[q] \cup {high + 1}  BY ZenonT(60), <2>2
      <3>3. member'[q] /= "live" => owed'[q] = {}
        BY ZenonT(60), <1>0, <2>2 DEF LedgerType, OwedAhead, Live
      <3> QED BY SMTT(60), <2>2, <3>1, <3>2, <3>3
    <2> QED BY ZenonT(60), <2>3, <2>4 DEF LedgerInv, OwedAhead
  <1>5. CASE UNCHANGED lvars
    BY ZenonT(60), <1>0, <1>5 DEF lvars, LedgerInv, LedgerType, OwedAhead
  <1> QED BY ZenonT(60), <1>1, <1>2, <1>3, <1>4, <1>5 DEF LedgerNext

LEMMA LedgerInvariant == LedgerSpec => []LedgerInv
  <1>1. LedgerInit => LedgerInv
    BY SMTT(60) DEF LedgerInit, LedgerInv, LedgerType, OwedAhead
  <1> QED BY <1>1, LedgerStep, PTL DEF LedgerSpec

\* Only live members are owed anything, and nothing at or behind their cursor:
\* what the outbox dispatches next is always ahead of what was acknowledged
\* (outbox.rs discharge_through, discharge_retired).
THEOREM OwedStaysAhead == LedgerSpec => []OwedAhead
  BY LedgerInvariant, PTL DEF LedgerInv

\* A number stops being owed only because its recipient's own cursor reached it
\* or the recipient left: no other member's operation discharges it
\* (outbox.rs apply_row).
THEOREM NoObligationLost == LedgerSpec => NothingLost
  <1>1. ASSUME LedgerInv, [LedgerNext]_lvars
        PROVE  [\A p \in Members : \A s \in owed[p] \ owed'[p] :
                   s <= cursor'[p] \/ member'[p] = "gone"]_lvars
    <2> SUFFICES ASSUME LedgerNext, NEW q \in Members, NEW t \in owed[q] \ owed'[q]
                 PROVE  t <= cursor'[q] \/ member'[q] = "gone"
      BY ZenonT(60), <1>1
    <2>0. LedgerType  BY ZenonT(60), <1>1 DEF LedgerInv
    <2>1. ASSUME NEW R, NEW n, Owe(R, n) PROVE FALSE
      BY ZenonT(60), <2>1 DEF Owe
    <2>2. CASE \E p \in Members : Leave(p)
      BY ZenonT(60), <2>0, <2>2 DEF Leave, LedgerType
    <2>3. CASE \E p \in Members : \E s \in owed[p] : Accept(p, s)
      <3>1. PICK p \in Members : \E s \in owed[p] : Accept(p, s)  BY ZenonT(60), <2>3
      <3>2. PICK s \in owed[p] : Accept(p, s)  BY ZenonT(60), <3>1
      <3>3. s \in Nat /\ t \in Nat  BY ZenonT(60), <2>0 DEF LedgerType
      <3>4. q = p /\ ~(t > s)  BY ZenonT(60), <2>0, <3>2 DEF Accept, LedgerType
      <3>5. cursor'[q] = s  BY ZenonT(60), <2>0, <3>2, <3>4 DEF Accept, LedgerType
      <3> QED BY SMTT(60), <3>3, <3>4, <3>5
    <2> QED BY ZenonT(60), <2>1, <2>2, <2>3 DEF LedgerNext, Join, Post, Announce
  <1> QED BY <1>1, LedgerInvariant, PTL DEF LedgerSpec, NothingLost

\* A cursor moves forward, and onto a number its member was owed: an
\* acknowledgement never regresses and never names a record that was not
\* produced for it (ops_nonzero_ack.rs, outbox.rs apply_ack).
THEOREM CursorsMoveOntoOwed == LedgerSpec => CursorOntoOwed
  <1>1. ASSUME LedgerInv, [LedgerNext]_lvars
        PROVE  [\A p \in Members : cursor'[p] /= cursor[p] =>
                   cursor'[p] > cursor[p] /\ cursor'[p] \in owed[p]]_lvars
    <2> SUFFICES ASSUME LedgerNext, NEW q \in Members, cursor'[q] /= cursor[q]
                 PROVE  cursor'[q] > cursor[q] /\ cursor'[q] \in owed[q]
      BY ZenonT(60), <1>1
    <2>0. LedgerType /\ OwedAhead  BY ZenonT(60), <1>1 DEF LedgerInv
    <2>1. CASE \E p \in Members : \E s \in owed[p] : Accept(p, s)
      <3>1. PICK p \in Members : \E s \in owed[p] : Accept(p, s)  BY ZenonT(60), <2>1
      <3>2. PICK s \in owed[p] : Accept(p, s)  BY ZenonT(60), <3>1
      <3>3. q = p /\ cursor'[q] = s  BY ZenonT(60), <2>0, <3>2 DEF Accept, LedgerType
      <3>4. s \in cursor[q] + 1 .. high /\ cursor[q] \in Nat
        BY ZenonT(60), <2>0, <3>3 DEF OwedAhead, LedgerType
      <3> QED BY SMTT(60), <3>3, <3>4
    <2>2. CASE UNCHANGED cursor  BY ZenonT(60), <2>2
    <2> QED BY ZenonT(60), <2>1, <2>2 DEF LedgerNext, Join, Post, Announce, Leave
  <1> QED BY <1>1, LedgerInvariant, PTL DEF LedgerSpec, CursorOntoOwed
=============================================================================
