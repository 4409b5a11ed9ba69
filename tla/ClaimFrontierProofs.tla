------------------------ MODULE ClaimFrontierProofs ------------------------
(***************************************************************************)
(* The claim frontier reserves every exit, never compacts an unaccepted    *)
(* marker and never replays an anchor it does not hold, for every number   *)
(* of slots and every limit.                                               *)
(***************************************************************************)
EXTENDS ClaimFrontier, FiniteSetTheorems, WellFoundedInduction, TLAPS

Typed ==
    /\ high \in Nat /\ order \in Nat /\ live \in Nat /\ terms \in Nat /\ mkrs \in Nat
    /\ ordTerms \in Nat /\ floor \in Nat /\ obs \in Nat
    /\ slot \in [P -> SlotStates]
    /\ mem \in [P -> Nat] /\ cur \in [P -> Nat]
    /\ fate \in SUBSET P
    /\ lane \in Seq(Candidates)
    /\ marks \in SUBSET (Nat \X P) /\ IsFiniteSet(marks)
    /\ credits \in Nat /\ anchors \in Nat /\ folded \in Nat /\ base \in Int

(* Both ledgers hold their reserve.                                        *)
NumbersReserved == SeqFits(high, live, terms, mkrs) /\ OrdFits(order, ordTerms, live)

(* Nothing points past the high watermark, and no marker is below the floor. *)
WithinHigh ==
    /\ floor <= high + 1 /\ obs <= high
    /\ \A p \in P : cur[p] <= high /\ mem[p] <= high
    /\ \A m \in marks : floor <= m[1] /\ m[1] <= high

(* The lane holds the markers of one record or one pending terminal.       *)
LaneShape ==
    \/ mkrs = Len(lane) /\ \A i \in 1 .. Len(lane) : lane[i].kind = "marker"
    \/ mkrs = 0 /\ Len(lane) = 1 /\ lane[1].kind /= "marker"

(* A pending participant is the terminal that blocks the lane, and the     *)
(* order ledger has a number left over for its drain.                      *)
PendingInLane ==
    \A p \in P : slot[p] = "pending" =>
        /\ Len(lane) = 1 /\ lane[1].kind /= "marker" /\ lane[1].p = p
        /\ Retained + 1 > RetainedLimit
        /\ OrdFits(order + 1, ordTerms, live)

(* The terminal that blocks the lane is of a pending participant.          *)
LanePending ==
    \A i \in 1 .. Len(lane) : lane[i].kind /= "marker" => slot[lane[i].p] = "pending"

BaselineExact == base = Retained + mkrs + Slots - credits

(* A participant has at most one marker, retained or in the lane.          *)
OneMarker ==
    /\ \A m, n \in marks : m[2] = n[2] => m = n
    /\ \A i \in 1 .. Len(lane) : lane[i].kind = "marker" =>
          /\ \A m \in marks : m[2] /= lane[i].p
          /\ \A j \in 1 .. Len(lane) : lane[i].p = lane[j].p => i = j

CreditsExact == credits = Cardinality(marks) + mkrs

Count(f, K) == Cardinality({q \in P : f[q] \in K})
ActiveStates == {"bound", "detached", "pending", "erased"}

(* The claims of the ledgers are the census of the slots.                  *)
Census ==
    /\ live = Count(slot, ActiveStates)
    /\ ordTerms = Count(slot, {"bound"})
    /\ terms = ordTerms + Count(slot, {"pending"})

FrontierInv ==
    /\ Typed /\ NumbersReserved /\ WithinHigh /\ LaneShape /\ PendingInLane /\ LanePending
    /\ BaselineExact /\ OneMarker /\ CreditsExact /\ Census /\ ReplayCovers

(***************************************************************************)
(* Arithmetic of the reserve.                                              *)
(***************************************************************************)
LEMMA ReserveType ==
    ASSUME NEW l \in Nat, NEW t \in Nat, NEW m \in Nat
    PROVE  Reserve(l, t, m) \in Nat
  <1>1. l * t \in Nat BY SMTT(60)
  <1>2. l /= 0 => (l - 1) * l \in Nat BY SMTT(60)
  <1> QED BY SMTT(60), <1>1, <1>2 DEF Reserve

(* A terminal, an exit and a marker each free at least the number they use.*)
LEMMA ReserveShrinks ==
    ASSUME NEW l \in Nat, NEW t \in Nat, NEW m \in Nat
    PROVE  /\ t > 0 => Reserve(l, t - 1, m) + 1 + l <= Reserve(l, t, m)
           /\ m > 0 => Reserve(l, t, m - 1) + 1 <= Reserve(l, t, m)
           /\ l > 0 => Reserve(l - 1, t, m) + 1 <= Reserve(l, t, m)
  <1>1. l * (t - 1) = l * t - l /\ l * t \in Nat BY SMTT(60)
  <1>2. t > 0 => Reserve(l, t - 1, m) + 1 + l <= Reserve(l, t, m)
    BY SMTT(60), <1>1 DEF Reserve
  <1>3. m > 0 => Reserve(l, t, m - 1) + 1 <= Reserve(l, t, m)
    BY SMTT(60), <1>1 DEF Reserve
  <1>4. ASSUME l > 0 PROVE Reserve(l - 1, t, m) + 1 <= Reserve(l, t, m)
    <2>1. (l - 1) * t = l * t - t BY SMTT(60)
    <2>2. (l - 1 - 1) * (l - 1) = (l - 1) * l - 2 * (l - 1) BY SMTT(60)
    <2>3. (l - 1) * l \in Nat BY SMTT(60), <1>4
    <2>4. CASE l = 1 BY SMTT(60), <2>1, <2>4, <1>1 DEF Reserve
    <2>5. CASE l > 1 BY SMTT(60), <2>1, <2>2, <2>3, <2>5, <1>1 DEF Reserve
    <2> QED BY SMTT(60), <1>4, <2>4, <2>5
  <1> QED BY ZenonT(60), <1>2, <1>3, <1>4

(***************************************************************************)
(* Floors.                                                                 *)
(***************************************************************************)
LEMMA LeastIsMin ==
    ASSUME NEW S \in SUBSET Nat, NEW d, S /= {}
    PROVE  Least(S, d) \in S /\ \A y \in S : Least(S, d) <= y
  <1>0. PICK n \in S : TRUE BY ZenonT(60)
  <1> DEFINE R == StrictSubsetOrdering(1 .. n)
  <1> DEFINE V == {1 .. k : k \in {j \in S : j <= n}}
  <1>1. IsWellFoundedOn(R, SUBSET (1 .. n))
    <2>1. IsFiniteSet(1 .. n) BY SMTT(60), FS_Interval
    <2>2. FiniteSubsetsOf(1 .. n) = SUBSET (1 .. n) BY ZenonT(60), <2>1, FS_FiniteSubsetsOfFinite
    <2>3. IsWellFoundedOn(R, FiniteSubsetsOf(1 .. n)) BY ZenonT(60), FS_StrictSubsetOrderingWellFounded
    <2> QED BY ZenonT(60), <2>2, <2>3
  <1>2. V \subseteq SUBSET (1 .. n) /\ V /= {}
    <2>1. \A k \in {j \in S : j <= n} : 1 .. k \subseteq 1 .. n BY SMTT(60)
    <2>2. n \in {j \in S : j <= n} BY SMTT(60)
    <2> QED BY ZenonT(60), <2>1, <2>2
  <1>3. PICK X \in V : \A Y \in V : ~ (<<Y, X>> \in R)
    <2> HIDE DEF R, V
    <2> QED BY ZenonT(60), <1>1, <1>2, WFMin
  <1>4. PICK x \in S : x <= n /\ X = 1 .. x
    BY ZenonT(60)
  <1>5. ASSUME NEW y \in S, y < x PROVE FALSE
    <2>1. 1 .. y \in V BY SMTT(60), <1>4, <1>5
    <2>2. 1 .. y \subseteq 1 .. x /\ x \in 1 .. x /\ x \notin 1 .. y
      BY SMTT(60), <1>4, <1>5
    <2>3. <<1 .. y, X>> \in R
      BY ZenonT(60), <1>2, <1>4, <2>1, <2>2 DEF StrictSubsetOrdering
    <2> QED BY ZenonT(60), <2>1, <2>3, <1>3
  <1>6. \E z \in S : \A y \in S : z <= y
    BY SMTT(60), <1>4, <1>5
  <1> QED BY ZenonT(60), <1>6 DEF Least

LEMMA MinMax ==
    ASSUME NEW a \in Int, NEW b \in Int
    PROVE  /\ MaxOf(a, b) \in {a, b} /\ MaxOf(a, b) >= a /\ MaxOf(a, b) >= b
           /\ MinOf(a, b) \in {a, b} /\ MinOf(a, b) <= a /\ MinOf(a, b) <= b
  BY SMTT(60) DEF MaxOf, MinOf

LEMMA PreferredBounds ==
    ASSUME NEW S \in SUBSET Nat, NEW h \in Nat, NEW o \in Nat, floor \in Nat
    PROVE  /\ Preferred(S, h, o) \in Nat
           /\ floor <= Preferred(S, h, o)
           /\ Preferred(S, h, o) <= MaxOf(floor, o + 1)
  <1>1. Least(S, h) \in Nat
    <2>1. CASE S = {} BY ZenonT(60), <2>1 DEF Least
    <2>2. CASE S /= {} BY ZenonT(60), <2>2, LeastIsMin
    <2> QED BY ZenonT(60), <2>1, <2>2
  <1> QED BY SMTT(60), <1>1 DEF Preferred, MaxOf, MinOf

LEMMA ClampBounds ==
    ASSUME NEW f \in Nat, Typed, WithinHigh
    PROVE  /\ MarkerClamped(f) \in Nat
           /\ MarkerClamped(f) <= f
           /\ \A m \in marks : MarkerClamped(f) <= m[1]
           /\ floor <= f => floor <= MarkerClamped(f)
  <1> DEFINE S == {m[1] : m \in marks}
  <1>1. S \in SUBSET Nat /\ floor \in Nat /\ \A m \in marks : floor <= m[1]
    BY ZenonT(60) DEF Typed, WithinHigh
  <1>2. CASE S = {} BY SMTT(60), <1>2 DEF MarkerClamped, Least, MinOf
  <1>3. CASE S /= {}
    <2>1. Least(S, f) \in S /\ \A y \in S : Least(S, f) <= y
      <3> HIDE DEF S
      <3> QED BY ZenonT(60), <1>1, <1>3, LeastIsMin
    <2>2. PICK m \in marks : Least(S, f) = m[1] BY ZenonT(60), <2>1
    <2>3. \A n \in marks : Least(S, f) <= n[1] BY ZenonT(60), <2>1
    <2> HIDE DEF S
    <2>4. MarkerClamped(f) = MinOf(f, Least(S, f)) BY ZenonT(60) DEF MarkerClamped, S
    <2>5. Least(S, f) \in Nat /\ floor <= Least(S, f)
      BY ZenonT(60), <1>1, <2>2 DEF Typed
    <2> DEFINE c == Least(S, f)
    <2> HIDE DEF c
    <2>6. \A n \in marks : c <= n[1] /\ n[1] \in Nat BY ZenonT(60), <2>3 DEF c, Typed
    <2> QED BY SMTT(60), <1>1, <2>4, <2>5, <2>6 DEF MinOf, c
  <1> QED BY ZenonT(60), <1>2, <1>3

(* The floor a death installs: never backward, never past a marker, never  *)
(* past what the observer has seen.                                        *)
LEMMA FateFloorBounds ==
    ASSUME NEW p \in P, NEW h \in Nat, NEW o \in Nat, Typed, WithinHigh
    PROVE  /\ FateFloor(p, h, o) \in Nat
           /\ floor <= FateFloor(p, h, o)
           /\ FateFloor(p, h, o) <= MaxOf(floor, o + 1)
           /\ \A m \in marks : FateFloor(p, h, o) <= m[1]
  <1> DEFINE S == {cur[q] : q \in Active \ {p}}
  <1>1. S \in SUBSET Nat /\ floor \in Nat BY ZenonT(60) DEF Typed, Active
  <1> HIDE DEF S
  <1>2. /\ Preferred(S, h, o) \in Nat
        /\ floor <= Preferred(S, h, o)
        /\ Preferred(S, h, o) <= MaxOf(floor, o + 1)
    BY ZenonT(60), <1>1, PreferredBounds
  <1>3. FateFloor(p, h, o) = MarkerClamped(Preferred(S, h, o)) BY ZenonT(60) DEF FateFloor, S
  <1>4. MaxOf(floor, o + 1) \in Nat BY SMTT(60), <1>1 DEF MaxOf
  <1> QED BY SMTT(60), <1>1, <1>2, <1>3, <1>4, ClampBounds

(***************************************************************************)
(* Counting slots.                                                         *)
(***************************************************************************)
LEMMA SlotsFinite == IsFiniteSet(P)
  BY SMTT(60), FrontierConstants, FS_Interval DEF P

LEMMA CountMove ==
    ASSUME NEW f, NEW g, NEW p \in P, NEW K, \A q \in P \ {p} : g[q] = f[q]
    PROVE  /\ Count(f, K) \in Nat
           /\ Count(g, K) =
              Count(f, K) + (IF g[p] \in K THEN 1 ELSE 0) - (IF f[p] \in K THEN 1 ELSE 0)
  <1> DEFINE A == {q \in P : f[q] \in K}
  <1> DEFINE B == {q \in P : g[q] \in K}
  <1>1. IsFiniteSet(A) /\ IsFiniteSet(B) BY ZenonT(60), SlotsFinite, FS_Subset
  <1>2. Cardinality(A) \in Nat /\ Cardinality(B) \in Nat BY ZenonT(60), <1>1, FS_CardinalityType
  <1>3. CASE g[p] \in K /\ f[p] \notin K
    <2>1. B = A \cup {p} /\ p \notin A BY SMTT(60), <1>3
    <2> HIDE DEF A, B
    <2> QED BY SMTT(60), <1>1, <1>2, <1>3, <2>1, FS_AddElement DEF Count, A, B
  <1>4. CASE g[p] \notin K /\ f[p] \in K
    <2>1. B = A \ {p} /\ p \in A BY SMTT(60), <1>4
    <2>2. Cardinality(B) = Cardinality(A) - 1
      <3> HIDE DEF A, B
      <3> QED BY ZenonT(60), <1>1, <2>1, FS_RemoveElement
    <2> HIDE DEF A, B
    <2> QED BY SMTT(60), <1>2, <1>4, <2>2 DEF Count, A, B
  <1>5. CASE (g[p] \in K) = (f[p] \in K)
    <2>1. B = A BY SMTT(60), <1>5
    <2>2. Count(g, K) = Count(f, K) BY ZenonT(60), <2>1 DEF Count
    <2>3. Count(f, K) \in Nat BY ZenonT(60), <1>2 DEF Count
    <2> QED BY SMTT(60), <1>5, <2>2, <2>3
  <1> QED BY SMTT(60), <1>3, <1>4, <1>5

(***************************************************************************)
(* Steps that share a part of the argument.                                *)
(***************************************************************************)
LEMMA InitInv == Init => FrontierInv
  <1> SUFFICES ASSUME Init PROVE FrontierInv BY ZenonT(60)
  <1>1. Typed
    BY SMTT(60), FS_EmptySet, FrontierConstants DEF Init, Typed, SlotStates, P
  <1>2. NumbersReserved
    BY SMTT(60), FrontierConstants DEF Init, NumbersReserved, SeqFits, OrdFits, Reserve
  <1>3. /\ WithinHigh /\ LaneShape /\ PendingInLane /\ LanePending /\ BaselineExact
        /\ OneMarker /\ ReplayCovers
    BY SMTT(60), FrontierConstants DEF Init, WithinHigh, LaneShape, PendingInLane, LanePending,
       BaselineExact, OneMarker, ReplayCovers, Retained
  <1>4. CreditsExact BY SMTT(60), FS_EmptySet DEF Init, CreditsExact
  <1>5. Census
    <2>1. /\ {q \in P : slot[q] \in ActiveStates} = {}
          /\ {q \in P : slot[q] \in {"bound"}} = {}
          /\ {q \in P : slot[q] \in {"pending"}} = {}
      BY ZenonT(60) DEF Init, ActiveStates
    <2>2. /\ Count(slot, ActiveStates) = 0 /\ Count(slot, {"bound"}) = 0
          /\ Count(slot, {"pending"}) = 0
      BY ZenonT(60), <2>1, FS_EmptySet DEF Count
    <2> QED BY SMTT(60), <2>2 DEF Init, Census
  <1> QED BY ZenonT(60), <1>1, <1>2, <1>3, <1>4, <1>5 DEF FrontierInv

LEMMA AdvanceStep ==
    ASSUME Typed, NEW rows \in Nat, NEW l \in Int, NEW t \in Int, NEW m \in Int,
           NEW ot \in Int, NEW o \in Nat, Advance(rows, l, t, m, ot, o)
    PROVE  /\ NumbersReserved'
           /\ high' \in Nat /\ order' \in Nat /\ live' \in Nat /\ terms' \in Nat
           /\ mkrs' \in Nat /\ ordTerms' \in Nat
  BY SMTT(60) DEF Advance, MoveLedgers, Fits, NumbersReserved, Typed, SeqFits, OrdFits, Reserve

(* A rebuild asks for one number more than a ledger's own check.           *)
LEMMA RebuildStep ==
    ASSUME Typed, NEW rows \in Nat, NEW l \in Int, NEW t \in Int, NEW m \in Int,
           NEW ot \in Int, NEW o \in Nat, Rebuild(rows, l, t, m, ot, o)
    PROVE  /\ Advance(rows, l, t, m, ot, o)
           /\ OrdFits(order' + 1, ordTerms', live')
  <1>1. MoveLedgers(rows, l, t, m, ot, o) BY ZenonT(60) DEF Rebuild
  <1>2. /\ SeqFits(high + rows + 1, live + l, terms + t, mkrs + m)
        /\ OrdFits(order + o + 1, ordTerms + ot, live + l)
    BY ZenonT(60) DEF Rebuild, Rebuilds
  <1>3. /\ live + l \in Nat /\ terms + t \in Nat /\ mkrs + m \in Nat /\ ordTerms + ot \in Nat
        /\ high \in Nat /\ order \in Nat /\ MaxSeq \in Nat /\ MaxOrder \in Nat
    BY SMTT(60), <1>1, FrontierConstants DEF MoveLedgers, Typed
  <1>4. Reserve(live + l, terms + t, mkrs + m) \in Nat BY ZenonT(60), <1>3, ReserveType
  <1>5. SeqFits(high + rows, live + l, terms + t, mkrs + m)
    BY SMTT(60), <1>2, <1>3, <1>4 DEF SeqFits
  <1>6. OrdFits(order + o, ordTerms + ot, live + l) BY SMTT(60), <1>2, <1>3 DEF OrdFits
  <1>7. Advance(rows, l, t, m, ot, o) BY ZenonT(60), <1>1, <1>5, <1>6 DEF Advance, Fits
  <1>8. /\ order' = order + o /\ ordTerms' = ordTerms + ot /\ live' = live + l
    BY ZenonT(60), <1>1 DEF MoveLedgers
  <1>9. OrdFits(order' + 1, ordTerms', live') BY ZenonT(60), <1>2, <1>8
  <1> QED BY ZenonT(60), <1>7, <1>9

(* Nobody is pending while the lane is empty.                              *)
LEMMA EmptyLane ==
    ASSUME FrontierInv, lane = << >>
    PROVE  mkrs = 0 /\ \A p \in P : slot[p] /= "pending"
  BY SMTT(60) DEF FrontierInv, LaneShape, PendingInLane

(* A step that leaves the lane and the markers alone, over an empty lane.  *)
LEMMA QuietLane ==
    ASSUME FrontierInv, lane = << >>, lane' = lane, marks' = marks, mkrs' = mkrs,
           credits' = credits, NEW p \in P, NEW s \in SlotStates \ {"pending"},
           slot' = [slot EXCEPT ![p] = s]
    PROVE  LaneShape' /\ PendingInLane' /\ LanePending' /\ OneMarker' /\ CreditsExact'
  <1>1. \A q \in P : slot'[q] /= "pending"
    BY ZenonT(60), EmptyLane DEF FrontierInv, Typed
  <1> QED BY SMTT(60), <1>1, EmptyLane DEF FrontierInv, LaneShape, PendingInLane, LanePending, OneMarker,
             CreditsExact

(* A step that only moves cursors, anchors or the phase.                   *)
LEMMA FrameStep ==
    ASSUME FrontierInv, UNCHANGED <<ledger, floor, slot, lane, marks, credits, base>>
    PROVE  /\ LaneShape' /\ PendingInLane' /\ LanePending' /\ OneMarker' /\ CreditsExact'
           /\ NumbersReserved' /\ BaselineExact' /\ Census'
  BY ZenonT(60) DEF FrontierInv, ledger, LaneShape, PendingInLane, LanePending, OneMarker, CreditsExact,
     NumbersReserved, BaselineExact, Census, Count, Retained, SeqFits, OrdFits, Reserve

(* The census after one slot moves.                                        *)
LEMMA CensusStep ==
    ASSUME FrontierInv, NEW p \in P, NEW s,
           slot'[p] = s, \A q \in P \ {p} : slot'[q] = slot[q],
           live' = live + (IF s \in ActiveStates THEN 1 ELSE 0)
                        - (IF slot[p] \in ActiveStates THEN 1 ELSE 0),
           ordTerms' = ordTerms + (IF s = "bound" THEN 1 ELSE 0)
                                - (IF slot[p] = "bound" THEN 1 ELSE 0),
           terms' = ordTerms' + (terms - ordTerms + (IF s = "pending" THEN 1 ELSE 0)
                                - (IF slot[p] = "pending" THEN 1 ELSE 0))
    PROVE  Census'
  <1>1. slot \in [P -> SlotStates] /\ terms \in Nat /\ ordTerms \in Nat
    BY ZenonT(60) DEF FrontierInv, Typed
  <1>2. ASSUME NEW K
        PROVE  /\ Count(slot, K) \in Nat
               /\ Count(slot', K) = Count(slot, K) + (IF s \in K THEN 1 ELSE 0)
                                  - (IF slot[p] \in K THEN 1 ELSE 0)
    <2>1. /\ Count(slot, K) \in Nat
          /\ Count(slot', K) = Count(slot, K) + (IF slot'[p] \in K THEN 1 ELSE 0)
                             - (IF slot[p] \in K THEN 1 ELSE 0)
      BY ZenonT(60), CountMove
    <2> QED BY ZenonT(60), <2>1
  <1>3. /\ live = Count(slot, ActiveStates)
        /\ ordTerms = Count(slot, {"bound"})
        /\ terms = ordTerms + Count(slot, {"pending"})
    BY ZenonT(60) DEF FrontierInv, Census
  <1>4. Count(slot, {"pending"}) = terms - ordTerms BY SMTT(60), <1>1, <1>2, <1>3
  <1>5. /\ Count(slot', {"bound"}) = ordTerms + (IF s \in {"bound"} THEN 1 ELSE 0)
                                   - (IF slot[p] \in {"bound"} THEN 1 ELSE 0)
        /\ Count(slot', {"pending"}) = terms - ordTerms + (IF s \in {"pending"} THEN 1 ELSE 0)
                                   - (IF slot[p] \in {"pending"} THEN 1 ELSE 0)
        /\ Count(slot', ActiveStates) = live + (IF s \in ActiveStates THEN 1 ELSE 0)
                                   - (IF slot[p] \in ActiveStates THEN 1 ELSE 0)
    BY ZenonT(60), <1>2, <1>3, <1>4
  <1> QED BY ZenonT(60), <1>5 DEF Census

(***************************************************************************)
(* One lemma per operation.                                                *)
(***************************************************************************)
LEMMA EnrollStep ==
    ASSUME FrontierInv, NEW p \in P, Enroll(p) PROVE FrontierInv'
  <1>0. Typed /\ Advance(1, 1, 1, 0, 1, 1)
    <2>1. Typed BY ZenonT(60) DEF FrontierInv
    <2>2. CASE p = 0 BY ZenonT(60), <2>1, <2>2 DEF Enroll
    <2>3. CASE p /= 0
      <3>1. Rebuild(1, 1, 1, 0, 1, 1) BY ZenonT(60), <2>3 DEF Enroll
      <3>2. 0 \in Nat /\ 1 \in Nat /\ 0 \in Int /\ 1 \in Int BY SMTT(60)
      <3> QED BY ZenonT(60), <2>1, <3>1, <3>2, RebuildStep
    <2> QED BY ZenonT(60), <2>2, <2>3
  <1>1. NumbersReserved' /\ high' \in Nat /\ order' \in Nat /\ live' \in Nat /\ terms' \in Nat
        /\ mkrs' \in Nat /\ ordTerms' \in Nat
    BY SMTT(60), <1>0 DEF Advance, MoveLedgers, Fits, NumbersReserved, Typed, SeqFits, OrdFits
  <1>2. /\ high' = high + 1 /\ live' = live + 1 /\ terms' = terms + 1 /\ mkrs' = mkrs
        /\ ordTerms' = ordTerms + 1
    BY SMTT(60), <1>0 DEF Advance, MoveLedgers, Typed
  <1>3. slot' = [slot EXCEPT ![p] = "bound"] /\ slot[p] = "free" BY ZenonT(60) DEF Enroll
  <1>4. Typed' BY SMTT(60), <1>0, <1>1, <1>3 DEF Enroll, Append1, Typed, SlotStates
  <1>5. WithinHigh' BY SMTT(60), <1>0, <1>2 DEF Enroll, WithinHigh, Typed, FrontierInv
  <1>6. LaneShape' /\ PendingInLane' /\ LanePending' /\ OneMarker' /\ CreditsExact'
    BY ZenonT(60), <1>2, <1>3, QuietLane DEF Enroll, Append1, SlotStates
  <1>7. BaselineExact' /\ ReplayCovers'
    BY SMTT(60), <1>0, <1>2, FrontierConstants
       DEF Enroll, Append1, BaselineExact, ReplayCovers, Retained, FrontierInv, Typed
  <1>8. Census'
    <2>1. slot'[p] = "bound" /\ \A q \in P \ {p} : slot'[q] = slot[q] BY ZenonT(60), <1>0, <1>3 DEF Typed
    <2>2. terms \in Nat /\ ordTerms \in Nat /\ live \in Nat BY ZenonT(60), <1>0 DEF Typed
    <2>3. slot[p] = "free" BY ZenonT(60), <1>3
    <2> QED BY SMTT(60), <1>2, <2>1, <2>2, <2>3, CensusStep DEF ActiveStates
  <1> QED BY ZenonT(60), <1>1, <1>4, <1>5, <1>6, <1>7, <1>8 DEF FrontierInv

LEMMA AttachDetachedStep ==
    ASSUME FrontierInv, NEW p \in P, AttachDetached(p) PROVE FrontierInv'
  <1>0. Typed /\ Advance(1, 0, 1, 0, 1, 1)
    <2>1. Typed /\ Rebuild(1, 0, 1, 0, 1, 1) BY ZenonT(60) DEF FrontierInv, AttachDetached
    <2>2. 0 \in Nat /\ 1 \in Nat /\ 2 \in Nat /\ 0 \in Int /\ 1 \in Int /\ -1 \in Int BY SMTT(60)
    <2> QED BY ZenonT(60), <2>1, <2>2, RebuildStep
  <1>1. NumbersReserved' /\ high' \in Nat /\ order' \in Nat /\ live' \in Nat /\ terms' \in Nat
        /\ mkrs' \in Nat /\ ordTerms' \in Nat
    BY SMTT(60), <1>0 DEF Advance, MoveLedgers, Fits, NumbersReserved, Typed, SeqFits, OrdFits
  <1>2. /\ high' = high + 1 /\ live' = live /\ terms' = terms + 1 /\ mkrs' = mkrs
        /\ ordTerms' = ordTerms + 1
    BY SMTT(60), <1>0 DEF Advance, MoveLedgers, Typed
  <1>3. slot' = [slot EXCEPT ![p] = "bound"] /\ slot[p] = "detached" BY ZenonT(60) DEF AttachDetached
  <1>4. Typed' BY SMTT(60), <1>0, <1>1, <1>3 DEF AttachDetached, Append1, Typed, SlotStates
  <1>5. WithinHigh' BY SMTT(60), <1>0, <1>2 DEF AttachDetached, WithinHigh, Typed, FrontierInv
  <1>6. LaneShape' /\ PendingInLane' /\ LanePending' /\ OneMarker' /\ CreditsExact'
    BY ZenonT(60), <1>2, <1>3, QuietLane DEF AttachDetached, Append1, SlotStates
  <1>7. BaselineExact' /\ ReplayCovers'
    BY SMTT(60), <1>0, <1>2, FrontierConstants
       DEF AttachDetached, Append1, BaselineExact, ReplayCovers, Retained, FrontierInv, Typed
  <1>8. Census'
    <2>1. slot'[p] = "bound" /\ \A q \in P \ {p} : slot'[q] = slot[q] BY ZenonT(60), <1>0, <1>3 DEF Typed
    <2>2. terms \in Nat /\ ordTerms \in Nat /\ live \in Nat BY ZenonT(60), <1>0 DEF Typed
    <2>3. slot[p] = "detached" BY ZenonT(60), <1>3
    <2> QED BY SMTT(60), <1>2, <2>1, <2>2, <2>3, CensusStep DEF ActiveStates
  <1> QED BY ZenonT(60), <1>1, <1>4, <1>5, <1>6, <1>7, <1>8 DEF FrontierInv

LEMMA AttachSupersedingStep ==
    ASSUME FrontierInv, NEW p \in P, AttachSuperseding(p) PROVE FrontierInv'
  <1>0. Typed /\ Advance(2, 0, 0, 0, 0, 1)
    <2>1. Typed /\ Rebuild(2, 0, 0, 0, 0, 1) BY ZenonT(60) DEF FrontierInv, AttachSuperseding
    <2>2. 0 \in Nat /\ 1 \in Nat /\ 2 \in Nat /\ 0 \in Int /\ 1 \in Int /\ -1 \in Int BY SMTT(60)
    <2> QED BY ZenonT(60), <2>1, <2>2, RebuildStep
  <1>1. NumbersReserved' /\ high' \in Nat /\ order' \in Nat /\ live' \in Nat /\ terms' \in Nat
        /\ mkrs' \in Nat /\ ordTerms' \in Nat
    BY SMTT(60), <1>0 DEF Advance, MoveLedgers, Fits, NumbersReserved, Typed, SeqFits, OrdFits
  <1>2. /\ high' = high + 2 /\ live' = live /\ terms' = terms /\ mkrs' = mkrs
        /\ ordTerms' = ordTerms
    BY SMTT(60), <1>0 DEF Advance, MoveLedgers, Typed
  <1>3. slot' = slot /\ slot[p] = "bound" BY ZenonT(60) DEF AttachSuperseding
  <1>4. Typed' BY SMTT(60), <1>0, <1>1 DEF AttachSuperseding, Append1, Typed, MaxOf
  <1>5. WithinHigh' BY SMTT(60), <1>0, <1>2 DEF AttachSuperseding, WithinHigh, Typed, FrontierInv, MaxOf
  <1>6. LaneShape' /\ PendingInLane' /\ LanePending' /\ OneMarker' /\ CreditsExact'
    <2>1. \A q \in P : slot'[q] /= "pending"
      BY ZenonT(60), <1>3, EmptyLane DEF AttachSuperseding, Append1
    <2> QED BY SMTT(60), <1>2, <2>1
            DEF AttachSuperseding, Append1, LaneShape, PendingInLane, LanePending, OneMarker,
                CreditsExact, FrontierInv
  <1>7. BaselineExact' /\ ReplayCovers'
    BY SMTT(60), <1>0, <1>2, FrontierConstants
       DEF AttachSuperseding, Append1, BaselineExact, ReplayCovers, Retained, FrontierInv, Typed
  <1>8. Census' BY ZenonT(60), <1>2, <1>3 DEF FrontierInv, Census, Count
  <1> QED BY ZenonT(60), <1>1, <1>4, <1>5, <1>6, <1>7, <1>8 DEF FrontierInv

LEMMA DetachStep ==
    ASSUME FrontierInv, NEW p \in P, Detach(p) PROVE FrontierInv'
  <1>0. Typed /\ Advance(1, 0, -1, 0, -1, 1)
    <2>1. Typed /\ Rebuild(1, 0, -1, 0, -1, 1) BY ZenonT(60) DEF FrontierInv, Detach
    <2>2. 0 \in Nat /\ 1 \in Nat /\ 2 \in Nat /\ 0 \in Int /\ 1 \in Int /\ -1 \in Int BY SMTT(60)
    <2> QED BY ZenonT(60), <2>1, <2>2, RebuildStep
  <1>1. NumbersReserved' /\ high' \in Nat /\ order' \in Nat /\ live' \in Nat /\ terms' \in Nat
        /\ mkrs' \in Nat /\ ordTerms' \in Nat
    BY SMTT(60), <1>0 DEF Advance, MoveLedgers, Fits, NumbersReserved, Typed, SeqFits, OrdFits
  <1>2. /\ high' = high + 1 /\ live' = live /\ terms' = terms - 1 /\ mkrs' = mkrs
        /\ ordTerms' = ordTerms - 1
    BY SMTT(60), <1>0 DEF Advance, MoveLedgers, Typed
  <1>3. slot' = [slot EXCEPT ![p] = "detached"] /\ slot[p] = "bound" BY ZenonT(60) DEF Detach
  <1>4. Typed' BY SMTT(60), <1>0, <1>1, <1>3 DEF Detach, Append1, Typed, SlotStates, MaxOf
  <1>5. WithinHigh' BY SMTT(60), <1>0, <1>2 DEF Detach, WithinHigh, Typed, FrontierInv, MaxOf
  <1>6. LaneShape' /\ PendingInLane' /\ LanePending' /\ OneMarker' /\ CreditsExact'
    BY ZenonT(60), <1>2, <1>3, QuietLane DEF Detach, Append1, SlotStates
  <1>7. BaselineExact' /\ ReplayCovers'
    BY SMTT(60), <1>0, <1>2, FrontierConstants
       DEF Detach, Append1, BaselineExact, ReplayCovers, Retained, FrontierInv, Typed
  <1>8. Census'
    <2>1. slot'[p] = "detached" /\ \A q \in P \ {p} : slot'[q] = slot[q]
      BY ZenonT(60), <1>0, <1>3 DEF Typed
    <2>2. terms \in Nat /\ ordTerms \in Nat /\ live \in Nat BY ZenonT(60), <1>0 DEF Typed
    <2>3. slot[p] = "bound" BY ZenonT(60), <1>3
    <2> QED BY SMTT(60), <1>2, <2>1, <2>2, <2>3, CensusStep DEF ActiveStates
  <1> QED BY ZenonT(60), <1>1, <1>4, <1>5, <1>6, <1>7, <1>8 DEF FrontierInv

LEMMA FateCommitStep ==
    ASSUME FrontierInv, NEW p \in P, NEW cause, FateCommit(p, cause)
    PROVE  FrontierInv' /\ \A m \in marks : m \in marks' /\ floor' <= m[1]
  <1>0. Typed /\ Advance(1, 0, -1, 0, -1, 1) /\ WithinHigh
    <2>1. Typed /\ Rebuild(1, 0, -1, 0, -1, 1) /\ WithinHigh BY ZenonT(60) DEF FrontierInv, FateCommit
    <2>2. 0 \in Nat /\ 1 \in Nat /\ 2 \in Nat /\ 0 \in Int /\ 1 \in Int /\ -1 \in Int BY SMTT(60)
    <2> QED BY ZenonT(60), <2>1, <2>2, RebuildStep
  <1>1. NumbersReserved' /\ high' \in Nat /\ order' \in Nat /\ live' \in Nat /\ terms' \in Nat
        /\ mkrs' \in Nat /\ ordTerms' \in Nat
    BY SMTT(60), <1>0 DEF Advance, MoveLedgers, Fits, NumbersReserved, Typed, SeqFits, OrdFits
  <1>2. /\ high' = high + 1 /\ live' = live /\ terms' = terms - 1 /\ mkrs' = mkrs
        /\ ordTerms' = ordTerms - 1
    BY SMTT(60), <1>0 DEF Advance, MoveLedgers, Typed
  <1>3. slot' = [slot EXCEPT ![p] = "detached"] /\ slot[p] = "bound" BY ZenonT(60) DEF FateCommit
  <1>4. /\ floor' \in Nat /\ floor <= floor' /\ floor' <= high + 2
        /\ \A m \in marks : floor' <= m[1]
        /\ base' = base + 1 - (floor' - floor)
    <2> DEFINE F == FateFloor(p, high + 1, MaxOf(obs, high + 1))
    <2>1. /\ MaxOf(obs, high + 1) = high + 1 /\ high + 1 \in Nat /\ floor \in Nat
          /\ high \in Nat /\ base \in Int
      BY SMTT(60), <1>0 DEF Typed, WithinHigh, MaxOf
    <2>2. F \in Nat /\ floor <= F /\ F <= MaxOf(floor, high + 2) /\ \A m \in marks : F <= m[1]
      <3>1. \A h \in Nat, o \in Nat :
              /\ FateFloor(p, h, o) \in Nat /\ floor <= FateFloor(p, h, o)
              /\ FateFloor(p, h, o) <= MaxOf(floor, o + 1)
              /\ \A m \in marks : FateFloor(p, h, o) <= m[1]
        BY ZenonT(60), <1>0, FateFloorBounds
      <3>2. (high + 1) + 1 = high + 2 BY SMTT(60), <2>1
      <3> QED BY ZenonT(60), <3>1, <3>2, <2>1
    <2>3. floor' = (IF cause = "died" /\ p \in fate THEN F ELSE floor)
          /\ base' = base + 1 - (floor' - floor)
      BY ZenonT(60) DEF FateCommit
    <2> HIDE DEF F
    <2>4. floor <= high + 1 /\ \A m \in marks : floor <= m[1] BY ZenonT(60), <1>0 DEF WithinHigh
    <2>5. floor <= high + 2 /\ MaxOf(floor, high + 2) = high + 2 BY SMTT(60), <2>1, <2>4 DEF MaxOf
    <2>6. CASE floor' = F BY ZenonT(60), <2>1, <2>2, <2>3, <2>5, <2>6
    <2>7. CASE floor' = floor BY SMTT(60), <2>1, <2>3, <2>4, <2>5, <2>7
    <2> QED BY ZenonT(60), <2>3, <2>6, <2>7
  <1>11. /\ cur' \in {cur, [cur EXCEPT ![p] = high + 1]} /\ fate' = fate \ {p}
         /\ obs' = MaxOf(obs, high + 1)
         /\ UNCHANGED <<mem, lane, marks, credits, anchors, folded>>
    BY ZenonT(60) DEF FateCommit
  <1>5. Typed'
    <2>1. cur' \in [P -> Nat] /\ mem' \in [P -> Nat] /\ slot' \in [P -> SlotStates]
      BY SMTT(60), <1>0, <1>3, <1>11 DEF Typed, SlotStates
    <2>2. obs' \in Nat /\ fate' \in SUBSET P BY SMTT(60), <1>0, <1>11 DEF Typed, MaxOf
    <2>3. UNCHANGED <<lane, marks, credits, anchors, folded>> BY ZenonT(60), <1>11
    <2>4. base' \in Int BY SMTT(60), <1>0, <1>4 DEF Typed
    <2> QED BY ZenonT(60), <1>0, <1>1, <1>4, <2>1, <2>2, <2>3, <2>4 DEF Typed
  <1>6. WithinHigh'
    <2>1. \A q \in P : cur'[q] <= high + 1
      <3>1. cur \in [P -> Nat] /\ high \in Nat /\ \A q \in P : cur[q] <= high
        BY ZenonT(60), <1>0 DEF Typed, WithinHigh
      <3>2. CASE cur' = cur BY SMTT(60), <3>1, <3>2
      <3>3. CASE cur' = [cur EXCEPT ![p] = high + 1] BY SMTT(60), <3>1, <3>3
      <3> QED BY ZenonT(60), <1>11, <3>2, <3>3
    <2>2. obs' <= high + 1 /\ marks' = marks /\ mem' = mem
      BY SMTT(60), <1>0, <1>11 DEF Typed, WithinHigh, MaxOf
    <2> QED BY SMTT(60), <1>0, <1>2, <1>4, <2>1, <2>2 DEF WithinHigh, Typed
  <1>7. LaneShape' /\ PendingInLane' /\ LanePending' /\ OneMarker' /\ CreditsExact'
    BY ZenonT(60), <1>2, <1>3, QuietLane DEF FateCommit, SlotStates
  <1>8. BaselineExact' /\ ReplayCovers'
    <2>1. base = high + 1 - floor + mkrs + Slots - credits /\ credits' = credits
          /\ folded >= anchors /\ folded' = folded /\ anchors' = anchors
      BY ZenonT(60) DEF FateCommit, BaselineExact, Retained, FrontierInv, ReplayCovers
    <2> QED BY SMTT(60), <1>0, <1>2, <1>4, <2>1, FrontierConstants
            DEF BaselineExact, Retained, ReplayCovers, Typed
  <1>9. Census'
    <2>1. slot'[p] = "detached" /\ \A q \in P \ {p} : slot'[q] = slot[q]
      BY ZenonT(60), <1>0, <1>3 DEF Typed
    <2>2. terms \in Nat /\ ordTerms \in Nat /\ live \in Nat BY ZenonT(60), <1>0 DEF Typed
    <2>3. slot[p] = "bound" BY ZenonT(60), <1>3
    <2> DEFINE s == "detached"
    <2>4. /\ live' = live + (IF s \in ActiveStates THEN 1 ELSE 0)
                         - (IF slot[p] \in ActiveStates THEN 1 ELSE 0)
          /\ ordTerms' = ordTerms + (IF s = "bound" THEN 1 ELSE 0)
                                 - (IF slot[p] = "bound" THEN 1 ELSE 0)
          /\ terms' = ordTerms' + (terms - ordTerms + (IF s = "pending" THEN 1 ELSE 0)
                                 - (IF slot[p] = "pending" THEN 1 ELSE 0))
      BY SMTT(60), <1>2, <2>2, <2>3 DEF ActiveStates
    <2> QED BY ZenonT(60), <2>1, <2>4, CensusStep
  <1>10. marks' = marks BY ZenonT(60) DEF FateCommit
  <1> QED BY ZenonT(60), <1>1, <1>4, <1>5, <1>6, <1>7, <1>8, <1>9, <1>10 DEF FrontierInv

LEMMA FatePendStep ==
    ASSUME FrontierInv, NEW p \in P, NEW cause \in {"detached", "died"}, FatePend(p, cause)
    PROVE  FrontierInv'
  <1>0. Typed /\ Advance(0, 0, 0, 0, -1, 1) /\ OrdFits(order' + 1, ordTerms', live')
    <2>1. Typed /\ Rebuild(0, 0, 0, 0, -1, 1) BY ZenonT(60) DEF FrontierInv, FatePend
    <2>2. 0 \in Nat /\ 1 \in Nat /\ 0 \in Int /\ -1 \in Int BY SMTT(60)
    <2> QED BY ZenonT(60), <2>1, <2>2, RebuildStep
  <1>1. NumbersReserved' /\ high' \in Nat /\ order' \in Nat /\ live' \in Nat /\ terms' \in Nat
        /\ mkrs' \in Nat /\ ordTerms' \in Nat
    BY SMTT(60), <1>0 DEF Advance, MoveLedgers, Fits, NumbersReserved, Typed, SeqFits, OrdFits
  <1>2. /\ high' = high /\ live' = live /\ terms' = terms /\ mkrs' = mkrs
        /\ ordTerms' = ordTerms - 1
    BY SMTT(60), <1>0 DEF Advance, MoveLedgers, Typed
  <1>3. slot' = [slot EXCEPT ![p] = "pending"] /\ slot[p] = "bound" BY ZenonT(60) DEF FatePend
  <1>4. Typed'
    <2>1. [kind |-> cause, p |-> p] \in Candidates BY ZenonT(60) DEF Candidates
    <2>2. lane' \in Seq(Candidates) BY SMTT(60), <2>1 DEF FatePend
    <2> QED BY ZenonT(60), <1>0, <1>1, <1>3, <2>2 DEF FatePend, Typed, SlotStates, acct
  <1>5. WithinHigh' BY ZenonT(60), <1>0, <1>2 DEF FatePend, WithinHigh, Typed, FrontierInv
  <1>6. LaneShape' /\ PendingInLane' /\ LanePending' /\ OneMarker' /\ CreditsExact'
    <2>1. mkrs = 0 /\ \A q \in P : slot[q] /= "pending" BY ZenonT(60), EmptyLane DEF FatePend
    <2>2. Len(lane') = 1 /\ lane'[1].kind = cause /\ lane'[1].p = p /\ lane'[1].kind /= "marker"
      BY ZenonT(60) DEF FatePend
    <2>3. slot'[p] = "pending" /\ \A q \in P \ {p} : slot'[q] /= "pending"
      BY ZenonT(60), <1>0, <1>3, <2>1 DEF Typed
    <2>4. marks' = marks /\ floor' = floor /\ Retained + 1 > RetainedLimit /\ credits' = credits
      BY ZenonT(60) DEF FatePend, acct
    <2>5. LaneShape' /\ PendingInLane' /\ LanePending'
      BY SMTT(60), <1>0, <1>2, <2>1, <2>2, <2>3, <2>4
         DEF LaneShape, PendingInLane, LanePending, Retained
    <2> QED BY SMTT(60), <1>2, <2>2, <2>4, <2>5 DEF OneMarker, CreditsExact, FrontierInv
  <1>7. BaselineExact' /\ ReplayCovers'
    BY ZenonT(60), <1>0, <1>2 DEF FatePend, acct, BaselineExact, ReplayCovers, Retained, FrontierInv, Typed
  <1>8. Census'
    <2>1. slot'[p] = "pending" /\ \A q \in P \ {p} : slot'[q] = slot[q]
      BY ZenonT(60), <1>0, <1>3 DEF Typed
    <2>2. terms \in Nat /\ ordTerms \in Nat /\ live \in Nat BY ZenonT(60), <1>0 DEF Typed
    <2>3. slot[p] = "bound" BY ZenonT(60), <1>3
    <2> QED BY SMTT(60), <1>2, <2>1, <2>2, <2>3, CensusStep DEF ActiveStates
  <1> QED BY ZenonT(60), <1>1, <1>4, <1>5, <1>6, <1>7, <1>8 DEF FrontierInv

LEMMA DrainMarkerStep ==
    ASSUME FrontierInv, DrainMarker PROVE FrontierInv'
  <1>0. Typed /\ Advance(1, 0, 0, -1, 0, 0) /\ lane /= << >> /\ lane \in Seq(Candidates)
        /\ lane[1].kind = "marker" /\ lane' = Tail(lane)
        /\ marks' = marks \cup {<<high + 1, lane[1].p>>}
        /\ UNCHANGED <<floor, obs, slot, mem, cur, fate, acct>>
    BY SMTT(60) DEF FrontierInv, Typed, DrainMarker
  <1>1. NumbersReserved' /\ high' \in Nat /\ order' \in Nat /\ live' \in Nat /\ terms' \in Nat
        /\ mkrs' \in Nat /\ ordTerms' \in Nat
    BY SMTT(60), <1>0 DEF Advance, MoveLedgers, Fits, NumbersReserved, Typed, SeqFits, OrdFits
  <1>2. /\ high' = high + 1 /\ live' = live /\ terms' = terms /\ mkrs' = mkrs - 1
        /\ ordTerms' = ordTerms
    BY SMTT(60), <1>0 DEF Advance, MoveLedgers, Typed
  <1>3. Len(lane) \in Nat /\ Len(lane) >= 1 /\ Len(lane') = Len(lane) - 1
        /\ lane' \in Seq(Candidates) /\ \A i \in 1 .. Len(lane') : lane'[i] = lane[i + 1]
    BY SMTT(60), <1>0
  <1>4. lane[1].p \in P
    <2>1. lane[1] \in Candidates BY SMTT(60), <1>0, <1>3
    <2> QED BY ZenonT(60), <2>1 DEF Candidates
  <1>5. Typed'
    <2>1. IsFiniteSet(marks') BY ZenonT(60), <1>0, FS_AddElement DEF Typed
    <2>2. marks' \in SUBSET (Nat \X P) BY SMTT(60), <1>0, <1>4 DEF Typed
    <2> QED BY ZenonT(60), <1>0, <1>1, <1>3, <2>1, <2>2 DEF Typed, acct
  <1>6. WithinHigh' BY SMTT(60), <1>0, <1>2, <1>4 DEF WithinHigh, Typed, FrontierInv
  <1>7. mkrs = Len(lane) /\ \A i \in 1 .. Len(lane) : lane[i].kind = "marker"
    BY ZenonT(60), <1>0, <1>3 DEF LaneShape, FrontierInv
  <1>8. LaneShape' /\ LanePending' BY SMTT(60), <1>2, <1>3, <1>7 DEF LaneShape, LanePending
  <1>9. PendingInLane'
    <2>1. \A p \in P : slot[p] /= "pending" BY SMTT(60), <1>3, <1>7 DEF FrontierInv, PendingInLane
    <2> QED BY ZenonT(60), <1>0, <2>1 DEF PendingInLane
  <1>10. OneMarker'
    <2> DEFINE new == <<high + 1, lane[1].p>>
    <2>1. /\ \A m, n \in marks : m[2] = n[2] => m = n
          /\ \A i \in 1 .. Len(lane) : \A m \in marks : m[2] /= lane[i].p
          /\ \A i, j \in 1 .. Len(lane) : lane[i].p = lane[j].p => i = j
      BY ZenonT(60), <1>7 DEF OneMarker, FrontierInv
    <2>2. \A m \in marks' : m \in marks \/ m = new BY ZenonT(60), <1>0
    <2>3. new[2] = lane[1].p BY ZenonT(60)
    <2>4. 1 \in 1 .. Len(lane) BY SMTT(60), <1>3
    <2> HIDE DEF new
    <2>5. \A m, n \in marks' : m[2] = n[2] => m = n BY ZenonT(60), <2>1, <2>2, <2>3, <2>4
    <2>6. \A i \in 1 .. Len(lane') : i + 1 \in 1 .. Len(lane) /\ i + 1 /= 1 BY SMTT(60), <1>3
    <2>7. \A i \in 1 .. Len(lane') : \A m \in marks' : m[2] /= lane'[i].p
      BY SMTT(60), <1>3, <2>1, <2>2, <2>3, <2>4, <2>6
    <2>8. \A i, j \in 1 .. Len(lane') : lane'[i].p = lane'[j].p => i = j
      BY SMTT(60), <1>3, <2>1, <2>6
    <2> QED BY ZenonT(60), <2>5, <2>7, <2>8 DEF OneMarker
  <1>11. CreditsExact'
    <2>1. <<high + 1, lane[1].p>> \notin marks BY SMTT(60), <1>0 DEF FrontierInv, WithinHigh, Typed
    <2>2. Cardinality(marks') = Cardinality(marks) + 1 /\ Cardinality(marks) \in Nat
      BY ZenonT(60), <1>0, <2>1, FS_AddElement, FS_CardinalityType DEF Typed
    <2> QED BY SMTT(60), <1>0, <1>2, <2>2 DEF CreditsExact, FrontierInv, acct, Typed
  <1>12. BaselineExact' /\ ReplayCovers'
    BY SMTT(60), <1>0, <1>2, FrontierConstants
       DEF BaselineExact, ReplayCovers, Retained, FrontierInv, Typed, acct
  <1>13. Census' BY ZenonT(60), <1>0, <1>2 DEF FrontierInv, Census, Count
  <1> QED BY ZenonT(60), <1>1, <1>5, <1>6, <1>8, <1>9, <1>10, <1>11, <1>12, <1>13 DEF FrontierInv

LEMMA DrainTerminalStep ==
    ASSUME FrontierInv, DrainTerminal
    PROVE  FrontierInv' /\ \A m \in marks : m \in marks' /\ floor' <= m[1]
  <1> DEFINE p == Head(lane).p
  <1> DEFINE died == Head(lane).kind = "died"
  <1> DEFINE seals == died /\ \A q \in Enrolled \ {p} : slot[q] = "erased"
  <1> DEFINE F == FateFloor(p, high, obs)
  <1>0. /\ Typed /\ WithinHigh /\ Advance(1, 0, -1, 0, 0, 0) /\ lane /= << >>
        /\ lane \in Seq(Candidates) /\ Head(lane).kind /= "marker" /\ lane' = Tail(lane)
        /\ obs' = MaxOf(obs, high + 1)
        /\ slot' = [slot EXCEPT ![p] = IF died THEN "erased" ELSE "detached"]
        /\ fate' = fate \ {p}
        /\ floor' = (IF died /\ p \in fate /\ ~seals THEN F ELSE floor)
        /\ base' = base + 1 - (floor' - floor)
        /\ UNCHANGED <<mem, cur, marks, credits, anchors, folded>>
    <2>1. Typed /\ WithinHigh /\ Rebuild(1, 0, -1, 0, 0, 0)
      BY ZenonT(60) DEF FrontierInv, DrainTerminal
    <2>2. 0 \in Nat /\ 1 \in Nat /\ 0 \in Int /\ -1 \in Int BY SMTT(60)
    <2>3. Advance(1, 0, -1, 0, 0, 0) BY ZenonT(60), <2>1, <2>2, RebuildStep
    <2> QED BY ZenonT(60), <2>1, <2>3 DEF Typed, DrainTerminal
  <1>00. lane[1] = Head(lane) /\ Head(lane) \in Candidates BY SMTT(60), <1>0
  <1> HIDE DEF seals, F
  <1>1. NumbersReserved' /\ high' \in Nat /\ order' \in Nat /\ live' \in Nat /\ terms' \in Nat
        /\ mkrs' \in Nat /\ ordTerms' \in Nat
    BY SMTT(60), <1>0 DEF Advance, MoveLedgers, Fits, NumbersReserved, Typed, SeqFits, OrdFits
  <1>2. /\ high' = high + 1 /\ live' = live /\ terms' = terms - 1 /\ mkrs' = mkrs
        /\ ordTerms' = ordTerms
    BY SMTT(60), <1>0 DEF Advance, MoveLedgers, Typed
  <1>3. Len(lane) \in Nat /\ Len(lane) >= 1 /\ p \in P
    <2>1. Len(lane) \in Nat /\ Len(lane) >= 1 BY SMTT(60), <1>0
    <2> QED BY ZenonT(60), <2>1, <1>00 DEF Candidates
  <1>4. Len(lane) = 1 /\ mkrs = 0
    BY SMTT(60), <1>0, <1>00, <1>3 DEF LaneShape, FrontierInv
  <1>5. lane' = << >> /\ Len(lane') = 0 /\ lane' \in Seq(Candidates)
    BY SMTT(60), <1>0, <1>4
  <1>6. slot[p] = "pending" /\ \A q \in P \ {p} : slot[q] /= "pending"
    BY SMTT(60), <1>0, <1>00, <1>3, <1>4 DEF LanePending, PendingInLane, FrontierInv
  <1>7. /\ floor' \in Nat /\ floor <= floor' /\ floor' <= high + 1
        /\ \A m \in marks : floor' <= m[1]
    <2>1. /\ high \in Nat /\ obs \in Nat /\ floor \in Nat /\ obs <= high /\ floor <= high + 1
          /\ \A m \in marks : floor <= m[1]
      BY ZenonT(60), <1>0 DEF Typed, WithinHigh
    <2>2. F \in Nat /\ floor <= F /\ F <= MaxOf(floor, obs + 1) /\ \A m \in marks : F <= m[1]
      BY ZenonT(60), <1>0, <1>3, <2>1, FateFloorBounds DEF F
    <2>3. MaxOf(floor, obs + 1) <= high + 1 /\ MaxOf(floor, obs + 1) \in Nat
      BY SMTT(60), <2>1 DEF MaxOf
    <2>4. CASE floor' = F BY SMTT(60), <2>1, <2>2, <2>3, <2>4
    <2>5. CASE floor' = floor BY SMTT(60), <2>1, <2>5
    <2> QED BY ZenonT(60), <1>0, <2>4, <2>5
  <1>8. Typed'
    <2>1. slot' \in [P -> SlotStates] BY ZenonT(60), <1>0, <1>3 DEF Typed, SlotStates
    <2>2. obs' \in Nat /\ base' \in Int BY SMTT(60), <1>0, <1>7 DEF Typed, MaxOf
    <2>3. mem' = mem /\ cur' = cur /\ marks' = marks /\ credits' = credits
          /\ anchors' = anchors /\ folded' = folded /\ fate' \subseteq fate
      BY ZenonT(60), <1>0
    <2>4. Typed BY ZenonT(60), <1>0
    <2> QED BY ZenonT(60), <1>1, <1>5, <1>7, <2>1, <2>2, <2>3, <2>4 DEF Typed
  <1>9. WithinHigh'
    <2>1. obs' <= high + 1 /\ mem' = mem /\ cur' = cur /\ marks' = marks
      BY SMTT(60), <1>0 DEF Typed, WithinHigh, MaxOf
    <2>2. high \in Nat /\ mem \in [P -> Nat] /\ cur \in [P -> Nat]
          /\ \A q \in P : cur[q] <= high /\ mem[q] <= high
      BY ZenonT(60), <1>0 DEF Typed, WithinHigh
    <2>3. \A m \in marks : m[1] \in Nat /\ m[1] <= high BY ZenonT(60), <1>0 DEF Typed, WithinHigh
    <2> QED BY SMTT(60), <1>2, <1>7, <2>1, <2>2, <2>3 DEF WithinHigh
  <1>10. LaneShape' /\ PendingInLane' /\ LanePending' /\ OneMarker' /\ CreditsExact'
    <2>1. \A q \in P : slot'[q] /= "pending" BY ZenonT(60), <1>0, <1>3, <1>6 DEF Typed
    <2>2. marks' = marks /\ credits' = credits BY ZenonT(60), <1>0
    <2> QED BY SMTT(60), <1>2, <1>4, <1>5, <2>1, <2>2
            DEF LaneShape, PendingInLane, LanePending, OneMarker, CreditsExact, FrontierInv
  <1>11. BaselineExact' /\ ReplayCovers'
    <2>1. /\ base = high + 1 - floor + mkrs + Slots - credits /\ folded >= anchors
          /\ base' = base + 1 - (floor' - floor) /\ credits' = credits
          /\ folded' = folded /\ anchors' = anchors
      BY ZenonT(60), <1>0 DEF BaselineExact, Retained, FrontierInv, ReplayCovers
    <2>2. high \in Nat /\ floor \in Nat /\ mkrs \in Nat /\ credits \in Nat BY ZenonT(60), <1>0 DEF Typed
    <2> QED BY SMTT(60), <1>2, <1>7, <2>1, <2>2, FrontierConstants
            DEF BaselineExact, Retained, ReplayCovers
  <1>12. Census'
    <2>1. slot'[p] \in {"erased", "detached"} /\ \A q \in P \ {p} : slot'[q] = slot[q]
      BY ZenonT(60), <1>0, <1>3 DEF Typed
    <2>2. terms \in Nat /\ ordTerms \in Nat /\ live \in Nat BY ZenonT(60), <1>0 DEF Typed
    <2>3. /\ slot'[p] \in ActiveStates /\ slot'[p] /= "bound" /\ slot'[p] /= "pending"
          /\ slot[p] \in ActiveStates /\ slot[p] /= "bound" /\ slot[p] = "pending"
      BY ZenonT(60), <1>6, <2>1 DEF ActiveStates
    <2>4. /\ live' = live + 1 - 1 /\ ordTerms' = ordTerms + 0 - 0
          /\ terms' = ordTerms' + (terms - ordTerms + 0 - 1)
      BY SMTT(60), <1>2, <2>2
    <2>5. /\ live' = live + (IF slot'[p] \in ActiveStates THEN 1 ELSE 0)
                         - (IF slot[p] \in ActiveStates THEN 1 ELSE 0)
          /\ ordTerms' = ordTerms + (IF slot'[p] = "bound" THEN 1 ELSE 0)
                                 - (IF slot[p] = "bound" THEN 1 ELSE 0)
          /\ terms' = ordTerms' + (terms - ordTerms + (IF slot'[p] = "pending" THEN 1 ELSE 0)
                                 - (IF slot[p] = "pending" THEN 1 ELSE 0))
      BY ZenonT(60), <2>3, <2>4
    <2> QED BY ZenonT(60), <1>3, <2>1, <2>5, CensusStep
  <1> QED BY ZenonT(60), <1>0, <1>1, <1>7, <1>8, <1>9, <1>10, <1>11, <1>12 DEF FrontierInv

LEMMA RecordStep ==
    ASSUME FrontierInv, NEW p \in P, RecordAdmission(p)
    PROVE  FrontierInv' /\ \A m \in Unaccepted : m \in marks' /\ floor' <= m[1]
  <1> DEFINE F == Least(CapacityFloors, 0)
  <1> DEFINE told == Overtaken(F)
  <1> DEFINE n == Cardinality(told)
  <1> DEFINE kept == Cardinality(Surviving(F))
  <1>0. /\ Typed /\ WithinHigh /\ lane = << >> /\ CapacityFloors /= {}
        /\ \A m \in Unaccepted : F <= m[1]
        /\ Advance(1, 0, 0, n, 0, 1)
        /\ floor' = F /\ marks' = Surviving(F)
        /\ credits' = kept + n
        /\ anchors' = Cardinality({m \in Unaccepted : m[1] >= F}) + n
        /\ folded' = anchors'
        /\ base' = RecordBase(F)
        /\ UNCHANGED <<obs, slot, mem, cur, fate>>
    BY ZenonT(60) DEF FrontierInv, RecordAdmission
  <1>1. PICK e \in [1 .. n -> told] :
            /\ Ascending(e)
            /\ lane' = [i \in 1 .. n |-> [kind |-> "marker", p |-> e[i]]]
    BY ZenonT(60) DEF RecordAdmission
  <1>2. F \in Nat /\ floor <= F /\ F <= high + 2
    <2> DEFINE S == {cur[q] : q \in Active}
    <2>1. S \in SUBSET Nat /\ floor \in Nat /\ obs \in Nat /\ high + 1 \in Nat /\ high \in Nat
      <3>1. floor \in Nat /\ obs \in Nat /\ high \in Nat /\ cur \in [P -> Nat]
        BY ZenonT(60), <1>0 DEF Typed
      <3>2. Active \subseteq P BY ZenonT(60) DEF Active
      <3>3. S \in SUBSET Nat BY ZenonT(60), <3>1, <3>2
      <3> QED BY SMTT(60), <3>1, <3>3
    <2> DEFINE pref == Preferred(S, high + 1, obs)
    <2>2. pref \in Nat /\ floor <= pref
      <3> HIDE DEF S
      <3> QED BY ZenonT(60), <2>1, PreferredBounds
    <2>3. CapacityFloors \subseteq {f \in pref .. high + 2 : TRUE}
      BY ZenonT(60) DEF CapacityFloors
    <2> HIDE DEF pref, S
    <2>4. CapacityFloors \in SUBSET Nat BY SMTT(60), <2>1, <2>2, <2>3
    <2>5. F \in CapacityFloors BY ZenonT(60), <1>0, <2>4, LeastIsMin
    <2> HIDE DEF F
    <2>6. F \in pref .. high + 2 BY ZenonT(60), <2>3, <2>5
    <2> QED BY SMTT(60), <2>1, <2>2, <2>6
  <1> HIDE DEF F
  <1>3. /\ Surviving(F) \subseteq marks /\ IsFiniteSet(Surviving(F)) /\ kept \in Nat
        /\ \A m \in Surviving(F) : m[1] >= F
    <2>1. Surviving(F) \subseteq marks /\ \A m \in Surviving(F) : m[1] >= F BY ZenonT(60) DEF Surviving
    <2> QED BY ZenonT(60), <1>0, <2>1, FS_Subset, FS_CardinalityType DEF Typed
  <1>4. told \subseteq P /\ n \in Nat
    <2>1. told \subseteq P BY ZenonT(60) DEF Overtaken, Active
    <2> QED BY ZenonT(60), <2>1, SlotsFinite, FS_Subset, FS_CardinalityType
  <1>5. /\ \A q \in told : \A m \in Surviving(F) : m[2] /= q
    BY ZenonT(60) DEF Overtaken
  <1>6. mkrs = 0 /\ \A q \in P : slot[q] /= "pending" BY ZenonT(60), <1>0, EmptyLane
  <1> HIDE DEF told, n, kept
  <1>7. NumbersReserved' /\ high' \in Nat /\ order' \in Nat /\ live' \in Nat /\ terms' \in Nat
        /\ mkrs' \in Nat /\ ordTerms' \in Nat
    BY SMTT(60), <1>0, <1>4 DEF Advance, MoveLedgers, Fits, NumbersReserved, Typed, SeqFits, OrdFits
  <1>8. /\ high' = high + 1 /\ live' = live /\ terms' = terms /\ mkrs' = n
        /\ ordTerms' = ordTerms
    BY SMTT(60), <1>0, <1>4, <1>6 DEF Advance, MoveLedgers, Typed
  <1>9. /\ lane' \in Seq(Candidates) /\ Len(lane') = n
        /\ \A i \in 1 .. n : lane'[i].kind = "marker" /\ lane'[i].p = e[i] /\ e[i] \in told
    <2>1. lane' \in [1 .. n -> Candidates] BY ZenonT(60), <1>1, <1>4 DEF Candidates
    <2>2. lane' \in Seq(Candidates) /\ Len(lane') = n BY SMTT(60), <2>1, <1>4
    <2> QED BY ZenonT(60), <1>1, <2>2
  <1>10. \A i, j \in 1 .. n : e[i] = e[j] => i = j
    <2>0. \A q \in P : q \in Int BY SMTT(60) DEF P
    <2>1. \A i \in 1 .. n : e[i] \in Int BY ZenonT(60), <1>1, <1>4, <2>0
    <2>2. DOMAIN e = 1 .. n BY ZenonT(60), <1>1
    <2>3. \A i, j \in 1 .. n : i < j => e[i] < e[j] BY ZenonT(60), <1>1, <2>2 DEF Ascending
    <2> QED BY SMTT(60), <2>1, <2>3, <1>4
  <1>11. anchors' \in Nat
    <2>1. {m \in Unaccepted : m[1] >= F} \subseteq marks BY ZenonT(60) DEF Unaccepted
    <2>2. Cardinality({m \in Unaccepted : m[1] >= F}) \in Nat
      BY ZenonT(60), <1>0, <2>1, FS_Subset, FS_CardinalityType DEF Typed
    <2> QED BY SMTT(60), <1>0, <1>4, <2>2
  <1>12. base' = (high + 2 - F) + Slots - kept BY ZenonT(60), <1>0 DEF RecordBase, kept
  <1>13. Typed'
    <2>1. marks' \in SUBSET (Nat \X P) /\ IsFiniteSet(marks') BY ZenonT(60), <1>0, <1>3 DEF Typed
    <2>2. base' \in Int BY SMTT(60), <1>0, <1>2, <1>3, <1>12, FrontierConstants DEF Typed
    <2>3. credits' \in Nat /\ folded' \in Nat BY SMTT(60), <1>0, <1>3, <1>4, <1>11
    <2> QED BY ZenonT(60), <1>0, <1>2, <1>7, <1>9, <1>11, <2>1, <2>2, <2>3 DEF Typed
  <1>14. WithinHigh'
    <2>1. \A m \in marks : m[1] \in Nat /\ m[1] <= high BY ZenonT(60), <1>0 DEF Typed, WithinHigh
    <2> QED BY SMTT(60), <1>0, <1>2, <1>3, <1>8, <2>1 DEF WithinHigh, Typed
  <1>15. LaneShape' /\ LanePending' /\ PendingInLane'
    BY ZenonT(60), <1>0, <1>6, <1>8, <1>9 DEF LaneShape, LanePending, PendingInLane
  <1>16. OneMarker'
    <2>1. \A m, k \in marks' : m[2] = k[2] => m = k
      BY ZenonT(60), <1>0, <1>3 DEF OneMarker, FrontierInv
    <2>2. \A i, j \in 1 .. n : lane'[i].p = lane'[j].p => i = j BY SMTT(60), <1>9, <1>10
    <2>3. \A i \in 1 .. n : \A m \in marks' : m[2] /= lane'[i].p BY ZenonT(60), <1>0, <1>5, <1>9
    <2> QED BY ZenonT(60), <1>9, <2>1, <2>2, <2>3 DEF OneMarker
  <1>17. CreditsExact' BY ZenonT(60), <1>0, <1>8 DEF CreditsExact, kept
  <1>18. BaselineExact' /\ ReplayCovers'
    <2>1. base' = (high' + 1 - floor') + mkrs' + Slots - credits'
      BY SMTT(60), <1>0, <1>2, <1>3, <1>4, <1>8, <1>12, FrontierConstants DEF Typed
    <2> QED BY SMTT(60), <1>0, <1>11, <2>1 DEF BaselineExact, Retained, ReplayCovers
  <1>19. Census' BY ZenonT(60), <1>0, <1>8 DEF FrontierInv, Census, Count
  <1>20. \A m \in Unaccepted : m \in marks' /\ floor' <= m[1]
    <2>1. \A m \in Unaccepted : m \in marks /\ m[1] \in Nat BY ZenonT(60), <1>0 DEF Unaccepted, Typed
    <2> QED BY ZenonT(60), <1>0, <1>2, <2>1 DEF Surviving
  <1> QED BY ZenonT(60), <1>7, <1>13, <1>14, <1>15, <1>16, <1>17, <1>18, <1>19, <1>20 DEF FrontierInv

LEMMA AckStep ==
    ASSUME FrontierInv, NEW p \in P, NEW s \in 1 .. high, ParticipantAck(p, s)
    PROVE  FrontierInv'
  <1> DEFINE crossed == Cardinality({m \in MarksOf(p) : cur[p] < m[1] /\ m[1] <= s})
  <1>0. /\ Typed /\ WithinHigh /\ crossed <= anchors
        /\ anchors' = anchors - crossed /\ folded' = folded - crossed
        /\ mem' = [mem EXCEPT ![p] = s] /\ cur' = [cur EXCEPT ![p] = s] /\ obs' = MaxOf(obs, s)
        /\ UNCHANGED <<ledger, floor, slot, fate, lane, marks, credits, base>>
    BY ZenonT(60) DEF FrontierInv, ParticipantAck
  <1>1. crossed \in Nat
    <2>1. {m \in MarksOf(p) : cur[p] < m[1] /\ m[1] <= s} \subseteq marks BY ZenonT(60) DEF MarksOf
    <2> QED BY ZenonT(60), <1>0, <2>1, FS_Subset, FS_CardinalityType DEF Typed
  <1> HIDE DEF crossed
  <1>2. s \in Nat /\ s <= high BY SMTT(60), <1>0 DEF Typed
  <1>3. ReplayCovers' /\ anchors' \in Nat /\ folded' \in Nat
    BY SMTT(60), <1>0, <1>1 DEF ReplayCovers, FrontierInv, Typed
  <1>4. Typed' BY ZenonT(60), <1>0, <1>2, <1>3 DEF Typed, ledger, MaxOf
  <1>5. WithinHigh' BY ZenonT(60), <1>0, <1>2 DEF Typed, WithinHigh, ledger, MaxOf
  <1> QED BY ZenonT(60), <1>0, <1>3, <1>4, <1>5, FrameStep DEF FrontierInv

LEMMA MarkerAckStep ==
    ASSUME FrontierInv, NEW p \in P, MarkerAck(p) PROVE FrontierInv'
  <1>0. /\ Typed /\ WithinHigh /\ anchors > 0
        /\ anchors' = anchors - 1 /\ folded' = folded - 1
        /\ UNCHANGED <<ledger, floor, slot, fate, lane, marks, credits, base>>
    BY ZenonT(60) DEF FrontierInv, MarkerAck
  <1>1. PICK m \in marks : /\ mem' = [mem EXCEPT ![p] = m[1]]
                           /\ cur' = [cur EXCEPT ![p] = m[1]]
                           /\ obs' = MaxOf(obs, m[1])
    BY ZenonT(60) DEF MarkerAck, MarksOf
  <1>2. m[1] \in Nat /\ m[1] <= high BY ZenonT(60), <1>0 DEF Typed, WithinHigh
  <1>3. ReplayCovers' /\ anchors' \in Nat /\ folded' \in Nat
    BY SMTT(60), <1>0 DEF ReplayCovers, FrontierInv, Typed
  <1>4. Typed' BY ZenonT(60), <1>0, <1>1, <1>2, <1>3 DEF Typed, ledger, MaxOf
  <1>5. WithinHigh' BY ZenonT(60), <1>0, <1>1, <1>2 DEF Typed, WithinHigh, ledger, MaxOf
  <1> QED BY ZenonT(60), <1>0, <1>3, <1>4, <1>5, FrameStep DEF FrontierInv

LEMMA LeaveStep ==
    ASSUME FrontierInv, NEW p \in P, Leave(p)
    PROVE  /\ FrontierInv'
           /\ \A m \in marks : (m \in marks' /\ floor' <= m[1]) \/ slot'[m[2]] = "retired"
  <1> DEFINE own == IF MarksOf(p) = {} THEN 0 ELSE 1
  <1> DEFINE b == IF slot[p] = "bound" THEN -1 ELSE 0
  <1>0. /\ Typed /\ WithinHigh /\ lane = << >> /\ lane' = lane
        /\ slot[p] \in {"bound", "detached"}
        /\ own <= anchors /\ own <= credits
        /\ base' = base + 1 + own /\ credits' = credits - own /\ anchors' = anchors - own
        /\ folded' = folded - own
        /\ Advance(1, -1, b, 0, b, 1)
        /\ marks' = marks \ MarksOf(p)
        /\ slot' = [slot EXCEPT ![p] = "retired"]
        /\ fate' = fate \ {p} /\ obs' = MaxOf(obs, high + 1)
        /\ UNCHANGED <<floor, mem, cur>>
    BY ZenonT(60) DEF FrontierInv, Leave
  <1>1. own \in Nat /\ b \in Int BY SMTT(60)
  <1>2. IsFiniteSet(marks') /\ Cardinality(marks') = Cardinality(marks) - own
        /\ Cardinality(marks) \in Nat
    <2>1. Cardinality(marks) \in Nat /\ IsFiniteSet(marks)
      BY ZenonT(60), <1>0, FS_CardinalityType DEF Typed
    <2>2. CASE MarksOf(p) = {} BY SMTT(60), <1>0, <2>1, <2>2
    <2>3. CASE MarksOf(p) /= {}
      <3>1. PICK m \in MarksOf(p) : TRUE BY ZenonT(60), <2>3
      <3>2. MarksOf(p) = {m} /\ m \in marks
        BY ZenonT(60), <3>1 DEF MarksOf, OneMarker, FrontierInv
      <3>3. IsFiniteSet(marks \ {m}) /\ Cardinality(marks \ {m}) = Cardinality(marks) - 1
        BY ZenonT(60), <2>1, <3>2, FS_RemoveElement
      <3> QED BY ZenonT(60), <1>0, <2>1, <2>3, <3>2, <3>3
    <2> QED BY ZenonT(60), <2>2, <2>3
  <1> HIDE DEF own
  <1>3. NumbersReserved' /\ high' \in Nat /\ order' \in Nat /\ live' \in Nat /\ terms' \in Nat
        /\ mkrs' \in Nat /\ ordTerms' \in Nat
    BY SMTT(60), <1>0 DEF Advance, MoveLedgers, Fits, NumbersReserved, Typed, SeqFits, OrdFits
  <1>4. /\ high' = high + 1 /\ live' = live - 1 /\ terms' = terms + b /\ mkrs' = mkrs
        /\ ordTerms' = ordTerms + b
    BY SMTT(60), <1>0 DEF Advance, MoveLedgers, Typed
  <1>5. Typed'
    <2>1. /\ slot' \in [P -> SlotStates] /\ mem' \in [P -> Nat] /\ cur' \in [P -> Nat]
          /\ fate' \in SUBSET P /\ lane' \in Seq(Candidates) /\ floor' \in Nat
      BY ZenonT(60), <1>0 DEF Typed, SlotStates
    <2>2. marks' \in SUBSET (Nat \X P) BY ZenonT(60), <1>0 DEF Typed
    <2>3. obs' \in Nat BY SMTT(60), <1>0 DEF Typed, MaxOf
    <2>4. folded >= anchors BY ZenonT(60) DEF FrontierInv, ReplayCovers
    <2>5. credits \in Nat /\ anchors \in Nat /\ folded \in Nat /\ base \in Int
      BY ZenonT(60), <1>0 DEF Typed
    <2>6. own <= anchors /\ own <= credits /\ base' = base + 1 + own /\ credits' = credits - own
          /\ anchors' = anchors - own /\ folded' = folded - own
      BY ZenonT(60), <1>0
    <2>7. credits' \in Nat /\ anchors' \in Nat /\ folded' \in Nat /\ base' \in Int
      BY SMTT(60), <1>1, <2>4, <2>5, <2>6
    <2> QED BY ZenonT(60), <1>2, <1>3, <2>1, <2>2, <2>3, <2>7 DEF Typed
  <1>6. WithinHigh'
    <2>1. floor' = floor /\ mem' = mem /\ cur' = cur /\ high' = high + 1 /\ marks' \subseteq marks
      BY ZenonT(60), <1>0, <1>4
    <2>2. /\ high \in Nat /\ floor \in Nat /\ obs \in Nat /\ cur \in [P -> Nat] /\ mem \in [P -> Nat]
          /\ \A m \in marks : m[1] \in Nat
      BY ZenonT(60), <1>0 DEF Typed
    <2>3. obs' <= high' BY SMTT(60), <1>0, <2>1, <2>2 DEF MaxOf, WithinHigh
    <2>4. \A q \in P : cur'[q] <= high' /\ mem'[q] <= high' BY SMTT(60), <1>0, <2>1, <2>2 DEF WithinHigh
    <2>5. \A m \in marks' : floor' <= m[1] /\ m[1] <= high' BY SMTT(60), <1>0, <2>1, <2>2 DEF WithinHigh
    <2>6. floor' <= high' + 1 BY SMTT(60), <1>0, <2>1, <2>2 DEF WithinHigh
    <2> QED BY ZenonT(60), <2>3, <2>4, <2>5, <2>6 DEF WithinHigh
  <1>7. \A q \in P : slot'[q] /= "pending" BY ZenonT(60), <1>0, EmptyLane DEF Typed
  <1>8. LaneShape' /\ PendingInLane' /\ LanePending' /\ OneMarker'
    <2>1. Len(lane') = 0 /\ lane' = lane /\ mkrs' = mkrs BY ZenonT(60), <1>0, <1>4
    <2>2. marks' \subseteq marks BY ZenonT(60), <1>0
    <2>3. LaneShape' BY ZenonT(60), <2>1 DEF LaneShape, FrontierInv
    <2>4. PendingInLane' BY ZenonT(60), <1>7 DEF PendingInLane
    <2>5. LanePending' BY SMTT(60), <2>1 DEF LanePending
    <2>6. OneMarker'
      <3>1. \A m, n \in marks : m[2] = n[2] => m = n BY ZenonT(60) DEF OneMarker, FrontierInv
      <3>2. \A m, n \in marks' : m[2] = n[2] => m = n BY ZenonT(60), <2>2, <3>1
      <3>3. 1 .. Len(lane') = {} BY SMTT(60), <2>1
      <3> QED BY ZenonT(60), <3>2, <3>3 DEF OneMarker
    <2> QED BY ZenonT(60), <2>3, <2>4, <2>5, <2>6
  <1>9. CreditsExact'
    <2>1. credits = Cardinality(marks) + mkrs BY ZenonT(60) DEF CreditsExact, FrontierInv
    <2>2. mkrs \in Nat /\ mkrs' = mkrs BY ZenonT(60), <1>0, <1>4 DEF Typed
    <2>3. credits' = credits - own BY ZenonT(60), <1>0
    <2>4. credits' = Cardinality(marks') + mkrs' BY SMTT(60), <1>1, <1>2, <2>1, <2>2, <2>3
    <2> QED BY ZenonT(60), <2>4 DEF CreditsExact
  <1>10. BaselineExact' /\ ReplayCovers'
    <2>1. /\ base' = base + 1 + own /\ credits' = credits - own /\ anchors' = anchors - own
          /\ folded' = folded - own /\ floor' = floor /\ high' = high + 1 /\ mkrs' = mkrs
      BY ZenonT(60), <1>0, <1>4
    <2>2. /\ high \in Nat /\ floor \in Nat /\ mkrs \in Nat /\ credits \in Nat /\ base \in Int
          /\ anchors \in Nat /\ folded \in Nat /\ Slots \in Nat
      BY ZenonT(60), <1>0, FrontierConstants DEF Typed
    <2>3. base = high + 1 - floor + mkrs + Slots - credits /\ folded >= anchors
      BY ZenonT(60) DEF BaselineExact, ReplayCovers, Retained, FrontierInv
    <2>4. base' = high' + 1 - floor' + mkrs' + Slots - credits'
      BY SMTT(60), <1>1, <2>1, <2>2, <2>3
    <2>5. folded' >= anchors' BY SMTT(60), <1>1, <2>1, <2>2, <2>3
    <2> QED BY ZenonT(60), <2>4, <2>5 DEF BaselineExact, ReplayCovers, Retained
  <1>11. Census'
    <2>1. slot'[p] = "retired" /\ \A q \in P \ {p} : slot'[q] = slot[q] BY ZenonT(60), <1>0 DEF Typed
    <2>2. terms \in Nat /\ ordTerms \in Nat /\ live \in Nat BY ZenonT(60), <1>0 DEF Typed
    <2>3. slot[p] \in {"bound", "detached"} BY ZenonT(60), <1>0
    <2> QED BY SMTT(60), <1>4, <2>1, <2>2, <2>3, CensusStep DEF ActiveStates
  <1>12. \A m \in marks : (m \in marks' /\ floor' <= m[1]) \/ slot'[m[2]] = "retired"
    BY ZenonT(60), <1>0 DEF MarksOf, WithinHigh, Typed
  <1> QED BY ZenonT(60), <1>3, <1>5, <1>6, <1>8, <1>9, <1>10, <1>11, <1>12 DEF FrontierInv

(* A load: the anchors are reconciled, nothing else moves.                 *)
LEMMA LoadStep ==
    ASSUME FrontierInv, anchors' \in {anchors, Reconciled},
           UNCHANGED <<ledger, floor, obs, slot, mem, cur, fate, lane, marks, credits, folded, base>>
    PROVE  FrontierInv'
  <1>1. Typed BY ZenonT(60) DEF FrontierInv
  <1>2. Reconciled \in Nat /\ Reconciled <= folded
    <2>1. Unaccepted \subseteq marks BY ZenonT(60) DEF Unaccepted
    <2>2. Cardinality(Unaccepted) \in Nat
      BY ZenonT(60), <1>1, <2>1, FS_Subset, FS_CardinalityType DEF Typed
    <2> QED BY SMTT(60), <1>1, <2>2 DEF Reconciled, MinOf, Typed
  <1>3. ReplayCovers' /\ anchors' \in Nat
    BY ZenonT(60), <1>1, <1>2 DEF ReplayCovers, FrontierInv, Typed
  <1>4. Typed' BY ZenonT(60), <1>1, <1>3 DEF Typed, ledger
  <1>5. WithinHigh' BY ZenonT(60) DEF FrontierInv, WithinHigh, ledger
  <1> QED BY ZenonT(60), <1>3, <1>4, <1>5, FrameStep DEF FrontierInv

(***************************************************************************)
(* Every step keeps the invariant, and drops no unaccepted marker but a    *)
(* leaver's.                                                               *)
(***************************************************************************)
Kept == \A m \in Unaccepted : \/ m \in marks' /\ floor' <= m[1]
                              \/ slot'[m[2]] = "retired"

LEMMA FateStep ==
    ASSUME FrontierInv, NEW p \in P, NEW cause \in {"detached", "died"}, Fate(p, cause)
    PROVE  FrontierInv' /\ Kept
  <1>1. CASE FateCommit(p, cause)
    BY ZenonT(60), <1>1, FateCommitStep DEF Kept, Unaccepted
  <1>2. CASE FatePend(p, cause)
    <2>1. FrontierInv' BY ZenonT(60), <1>2, FatePendStep
    <2> QED BY ZenonT(60), <1>2, <2>1 DEF FatePend, Kept, Unaccepted, FrontierInv, WithinHigh
  <1> QED BY ZenonT(60), <1>1, <1>2 DEF Fate

LEMMA StepInv ==
    ASSUME FrontierInv, [Next]_vars PROVE FrontierInv' /\ Kept
  <1> USE DEF Kept
  <1>0. \A m \in Unaccepted : m \in marks /\ floor <= m[1]
    BY ZenonT(60) DEF Unaccepted, FrontierInv, WithinHigh
  <1>1. ASSUME NEW p \in P, Enroll(p) PROVE FrontierInv' /\ Kept
    BY ZenonT(60), <1>0, <1>1, EnrollStep DEF Enroll
  <1>2. ASSUME NEW p \in P, AttachDetached(p) PROVE FrontierInv' /\ Kept
    BY ZenonT(60), <1>0, <1>2, AttachDetachedStep DEF AttachDetached
  <1>3. ASSUME NEW p \in P, AttachSuperseding(p) PROVE FrontierInv' /\ Kept
    BY ZenonT(60), <1>0, <1>3, AttachSupersedingStep DEF AttachSuperseding
  <1>4. ASSUME NEW p \in P, Detach(p) PROVE FrontierInv' /\ Kept
    BY ZenonT(60), <1>0, <1>4, DetachStep DEF Detach
  <1>5. ASSUME NEW p \in P, RecordAdmission(p) PROVE FrontierInv' /\ Kept
    BY ZenonT(60), <1>5, RecordStep
  <1>6. ASSUME NEW p \in P, MarkerAck(p) PROVE FrontierInv' /\ Kept
    BY ZenonT(60), <1>0, <1>6, MarkerAckStep DEF MarkerAck
  <1>7. ASSUME NEW p \in P, Leave(p) PROVE FrontierInv' /\ Kept
    BY ZenonT(60), <1>0, <1>7, LeaveStep
  <1>8. ASSUME NEW p \in P, NEW s \in 1 .. high, ParticipantAck(p, s) PROVE FrontierInv' /\ Kept
    BY ZenonT(60), <1>0, <1>8, AckStep DEF ParticipantAck
  <1>9. CASE ConnectionFate
    BY ZenonT(60), <1>9, FateStep DEF ConnectionFate
  <1>10. CASE DrainMarker
    <2>1. FrontierInv' BY ZenonT(60), <1>10, DrainMarkerStep
    <2>2. floor' = floor /\ marks \subseteq marks' BY ZenonT(60), <1>10 DEF DrainMarker
    <2> QED BY ZenonT(60), <1>0, <2>1, <2>2
  <1>11. CASE DrainTerminal
    BY ZenonT(60), <1>0, <1>11, DrainTerminalStep
  <1>12. CASE Reload \/ Crash \/ BootRefused
    BY ZenonT(60), <1>0, <1>12, LoadStep DEF Reload, Crash, BootRefused
  <1>13. CASE BootDrained \/ BootDone
    BY ZenonT(60), <1>0, <1>13, LoadStep DEF BootDrained, BootDone, acct
  <1>14. CASE BootFate
    <2>1. Bound \in SUBSET Nat /\ Bound \subseteq P /\ Bound /= {}
      BY SMTT(60), <1>14 DEF Bound, P, BootFate
    <2>2. Least(Bound, 0) \in P BY ZenonT(60), <2>1, LeastIsMin
    <2>3. Fate(Least(Bound, 0), "died") BY ZenonT(60), <1>14 DEF BootFate
    <2> QED BY ZenonT(60), <2>2, <2>3, FateStep
  <1>15. CASE UNCHANGED vars
    <2>1. FrontierInv' BY ZenonT(60), <1>15, LoadStep DEF vars, acct
    <2> QED BY ZenonT(60), <1>0, <1>15, <2>1 DEF vars
  <1> QED BY ZenonT(60), <1>1, <1>2, <1>3, <1>4, <1>5, <1>6, <1>7, <1>8, <1>9, <1>10, <1>11, <1>12, <1>13,
             <1>14, <1>15 DEF Next, Boot

(* The inductive invariant of the frontier.                                *)
THEOREM FrontierInvariant == Spec => []FrontierInv
  BY InitInv, StepInv, PTL DEF Spec

(* A slot that is counted makes the count positive.                        *)
LEMMA Counted ==
    ASSUME NEW K, NEW p \in P, slot[p] \in K PROVE Count(slot, K) \in Nat /\ Count(slot, K) > 0
  <1> DEFINE A == {q \in P : slot[q] \in K}
  <1>1. IsFiniteSet(A) BY ZenonT(60), SlotsFinite, FS_Subset
  <1>2. p \in A BY ZenonT(60)
  <1> HIDE DEF A
  <1>3. Cardinality(A) \in Nat /\ Cardinality(A) /= 0
    BY ZenonT(60), <1>1, <1>2, FS_CardinalityType, FS_EmptySet
  <1>4. Count(slot, K) = Cardinality(A) BY ZenonT(60) DEF Count, A
  <1> QED BY SMTT(60), <1>3, <1>4

(* The census of a participant that still owes an exit.                    *)
LEMMA OwesExit ==
    ASSUME FrontierInv, NEW p \in P
    PROVE  /\ slot[p] \in ActiveStates => live > 0
           /\ slot[p] = "bound" => ordTerms > 0 /\ terms > 0
           /\ slot[p] = "pending" => terms > 0
  <1>1. /\ live = Count(slot, ActiveStates) /\ ordTerms = Count(slot, {"bound"})
        /\ terms = ordTerms + Count(slot, {"pending"}) /\ ordTerms \in Nat /\ terms \in Nat
    BY ZenonT(60) DEF FrontierInv, Census, Typed
  <1>2. Count(slot, {"pending"}) \in Nat
    <2>1. IsFiniteSet({q \in P : slot[q] \in {"pending"}}) BY ZenonT(60), SlotsFinite, FS_Subset
    <2> QED BY ZenonT(60), <2>1, FS_CardinalityType DEF Count
  <1>3. slot[p] \in ActiveStates => live > 0 BY ZenonT(60), <1>1, Counted
  <1>4. slot[p] = "bound" => Count(slot, {"bound"}) > 0
    <2>1. slot[p] = "bound" => slot[p] \in {"bound"} BY ZenonT(60)
    <2> QED BY ZenonT(60), <2>1, Counted
  <1>5. slot[p] = "pending" => Count(slot, {"pending"}) > 0
    <2>1. slot[p] = "pending" => slot[p] \in {"pending"} BY ZenonT(60)
    <2> QED BY ZenonT(60), <2>1, Counted
  <1> QED BY SMTT(60), <1>1, <1>2, <1>3, <1>4, <1>5

(* What the reserve of both ledgers is for.                                *)
LEMMA ReservedFunds == FrontierInv => ExitsFunded
  <1> SUFFICES ASSUME FrontierInv, NEW p \in P
               PROVE
        /\ slot[p] = "bound" =>
              /\ Fits(high + 1, live - 1, terms - 1, mkrs, order + 1, ordTerms - 1)
              /\ Rebuilds(high + 1, live, terms - 1, mkrs, order + 1, ordTerms - 1)
                    <=> ~OrderFull
              /\ Rebuilds(high, live, terms, mkrs, order + 1, ordTerms - 1)
                    <=> ~OrderFull /\ ~SequenceFull
        /\ slot[p] = "detached" => Fits(high + 1, live - 1, terms, mkrs, order + 1, ordTerms)
        /\ slot[p] = "pending" => Rebuilds(high + 1, live, terms - 1, mkrs, order, ordTerms)
        /\ mkrs > 0 => Fits(high + 1, live, terms, mkrs - 1, order, ordTerms)
    BY ZenonT(60) DEF ExitsFunded
  <1>1. /\ high \in Nat /\ order \in Nat /\ live \in Nat /\ terms \in Nat /\ mkrs \in Nat
        /\ ordTerms \in Nat /\ MaxSeq \in Nat /\ MaxOrder \in Nat
    BY ZenonT(60), FrontierConstants DEF FrontierInv, Typed
  <1>2. /\ high + Reserve(live, terms, mkrs) <= MaxSeq
        /\ order + ordTerms + live <= MaxOrder + 1
    BY ZenonT(60) DEF FrontierInv, NumbersReserved, SeqFits, OrdFits
  <1>3. Reserve(live, terms, mkrs) \in Nat BY ZenonT(60), <1>1, ReserveType
  <1>4. ASSUME terms > 0, live > 0
        PROVE  SeqFits(high + 1 + 1, live, terms - 1, mkrs)
    <2>1. terms - 1 \in Nat BY SMTT(60), <1>1, <1>4
    <2>2. Reserve(live, terms - 1, mkrs) \in Nat BY ZenonT(60), <1>1, <2>1, ReserveType
    <2>3. Reserve(live, terms - 1, mkrs) + 1 + live <= Reserve(live, terms, mkrs)
      BY ZenonT(60), <1>1, <1>4, ReserveShrinks
    <2> QED BY SMTT(60), <1>1, <1>2, <1>3, <1>4, <2>2, <2>3 DEF SeqFits
  <1>5. ASSUME slot[p] = "bound"
        PROVE  /\ Fits(high + 1, live - 1, terms - 1, mkrs, order + 1, ordTerms - 1)
               /\ Rebuilds(high + 1, live, terms - 1, mkrs, order + 1, ordTerms - 1)
                     <=> ~OrderFull
               /\ Rebuilds(high, live, terms, mkrs, order + 1, ordTerms - 1)
                     <=> ~OrderFull /\ ~SequenceFull
    <2>1. ordTerms > 0 /\ terms > 0 /\ live > 0
      BY ZenonT(60), <1>5, OwesExit DEF ActiveStates
    <2>2. live - 1 \in Nat /\ terms - 1 \in Nat BY SMTT(60), <1>1, <2>1
    <2>3. /\ Reserve(live - 1, terms, mkrs) \in Nat
          /\ Reserve(live - 1, terms - 1, mkrs) \in Nat
      BY ZenonT(60), <1>1, <2>2, ReserveType
    <2>4. /\ Reserve(live - 1, terms, mkrs) + 1 <= Reserve(live, terms, mkrs)
          /\ Reserve(live - 1, terms - 1, mkrs) + 1 + (live - 1) <= Reserve(live - 1, terms, mkrs)
      BY ZenonT(60), <1>1, <2>1, <2>2, ReserveShrinks
    <2>5. SeqFits(high + 1, live - 1, terms - 1, mkrs)
      BY SMTT(60), <1>1, <1>2, <1>3, <2>2, <2>3, <2>4 DEF SeqFits
    <2>6. OrdFits(order + 1, ordTerms - 1, live - 1) BY SMTT(60), <1>1, <1>2, <2>1 DEF OrdFits
    <2>7. SeqFits(high + 1 + 1, live, terms - 1, mkrs) BY ZenonT(60), <1>4, <2>1
    <2>8. OrdFits(order + 1 + 1, ordTerms - 1, live) <=> ~OrderFull
      BY SMTT(60), <1>1, <1>2, <2>1 DEF OrdFits, OrderFull
    <2>9. SeqFits(high + 1, live, terms, mkrs) <=> ~SequenceFull
      BY SMTT(60), <1>1, <1>2, <1>3 DEF SeqFits, SequenceFull
    <2> QED BY ZenonT(60), <2>5, <2>6, <2>7, <2>8, <2>9 DEF Fits, Rebuilds
  <1>6. ASSUME slot[p] = "detached"
        PROVE  Fits(high + 1, live - 1, terms, mkrs, order + 1, ordTerms)
    <2>1. live > 0 BY ZenonT(60), <1>6, OwesExit DEF ActiveStates
    <2>2. live - 1 \in Nat BY SMTT(60), <1>1, <2>1
    <2>3. Reserve(live - 1, terms, mkrs) \in Nat BY ZenonT(60), <1>1, <2>2, ReserveType
    <2>4. Reserve(live - 1, terms, mkrs) + 1 <= Reserve(live, terms, mkrs)
      BY ZenonT(60), <1>1, <2>1, ReserveShrinks
    <2>5. SeqFits(high + 1, live - 1, terms, mkrs)
      BY SMTT(60), <1>1, <1>2, <1>3, <2>3, <2>4 DEF SeqFits
    <2>6. OrdFits(order + 1, ordTerms, live - 1) BY SMTT(60), <1>1, <1>2, <2>1 DEF OrdFits
    <2> QED BY ZenonT(60), <2>5, <2>6 DEF Fits
  <1>7. ASSUME slot[p] = "pending"
        PROVE  Rebuilds(high + 1, live, terms - 1, mkrs, order, ordTerms)
    <2>1. live > 0 /\ terms > 0 BY ZenonT(60), <1>7, OwesExit DEF ActiveStates
    <2>2. OrdFits(order + 1, ordTerms, live) BY ZenonT(60), <1>7 DEF FrontierInv, PendingInLane
    <2> QED BY ZenonT(60), <1>4, <2>1, <2>2 DEF Rebuilds
  <1>8. ASSUME mkrs > 0 PROVE Fits(high + 1, live, terms, mkrs - 1, order, ordTerms)
    <2>1. mkrs - 1 \in Nat BY SMTT(60), <1>1, <1>8
    <2>2. Reserve(live, terms, mkrs - 1) \in Nat BY ZenonT(60), <1>1, <2>1, ReserveType
    <2>3. Reserve(live, terms, mkrs - 1) + 1 <= Reserve(live, terms, mkrs)
      BY ZenonT(60), <1>1, <1>8, ReserveShrinks
    <2>4. SeqFits(high + 1, live, terms, mkrs - 1)
      BY SMTT(60), <1>1, <1>2, <1>3, <2>2, <2>3 DEF SeqFits
    <2>5. OrdFits(order, ordTerms, live) BY ZenonT(60) DEF FrontierInv, NumbersReserved
    <2> QED BY ZenonT(60), <2>4, <2>5 DEF Fits
  <1> QED BY ZenonT(60), <1>5, <1>6, <1>7, <1>8

(* Exhaustion refuses new work before it strands an exit: whatever the     *)
(* operations and the order they come in, a Leave and both drains still    *)
(* pass the ledgers' checks, and a terminal is refused exactly when the    *)
(* claims hold the order ledger's last number (take_live_order).           *)
THEOREM ExitsAreFunded == Spec => []ExitsFunded
  <1>1. FrontierInv => ExitsFunded BY ZenonT(60), ReservedFunds
  <1> QED BY <1>1, FrontierInvariant, PTL

(* The stored claims, credits and baseline never drift from the ones an    *)
(* ordinary record derives (validate_marker_state, retained_baseline_wide). *)
THEOREM AccountingIsExact == Spec => []AccountingExact
  <1>1. FrontierInv => AccountingExact
    <2> SUFFICES ASSUME FrontierInv PROVE AccountingExact BY ZenonT(60)
    <2>1. Active = {q \in P : slot[q] \in ActiveStates} BY ZenonT(60) DEF Active, ActiveStates
    <2>2. Bound = {q \in P : slot[q] \in {"bound"}} BY ZenonT(60) DEF Bound
    <2>3. {p \in P : slot[p] = "pending"} = {q \in P : slot[q] \in {"pending"}} BY ZenonT(60)
    <2>4. mkrs = Cardinality(LaneMarkers)
      <3>1. Len(lane) \in Nat /\ mkrs \in Nat BY SMTT(60) DEF FrontierInv, Typed
      <3>2. CASE mkrs = Len(lane) /\ \A i \in 1 .. Len(lane) : lane[i].kind = "marker"
        <4>1. LaneMarkers = 1 .. Len(lane) BY ZenonT(60), <3>2 DEF LaneMarkers
        <4>2. Cardinality(1 .. Len(lane)) = IF 1 > Len(lane) THEN 0 ELSE Len(lane) - 1 + 1
          BY SMTT(60), <3>1, FS_Interval
        <4>3. Cardinality(1 .. Len(lane)) = Len(lane) BY SMTT(60), <3>1, <4>2
        <4> QED BY ZenonT(60), <3>2, <4>1, <4>3
      <3>3. CASE mkrs = 0 /\ Len(lane) = 1 /\ lane[1].kind /= "marker"
        <4>1. LaneMarkers = {} BY SMTT(60), <3>3 DEF LaneMarkers
        <4> QED BY ZenonT(60), <3>3, <4>1, FS_EmptySet
      <3> QED BY ZenonT(60), <3>2, <3>3 DEF LaneShape, FrontierInv
    <2> QED BY ZenonT(60), <2>1, <2>2, <2>3, <2>4
            DEF AccountingExact, FrontierInv, Census, Count, CreditsExact, BaselineExact
  <1> QED BY <1>1, FrontierInvariant, PTL

(* The Leave that would append a pending terminal with its own row never   *)
(* fits the retained limit (commit_pending_leave_frontier).                *)
THEOREM PendingIsAtLimit == Spec => []PendingAtLimit
  <1>1. FrontierInv => PendingAtLimit
    BY SMTT(60), FrontierConstants DEF FrontierInv, PendingInLane, PendingAtLimit, Retained, Typed
  <1> QED BY <1>1, FrontierInvariant, PTL

(* A fold of the log never retires an anchor it does not hold              *)
(* (reconcile_orphaned_marker_anchors runs only after the fold).           *)
THEOREM ReplayIsCovered == Spec => []ReplayCovers
  <1>1. FrontierInv => ReplayCovers BY ZenonT(60) DEF FrontierInv
  <1> QED BY <1>1, FrontierInvariant, PTL

(* No floor that moves (search_capacity_floor, validate_binding_fate_floor) *)
(* compacts a marker its owner has not accepted.                            *)
THEOREM MarkersSurvive == Spec => MarkerSurvives
  <1>1. FrontierInv /\ [Next]_vars => [Kept]_vars BY ZenonT(60), StepInv
  <1> QED BY <1>1, FrontierInvariant, PTL DEF Spec, MarkerSurvives, Kept
=============================================================================
