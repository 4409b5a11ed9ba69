-------------------------- MODULE DedupCacheProofs --------------------------
(***************************************************************************)
(* The idempotency cache, proved for any number of publishers, keys that   *)
(* share the stream, and log length: at-most-once fan-out when no sweeper  *)
(* runs (inductive invariant IInv), and, with or without one, that a       *)
(* stream belongs to one key and that receipts survive (SInv, KInv).       *)
(***************************************************************************)
EXTENDS DedupCache, TLAPS

(* What the store's append does to a stream.                               *)
LEMMA AppendFacts ==
    ASSUME NEW S, NEW s \in Seq(S), NEW e \in S
    PROVE  /\ Append(s, e) \in Seq(S)
           /\ Len(Append(s, e)) = Len(s) + 1
           /\ Append(s, e) # <<>>
           /\ Append(s, e)[Len(Append(s, e))] = e
           /\ \A i \in 1..Len(s) : Append(s, e)[i] = s[i]
  BY SMTT(60)

(* The latest record of a stream that has one is among its records.        *)
LEMMA LatestInStream == IInv /\ log # <<>> => Len(log) \in 1..Len(log)
  <1>1. IInv => log \in Seq(Record)
    BY ZenonT(60) DEF IInv, TypeOK
  <1> QED
    BY SMTT(60), <1>1

(* The initial stream is empty and nothing has been delivered.             *)
LEMMA InitTypeOK == Init => TypeOK /\ ~sweep.scanned /\ Len(log) = 0
  <1> SUFFICES ASSUME Init PROVE TypeOK /\ ~sweep.scanned /\ Len(log) = 0
    BY ZenonT(60)
  <1>1. log = <<>> /\ log \in Seq(Record) /\ Len(log) = 0
    BY SMTT(60) DEF Init
  <1>2. sweep \in [on : BOOLEAN, scanned : BOOLEAN, at : 0..Len(log)] /\ ~sweep.scanned
    BY SMTT(60), <1>1 DEF Init
  <1> QED
    BY SMTT(60), <1>1, <1>2, BoundsAssumption DEF Init, TypeOK, Steps

LEMMA InitIInv == Init /\ ~Sweeping => IInv
  <1> SUFFICES ASSUME Init, ~Sweeping PROVE IInv
    BY ZenonT(60)
  <1>1. OneKeyPerStream
    BY SMTT(60), InitTypeOK DEF OneKeyPerStream
  <1>2. OwnerHolds /\ FanOutBacked
    BY ZenonT(60) DEF Init, OwnerHolds, FanOutBacked, BeforeFanOut, AfterFanOut
  <1> QED
    BY ZenonT(60), InitTypeOK, <1>1, <1>2 DEF IInv, Sweeping

(* A step that leaves the stream alone and moves one publisher to a step   *)
(* that owes it nothing keeps the invariant.                               *)
LEMMA QuietStep ==
    ASSUME IInv, NEW p \in Publishers, NEW s \in Steps,
           s \in BeforeFanOut => pc[p] \in BeforeFanOut,
           s \in AfterFanOut => pc[p] \in AfterFanOut,
           s # "claim",
           Goto(p, s),
           UNCHANGED <<log, key, sweep, now, delivered>>,
           seen' \in [Publishers -> 0..Len(log)],
           \A q \in Publishers \ {p} : seen'[q] = seen[q],
           stamp' \in [Publishers -> 0..now]
    PROVE  IInv'
  <1>1. TypeOK'
    BY ZenonT(60) DEF IInv, TypeOK, Goto
  <1>2. OneKeyPerStream'
    BY ZenonT(60) DEF IInv, OneKeyPerStream
  <1>3. OwnerHolds'
    BY ZenonT(60) DEF IInv, TypeOK, OwnerHolds, Goto, InFlight, Latest, Empty, Collides
  <1>4. FanOutBacked'
    BY ZenonT(60) DEF IInv, TypeOK, FanOutBacked, Goto, InFlight, Latest, Empty, Collides
  <1> QED
    BY ZenonT(60), <1>1, <1>2, <1>3, <1>4 DEF IInv

(* A step that appends one record of the stream's key and moves its        *)
(* publisher on keeps types and the single key.                            *)
LEMMA AppendStep ==
    ASSUME IInv, NEW p \in Publishers, NEW s \in Steps, NEW e \in Record,
           ~Collides(e.key), Len(log) < MaxLog,
           log' = Append(log, e), Goto(p, s),
           UNCHANGED <<key, seen, stamp, sweep, now, delivered>>
    PROVE  /\ TypeOK' /\ OneKeyPerStream' /\ ~sweep'.on /\ ~sweep'.scanned
           /\ Len(log') = Len(log) + 1 /\ log' # <<>> /\ Latest' = e
           /\ \A k \in Keys : ~Collides(k) /\ log # <<>> => k = e.key
           /\ \A k \in Keys : (~Collides(k))' <=> k = e.key
  <1>1. /\ log' \in Seq(Record) /\ Len(log') = Len(log) + 1 /\ log' # <<>>
        /\ log'[Len(log')] = e
        /\ \A i \in 1..Len(log) : log'[i] = log[i]
    <2>1. log \in Seq(Record)  BY ZenonT(60) DEF IInv, TypeOK
    <2> QED BY SMTT(60), <2>1, AppendFacts
  <1>2. \A i \in 1..Len(log') : log'[i].key = e.key
    BY SMTT(60), <1>1 DEF Collides, IInv, TypeOK
  <1>3. TypeOK'
    BY SMTT(60), <1>1, BoundsAssumption DEF IInv, TypeOK, Goto
  <1>4. \A k \in Keys : ~Collides(k) /\ log # <<>> => k = e.key
    <2>1. log # <<>> => 1 \in 1..Len(log)
      BY SMTT(60) DEF IInv, TypeOK
    <2> QED
      BY ZenonT(60), <2>1 DEF Collides
  <1>5. \A k \in Keys : (~Collides(k))' <=> k = e.key
    <2>1. 1 \in 1..Len(log')
      BY SMTT(60), <1>1
    <2> QED
      BY ZenonT(60), <1>2, <2>1 DEF Collides
  <1> QED
    BY ZenonT(60), <1>1, <1>2, <1>3, <1>4, <1>5 DEF OneKeyPerStream, Latest, IInv

(* Every step of a publisher, and every tick, keeps the invariant: only    *)
(* the three appends change the stream, and each of them finds the stream  *)
(* as its owner left it.                                                   *)
LEMMA StepIInv ==
    ASSUME IInv, [Next]_vars
    PROVE  IInv'
  <1> USE DEF BeforeFanOut, AfterFanOut, Steps
  <1>a. \A p \in Publishers : pc[p] \in Steps /\ key[p] \in Keys /\ seen[p] \in 0..Len(log)
    BY ZenonT(60) DEF IInv, TypeOK
  <1>b. Len(log) \in Nat /\ now \in Nat
    BY SMTT(60) DEF IInv, TypeOK
  <1>1. ASSUME NEW p \in Publishers, NEW k \in Keys, ClaimRead(p, k)
        PROVE  IInv'
    <2>1. TypeOK'
      BY SMTT(60), <1>1, <1>a, <1>b DEF IInv, TypeOK, ClaimRead, Goto, Snapshot
    <2>2. OneKeyPerStream'
      BY ZenonT(60), <1>1 DEF IInv, OneKeyPerStream, ClaimRead
    <2>3. OwnerHolds'
      BY ZenonT(60), <1>1, <1>a DEF IInv, TypeOK, OwnerHolds, ClaimRead, Goto, Snapshot,
                        InFlight, Latest, Empty, Collides
    <2>4. FanOutBacked'
      BY ZenonT(60), <1>1, <1>a DEF IInv, TypeOK, FanOutBacked, ClaimRead, Goto,
                        InFlight, Latest, Empty, Collides
    <2> QED
      BY ZenonT(60), <1>1, <2>1, <2>2, <2>3, <2>4 DEF IInv, ClaimRead
  <1>2. ASSUME NEW p \in Publishers, ClaimAppend(p)
        PROVE  IInv'
    <2>1. CASE seen[p] # Len(log)
      BY ZenonT(60), <1>2, <2>1, <1>a, QuietStep DEF ClaimAppend, IInv, TypeOK
    <2>2. CASE seen[p] = Len(log)
      <3> DEFINE e == [tag |-> "inflight", key |-> key[p], ts |-> stamp[p], owner |-> p]
      <3>1. Empty /\ ~Collides(key[p])
        BY ZenonT(60), <1>2, <2>2 DEF ClaimAppend, IInv, OwnerHolds
      <3>2. e \in Record /\ e.key = key[p] /\ e.owner = p /\ e.tag = "inflight"
        BY SMTT(60) DEF IInv, TypeOK, Record
      <3>3. log' = Append(log, e) /\ Len(log) < MaxLog /\ Goto(p, "deliver")
        BY ZenonT(60), <1>2, <2>2 DEF ClaimAppend, Put
      <3> HIDE DEF e
      <3>4. UNCHANGED <<key, seen, stamp, sweep, now, delivered>>
        BY ZenonT(60), <1>2 DEF ClaimAppend
      <3>5. /\ TypeOK' /\ OneKeyPerStream' /\ ~sweep'.on /\ ~sweep'.scanned
            /\ Len(log') = Len(log) + 1 /\ log' # <<>> /\ Latest' = e
            /\ \A k \in Keys : (~Collides(k))' <=> k = e.key
        BY SMTT(60), <3>1, <3>2, <3>3, <3>4, AppendStep
      <3>6. \A q \in Publishers : pc[q] \notin {"deliver", "release", "append_tombstone",
                                               "complete", "append_receipt"}
        BY ZenonT(60), <3>1 DEF IInv, OwnerHolds, InFlight, Empty
      <3>7. OwnerHolds'
        BY SMTT(60), <3>2, <3>3, <3>4, <3>5, <3>6, <1>a, <1>b
        DEF OwnerHolds, Goto, InFlight, IInv, TypeOK
      <3>8. \A k \in Keys : delivered[k] = 0
        BY ZenonT(60), <3>1 DEF IInv, FanOutBacked
      <3>9. FanOutBacked'
        BY ZenonT(60), <3>4, <3>8 DEF FanOutBacked
      <3> QED
        BY ZenonT(60), <3>5, <3>7, <3>9 DEF IInv
    <2> QED
      BY ZenonT(60), <2>1, <2>2
  <1>3. ASSUME NEW p \in Publishers,
               ClaimConflict(p) \/ DeliverFails(p) \/ CompleteConflict(p)
                   \/ ReleaseConflict(p) \/ Crash(p)
        PROVE  IInv'
    BY ZenonT(60), <1>3, QuietStep
    DEF ClaimConflict, DeliverFails, CompleteConflict, ReleaseConflict, Crash, IInv, TypeOK
  <1>4. ASSUME NEW p \in Publishers, CompleteRead(p) \/ ReleaseRead(p)
        PROVE  IInv'
    <2>1. /\ seen' \in [Publishers -> 0..Len(log)]
          /\ \A q \in Publishers \ {p} : seen'[q] = seen[q]
          /\ stamp' \in [Publishers -> 0..now]
      <3>1. Snapshot(p)
        BY ZenonT(60), <1>4 DEF CompleteRead, ReleaseRead
      <3>2. /\ seen \in [Publishers -> 0..Len(log)]
            /\ stamp \in [Publishers -> 0..now]
        BY ZenonT(60) DEF IInv, TypeOK
      <3> QED
        BY SMTT(60), <3>1, <3>2, <1>b DEF Snapshot
    <2>2. PICK s \in {"idle", "append_receipt", "append_tombstone"} :
             /\ Goto(p, s)
             /\ s = "append_receipt" => pc[p] = "complete"
             /\ s = "append_tombstone" => pc[p] = "release"
      BY ZenonT(60), <1>4 DEF CompleteRead, ReleaseRead
    <2> QED
      BY ZenonT(60), <1>4, <2>1, <2>2, QuietStep DEF CompleteRead, ReleaseRead
  <1>5. ASSUME NEW p \in Publishers, Deliver(p)
        PROVE  IInv'
    <2>1. pc[p] = "deliver" /\ InFlight /\ Latest.owner = p /\ Latest.key = key[p]
      BY ZenonT(60), <1>5 DEF Deliver, IInv, OwnerHolds
    <2>2. \A q \in Publishers \ {p} : pc[q] \notin {"deliver", "release", "append_tombstone"}
      BY ZenonT(60), <2>1 DEF IInv, OwnerHolds
    <2>3. \A k \in Keys : delivered[k] = 0
      BY ZenonT(60), <2>1 DEF IInv, FanOutBacked
    <2>4. ~Collides(key[p]) /\ ~Empty
      BY SMTT(60), <2>1 DEF IInv, OneKeyPerStream, Collides, InFlight, Latest, TypeOK, Empty
    <2>5. TypeOK'
      BY SMTT(60), <1>5, <1>a DEF Deliver, IInv, TypeOK, Goto
    <2>6. OneKeyPerStream' /\ ~sweep'.on /\ ~sweep'.scanned
      BY ZenonT(60), <1>5 DEF Deliver, IInv, OneKeyPerStream
    <2>7. OwnerHolds'
      BY ZenonT(60), <1>5, <2>1 DEF Deliver, IInv, TypeOK, OwnerHolds, Goto, InFlight, Latest, Empty, Collides
    <2>8. FanOutBacked'
      BY SMTT(60), <1>5, <2>2, <2>3, <2>4, <1>a
      DEF Deliver, IInv, TypeOK, FanOutBacked, Goto, InFlight, Latest, Empty, Collides
    <2> QED
      BY ZenonT(60), <2>5, <2>6, <2>7, <2>8 DEF IInv
  <1>6. ASSUME NEW p \in Publishers, CompleteAppend(p) \/ ReleaseAppend(p)
        PROVE  IInv'
    <2>1. CASE seen[p] # Len(log)
      BY ZenonT(60), <1>6, <2>1, QuietStep DEF CompleteAppend, ReleaseAppend, IInv, TypeOK
    <2>2. CASE seen[p] = Len(log)
      <3> DEFINE tag == IF CompleteAppend(p) THEN "completed" ELSE "tombstone"
                 owner == IF CompleteAppend(p) THEN Latest.owner ELSE Nobody
                 e == [tag |-> tag, key |-> key[p], ts |-> stamp[p], owner |-> owner]
      <3>1. InFlight /\ Latest.owner = p /\ Latest.key = key[p]
        BY ZenonT(60), <1>6 DEF CompleteAppend, ReleaseAppend, IInv, OwnerHolds
      <3>2. ~Collides(key[p])
        BY ZenonT(60), <3>1, LatestInStream DEF IInv, OneKeyPerStream, Collides, InFlight, Latest
      <3>3. /\ e \in Record /\ e.key = key[p] /\ e.tag \in {"completed", "tombstone"}
            /\ e.tag = "tombstone" => pc[p] = "append_tombstone"
        <4>1. tag \in {"completed", "tombstone"} /\ owner \in Publishers \cup {Nobody}
          BY ZenonT(60), <3>1
        <4>2. stamp[p] \in Nat
          BY SMTT(60), <1>b DEF IInv, TypeOK
        <4>3. tag = "tombstone" => pc[p] = "append_tombstone"
          BY ZenonT(60), <1>6 DEF ReleaseAppend
        <4> HIDE DEF tag, owner
        <4> QED
          BY ZenonT(60), <4>1, <4>2, <4>3, <1>a DEF Record
      <3>4. log' = Append(log, e) /\ Len(log) < MaxLog /\ Goto(p, "idle")
        BY ZenonT(60), <1>6, <2>2 DEF CompleteAppend, ReleaseAppend, Put
      <3> HIDE DEF e, tag, owner
      <3>5. UNCHANGED <<key, seen, stamp, sweep, now, delivered>>
        BY ZenonT(60), <1>6 DEF CompleteAppend, ReleaseAppend
      <3>6. /\ TypeOK' /\ OneKeyPerStream' /\ ~sweep'.on /\ ~sweep'.scanned
            /\ Len(log') = Len(log) + 1 /\ log' # <<>> /\ Latest' = e
            /\ \A k \in Keys : ~Collides(k) /\ log # <<>> => k = e.key
            /\ \A k \in Keys : (~Collides(k))' <=> k = e.key
        BY ZenonT(60), <3>2, <3>3, <3>4, <3>5, AppendStep
      <3>7. \A q \in Publishers \ {p} : pc[q] \notin {"deliver", "release", "append_tombstone",
                                                     "complete", "append_receipt"}
        BY ZenonT(60), <3>1 DEF IInv, OwnerHolds
      <3>8. OwnerHolds'
        BY SMTT(60), <3>4, <3>5, <3>6, <3>7, <1>a, <1>b DEF OwnerHolds, Goto, IInv, TypeOK
      <3>9. FanOutBacked'
        BY ZenonT(60), <1>6, <3>1, <3>3, <3>4, <3>5, <3>6
        DEF FanOutBacked, Goto, InFlight, Empty, IInv, TypeOK
      <3> QED
        BY ZenonT(60), <3>6, <3>8, <3>9 DEF IInv
    <2> QED
      BY ZenonT(60), <2>1, <2>2
  <1>7. ASSUME Tick
        PROVE  IInv'
    <2>1. TypeOK'
      BY SMTT(60), <1>7, BoundsAssumption DEF Tick, IInv, TypeOK
    <2> QED
      BY SMTT(60), <1>7, <2>1 DEF Tick, IInv, OneKeyPerStream, OwnerHolds, FanOutBacked,
                        InFlight, Latest, Empty, Collides
  <1>8. ASSUME UNCHANGED vars
        PROVE  IInv'
    BY SMTT(60), <1>8 DEF vars, IInv, TypeOK, OneKeyPerStream, OwnerHolds, FanOutBacked,
                InFlight, Latest, Empty, Collides
  <1>9. ~SweepScan /\ ~SweepTombstone
    BY ZenonT(60) DEF SweepScan, SweepTombstone, Sweeping, IInv
  <1> HIDE DEF BeforeFanOut, AfterFanOut, Steps
  <1> QED
    BY ZenonT(60), <1>1, <1>2, <1>3, <1>4, <1>5, <1>6, <1>7, <1>8, <1>9 DEF Next, PublisherStep

(* However publishers interleave, retry and die, no two publishes of a key *)
(* report a fan-out, as long as publishing is the only writer of the       *)
(* stream (services.rs publish over dedup.rs).                             *)
THEOREM FannedOutAtMostOnce == Spec => []AtMostOnceDelivery
  <1>1. IInv \/ Sweeping => AtMostOnceDelivery
    <2> SUFFICES ASSUME IInv, NEW k \in Keys
                 PROVE  delivered[k] <= 1
      BY ZenonT(60) DEF AtMostOnceDelivery
    <2>1. delivered[k] # 0 => delivered[k] = 1
      BY ZenonT(60) DEF IInv, FanOutBacked
    <2> QED
      BY SMTT(60), <2>1
  <1>2. Sweeping /\ [Next]_vars => Sweeping'
    BY SMTT(60) DEF vars, Next, PublisherStep, Sweeping, ClaimRead, ClaimAppend, ClaimConflict,
           Deliver, DeliverFails, CompleteRead, CompleteAppend, CompleteConflict,
           ReleaseRead, ReleaseAppend, ReleaseConflict, Crash, SweepScan, SweepTombstone, Tick
  <1> QED
    BY InitIInv, StepIInv, <1>1, <1>2, PTL DEF Spec

(* Where no sweep runs, only the publish that made a claim ever settles it,*)
(* with its receipt or its release (claim_or_get, complete_receipt,        *)
(* release_claim).                                                         *)
THEOREM ClaimIsItsOwners == Spec => ClaimSettledByOwner
  <1>1. (IInv \/ Sweeping) /\ [Next]_vars =>
          [~Sweeping /\ InFlight /\ log' # log =>
              /\ pc[Latest.owner] \in {"append_receipt", "append_tombstone"}
              /\ pc'[Latest.owner] = "idle"
              /\ log'[Len(log')].key = Latest.key]_vars
    <2> SUFFICES ASSUME IInv, Next, InFlight, log' # log
                 PROVE  /\ pc[Latest.owner] \in {"append_receipt", "append_tombstone"}
                        /\ pc'[Latest.owner] = "idle"
                        /\ log'[Len(log')].key = Latest.key
      BY ZenonT(60) DEF vars
    <2>1. PICK p \in Publishers : ClaimAppend(p) \/ CompleteAppend(p) \/ ReleaseAppend(p)
      BY ZenonT(60) DEF Next, PublisherStep, ClaimRead, ClaimConflict, Deliver, DeliverFails,
           CompleteRead, CompleteConflict, ReleaseRead, ReleaseConflict, Crash,
           SweepScan, SweepTombstone, Tick, IInv
    <2>2. seen[p] = Len(log)
      BY ZenonT(60), <2>1 DEF ClaimAppend, CompleteAppend, ReleaseAppend
    <2>3. ~ClaimAppend(p)
      BY ZenonT(60), <2>2 DEF ClaimAppend, IInv, OwnerHolds, Empty, InFlight
    <2>4. pc[p] \in {"append_receipt", "append_tombstone"} /\ Goto(p, "idle")
      BY ZenonT(60), <2>1, <2>2, <2>3 DEF CompleteAppend, ReleaseAppend
    <2>5. Latest.owner = p /\ Latest.key = key[p]
      BY ZenonT(60), <2>4 DEF IInv, OwnerHolds, BeforeFanOut, AfterFanOut
    <2>6. PICK tag \in {"completed", "tombstone"}, owner \in {Latest.owner, Nobody} :
             Put(p, tag, owner)
      BY ZenonT(60), <2>1, <2>2, <2>3 DEF CompleteAppend, ReleaseAppend
    <2> DEFINE e == [tag |-> tag, key |-> key[p], ts |-> stamp[p], owner |-> owner]
    <2>7. e \in Record /\ e.key = key[p] /\ log' = Append(log, e)
      BY SMTT(60), <2>5, <2>6 DEF Record, Put, IInv, TypeOK
    <2> HIDE DEF e
    <2>8. log'[Len(log')] = e
      BY SMTT(60), <2>7, AppendFacts DEF IInv, TypeOK
    <2>9. pc'[p] = "idle"
      BY ZenonT(60), <2>4 DEF Goto, IInv, TypeOK
    <2> QED
      BY ZenonT(60), <2>4, <2>5, <2>7, <2>8, <2>9
  <1>2. Sweeping /\ [Next]_vars => Sweeping'
    BY SMTT(60) DEF vars, Next, PublisherStep, Sweeping, ClaimRead, ClaimAppend, ClaimConflict,
           Deliver, DeliverFails, CompleteRead, CompleteAppend, CompleteConflict,
           ReleaseRead, ReleaseAppend, ReleaseConflict, Crash, SweepScan, SweepTombstone, Tick
  <1> QED
    BY InitIInv, StepIInv, <1>1, <1>2, PTL DEF Spec, ClaimSettledByOwner

-----------------------------------------------------------------------------
(* With a sweeper.  SInv says that an operation about to append, finding   *)
(* the stream where it read it, appends after the record it decided on.    *)
SInv == TypeOK /\ SnapshotsHold

(* Appending one record disturbs no snapshot, since the records below it   *)
(* stay as they are.                                                       *)
LEMMA AppendSInv ==
    ASSUME SInv, NEW e \in Record, Len(log) < MaxLog, log' = Append(log, e),
           pc' \in [Publishers -> Steps],
           \A q \in Publishers : pc'[q] = pc[q] \/ pc'[q] \in {"idle", "deliver"},
           UNCHANGED <<key, seen, stamp, now, delivered>>,
           sweep' = sweep \/ sweep' = [on |-> sweep.on, scanned |-> FALSE, at |-> 0]
    PROVE  SInv'
  <1>1. /\ log' \in Seq(Record) /\ Len(log') = Len(log) + 1
        /\ \A i \in 1..Len(log) : log'[i] = log[i]
    BY SMTT(60), AppendFacts DEF SInv, TypeOK
  <1>2. Len(log) \in Nat /\ MaxLog \in Nat
    BY SMTT(60), BoundsAssumption DEF SInv, TypeOK
  <1>3. TypeOK'
    <2>1. sweep' \in [on : BOOLEAN, scanned : BOOLEAN, at : 0..Len(log')]
      <3>1. CASE sweep' = sweep
        BY SMTT(60), <3>1, <1>1, <1>2 DEF SInv, TypeOK
      <3>2. CASE sweep' = [on |-> sweep.on, scanned |-> FALSE, at |-> 0]
        BY SMTT(60), <3>2, <1>1, <1>2 DEF SInv, TypeOK
      <3> QED
        BY ZenonT(60), <3>1, <3>2
    <2>2. seen' \in [Publishers -> 0..Len(log')]
      BY SMTT(60), <1>1, <1>2 DEF SInv, TypeOK
    <2> QED
      BY SMTT(60), <1>1, <1>2, <2>1, <2>2 DEF SInv, TypeOK
  <1>4. \A p \in Publishers : seen[p] # 0 => log'[seen[p]] = log[seen[p]]
    BY SMTT(60), <1>1, <1>2 DEF SInv, TypeOK
  <1>5. sweep.scanned /\ sweep.at # 0 => log'[sweep.at] = log[sweep.at]
    BY SMTT(60), <1>1, <1>2 DEF SInv, TypeOK
  <1>6. SnapshotsHold'
    <2>1. sweep' = sweep \/ ~sweep'.scanned
      BY SMTT(60)
    <2>2. sweep'.scanned => sweep'.on /\ sweep'.at # 0 /\ Expired(log[sweep.at])' /\ sweep' = sweep
      BY ZenonT(60), <2>1, <1>5 DEF SInv, SnapshotsHold, Expired
    <2>3. \A p \in Publishers :
             /\ pc'[p] \in {"append_receipt", "append_tombstone"} =>
                   seen'[p] # 0 /\ log'[seen'[p]].tag = "inflight"
             /\ pc'[p] = "claim" => seen'[p] = 0 \/ log'[seen'[p]].tag = "tombstone"
      BY ZenonT(60), <1>4 DEF SInv, SnapshotsHold
    <2> QED
      BY ZenonT(60), <2>2, <2>3 DEF SnapshotsHold
  <1> QED
    BY ZenonT(60), <1>3, <1>6 DEF SInv

(* A step that reads, decides, delivers or gives up leaves the stream and  *)
(* the sweeper alone.                                                      *)
LEMMA QuietSInv ==
    ASSUME SInv, NEW p \in Publishers, NEW s \in Steps, Goto(p, s),
           UNCHANGED <<log, sweep, now>>,
           key' \in [Publishers -> Keys], delivered' \in [Keys -> Nat],
           UNCHANGED <<seen, stamp>> \/ Snapshot(p),
           s \in {"append_receipt", "append_tombstone"} => Snapshot(p) /\ InFlight,
           s = "claim" => Snapshot(p) /\ Empty
    PROVE  SInv'
  <1>1. Len(log) \in Nat /\ now \in Nat
    BY SMTT(60) DEF SInv, TypeOK
  <1>2. TypeOK'
    <2>1. seen' \in [Publishers -> 0..Len(log)] /\ stamp' \in [Publishers -> 0..now]
      <3>1. seen \in [Publishers -> 0..Len(log)] /\ stamp \in [Publishers -> 0..now]
        BY ZenonT(60) DEF SInv, TypeOK
      <3>2. CASE Snapshot(p)
        BY SMTT(60), <3>1, <3>2, <1>1 DEF Snapshot
      <3>3. CASE UNCHANGED <<seen, stamp>>
        BY ZenonT(60), <3>1, <3>3
      <3> QED
        BY ZenonT(60), <3>2, <3>3
    <2>2. pc' \in [Publishers -> Steps]
      BY ZenonT(60) DEF SInv, TypeOK, Goto
    <2> QED
      BY ZenonT(60), <2>1, <2>2 DEF SInv, TypeOK
  <1>3. log # <<>> => Len(log) # 0
    BY SMTT(60) DEF SInv, TypeOK
  <1>4. /\ \A q \in Publishers \ {p} : pc'[q] = pc[q] /\ seen'[q] = seen[q]
        /\ pc'[p] = s
        /\ Snapshot(p) => seen'[p] = Len(log)
    BY ZenonT(60) DEF SInv, TypeOK, Goto, Snapshot
  <1>5. SnapshotsHold'
    BY ZenonT(60), <1>3, <1>4 DEF SInv, SnapshotsHold, InFlight, Empty, Latest, Expired
  <1> QED
    BY ZenonT(60), <1>2, <1>5 DEF SInv

(* One step per action.                                                    *)
LEMMA StepSInv ==
    ASSUME SInv, [Next]_vars
    PROVE  SInv'
  <1>a. \A p \in Publishers : key[p] \in Keys /\ stamp[p] \in Nat /\ seen[p] \in 0..Len(log)
    BY SMTT(60) DEF SInv, TypeOK
  <1>b. Len(log) \in Nat /\ now \in Nat /\ key \in [Publishers -> Keys]
          /\ delivered \in [Keys -> Nat] /\ pc \in [Publishers -> Steps]
    BY SMTT(60) DEF SInv, TypeOK
  <1>c. ASSUME log # <<>>
        PROVE  Latest \in Record
    BY SMTT(60), <1>c DEF SInv, TypeOK, Latest
  <1>1. ASSUME NEW p \in Publishers, NEW k \in Keys, ClaimRead(p, k)
        PROVE  SInv'
    <2>1. PICK s \in {"claim", "idle"} : Goto(p, s) /\ (s = "claim" => Empty)
      BY ZenonT(60), <1>1 DEF ClaimRead
    <2>2. key' \in [Publishers -> Keys]
      BY ZenonT(60), <1>1, <1>b DEF ClaimRead
    <2> QED
      BY ZenonT(60), <1>1, <1>b, <2>1, <2>2, QuietSInv DEF ClaimRead, Steps
  <1>2. ASSUME NEW p \in Publishers, NEW tag, NEW owner, NEW s \in {"idle", "deliver"},
               tag \in {"inflight", "completed", "tombstone"},
               owner \in Publishers \cup {Nobody},
               Len(log) < MaxLog, Put(p, tag, owner), Goto(p, s),
               UNCHANGED <<key, seen, stamp, sweep, now, delivered>>
        PROVE  SInv'
    <2> DEFINE e == [tag |-> tag, key |-> key[p], ts |-> stamp[p], owner |-> owner]
    <2>1. e \in Record
      BY ZenonT(60), <1>2, <1>a DEF Record
    <2>2. log' = Append(log, e)
      BY ZenonT(60), <1>2 DEF Put
    <2>3. /\ pc' \in [Publishers -> Steps]
          /\ \A q \in Publishers : pc'[q] = pc[q] \/ pc'[q] \in {"idle", "deliver"}
      BY ZenonT(60), <1>2, <1>b DEF Goto, Steps
    <2> HIDE DEF e
    <2> QED
      BY ZenonT(60), <1>2, <2>1, <2>2, <2>3, AppendSInv
  <1>3. ASSUME NEW p \in Publishers, ClaimAppend(p)
        PROVE  SInv'
    <2>1. CASE seen[p] = Len(log)
      BY ZenonT(60), <1>2, <1>3, <2>1 DEF ClaimAppend
    <2>2. CASE seen[p] # Len(log)
      BY ZenonT(60), <1>3, <1>b, <2>2, QuietSInv DEF ClaimAppend, Steps
    <2> QED
      BY ZenonT(60), <2>1, <2>2
  <1>4. ASSUME NEW p \in Publishers, CompleteAppend(p)
        PROVE  SInv'
    <2>1. CASE seen[p] = Len(log)
      <3>1. Latest \in Record
        <4>1. log # <<>>
          BY ZenonT(60), <1>4, <2>1 DEF CompleteAppend, SInv, SnapshotsHold, TypeOK
        <4> QED
          BY ZenonT(60), <4>1, <1>c
      <3>2. Latest.owner \in Publishers \cup {Nobody}
        BY ZenonT(60), <3>1 DEF Record
      <3> QED
        BY ZenonT(60), <1>2, <1>4, <2>1, <3>2 DEF CompleteAppend
    <2>2. CASE seen[p] # Len(log)
      BY ZenonT(60), <1>4, <1>b, <2>2, QuietSInv DEF CompleteAppend, Steps
    <2> QED
      BY ZenonT(60), <2>1, <2>2
  <1>5. ASSUME NEW p \in Publishers, ReleaseAppend(p)
        PROVE  SInv'
    <2>1. CASE seen[p] = Len(log)
      BY ZenonT(60), <1>2, <1>5, <2>1 DEF ReleaseAppend
    <2>2. CASE seen[p] # Len(log)
      BY ZenonT(60), <1>5, <1>b, <2>2, QuietSInv DEF ReleaseAppend, Steps
    <2> QED
      BY ZenonT(60), <2>1, <2>2
  <1>6. ASSUME NEW p \in Publishers, Deliver(p)
        PROVE  SInv'
    <2>1. delivered' \in [Keys -> Nat]
      BY SMTT(60), <1>6, <1>a, <1>b DEF Deliver
    <2> QED
      BY ZenonT(60), <1>6, <1>b, <2>1, QuietSInv DEF Deliver, Steps
  <1>7. ASSUME NEW p \in Publishers,
               ClaimConflict(p) \/ DeliverFails(p) \/ CompleteConflict(p)
                   \/ ReleaseConflict(p) \/ Crash(p)
        PROVE  SInv'
    BY ZenonT(60), <1>7, <1>b, QuietSInv
    DEF ClaimConflict, DeliverFails, CompleteConflict, ReleaseConflict, Crash, Steps
  <1>8. ASSUME NEW p \in Publishers, CompleteRead(p) \/ ReleaseRead(p)
        PROVE  SInv'
    <2>1. PICK s \in {"idle", "append_receipt", "append_tombstone"} :
             Goto(p, s) /\ (s # "idle" => InFlight)
      BY ZenonT(60), <1>8 DEF CompleteRead, ReleaseRead
    <2> QED
      BY ZenonT(60), <1>8, <1>b, <2>1, QuietSInv DEF CompleteRead, ReleaseRead, Steps
  <1>9. ASSUME SweepScan
        PROVE  SInv'
    <2>1. log # <<>> => Len(log) # 0
      BY SMTT(60) DEF SInv, TypeOK
    <2>2. TypeOK'
      BY SMTT(60), <1>9, <1>b DEF SweepScan, SInv, TypeOK
    <2>3. SnapshotsHold'
      BY ZenonT(60), <1>9, <2>1 DEF SweepScan, Sweeping, SInv, SnapshotsHold, Empty, Latest, Expired
    <2> QED
      BY ZenonT(60), <2>2, <2>3 DEF SInv
  <1>10. ASSUME SweepTombstone
         PROVE  SInv'
    <2>1. CASE sweep.at = Len(log)
      <3> DEFINE e == [Latest EXCEPT !.tag = "tombstone", !.owner = Nobody]
      <3>1. log # <<>>
        BY ZenonT(60), <1>10, <2>1 DEF SweepTombstone, SInv, SnapshotsHold, TypeOK
      <3>2. e \in Record
        BY ZenonT(60), <3>1, <1>c DEF Record
      <3>3. log' = Append(log, e)
        BY ZenonT(60), <1>10, <2>1 DEF SweepTombstone
      <3> HIDE DEF e
      <3> QED
        BY ZenonT(60), <1>10, <1>b, <2>1, <3>2, <3>3, AppendSInv DEF SweepTombstone
    <2>2. CASE sweep.at # Len(log)
      <3>1. TypeOK'
        BY SMTT(60), <1>10, <2>2, <1>b DEF SweepTombstone, SInv, TypeOK
      <3> QED
        BY ZenonT(60), <1>10, <2>2, <3>1 DEF SweepTombstone, SInv, SnapshotsHold
    <2> QED
      BY ZenonT(60), <2>1, <2>2
  <1>11. ASSUME Tick
         PROVE  SInv'
    <2>1. TypeOK'
      BY SMTT(60), <1>11, BoundsAssumption DEF Tick, SInv, TypeOK
    <2>2. sweep.scanned => log[sweep.at].ts \in Nat
      <3>1. sweep.scanned => sweep.at \in 1..Len(log)
        BY SMTT(60), <1>b DEF SInv, SnapshotsHold, TypeOK
      <3>2. sweep.scanned => log[sweep.at] \in Record
        BY SMTT(60), <3>1 DEF SInv, TypeOK
      <3> QED
        BY ZenonT(60), <3>2 DEF Record
    <2>3. SnapshotsHold'
      BY SMTT(60), <1>11, <1>b, <2>2, TtlAssumption DEF Tick, SInv, SnapshotsHold, Expired
    <2> QED
      BY ZenonT(60), <2>1, <2>3 DEF SInv
  <1>12. ASSUME UNCHANGED vars
         PROVE  SInv'
    BY ZenonT(60), <1>12 DEF vars, SInv, TypeOK, SnapshotsHold, Expired
  <1> QED
    BY ZenonT(60), <1>1, <1>3, <1>4, <1>5, <1>6, <1>7, <1>8, <1>9, <1>10, <1>11, <1>12
    DEF Next, PublisherStep

(* A stored receipt is replaced by nothing but the sweeper's tombstone,    *)
(* and only after it has expired, whatever races the sweeper, completions, *)
(* releases and claims run (dedup.rs release_claim, sweep.rs sweep_once).  *)
THEOREM ReceiptSurvives == Spec => ReceiptNeverClobbered
  <1>1. Init => SInv
    BY ZenonT(60), InitTypeOK DEF Init, SInv, SnapshotsHold
  <1>2. SInv /\ [Next]_vars =>
          [Completed /\ log' # log =>
              /\ log'[Len(log')].tag = "tombstone"
              /\ Sweeping /\ Expired(Latest)]_vars
    <2> SUFFICES ASSUME SInv, Next, Completed, log' # log
                 PROVE  log'[Len(log')].tag = "tombstone" /\ Sweeping /\ Expired(Latest)
      BY ZenonT(60) DEF vars
    <2>1. ASSUME NEW p \in Publishers, PublisherStep(p)
          PROVE  FALSE
      <3>1. ClaimAppend(p) \/ CompleteAppend(p) \/ ReleaseAppend(p)
        BY ZenonT(60), <2>1 DEF PublisherStep, ClaimRead, ClaimConflict, Deliver, DeliverFails,
             CompleteRead, CompleteConflict, ReleaseRead, ReleaseConflict, Crash
      <3>2. seen[p] = Len(log)
        BY ZenonT(60), <3>1 DEF ClaimAppend, CompleteAppend, ReleaseAppend
      <3> QED
        <4>1. pc[p] \in {"claim", "append_receipt", "append_tombstone"}
          BY ZenonT(60), <3>1 DEF ClaimAppend, CompleteAppend, ReleaseAppend
        <4>2. Len(log) # 0 /\ log[Len(log)].tag = "completed"
          BY SMTT(60) DEF SInv, TypeOK, Completed, Latest
        <4>3. seen[p] = 0 \/ log[seen[p]].tag \in {"tombstone", "inflight"}
          BY ZenonT(60), <4>1 DEF SInv, SnapshotsHold
        <4> QED BY ZenonT(60), <3>2, <4>2, <4>3
    <2>2. CASE SweepTombstone
      <3> DEFINE e == [Latest EXCEPT !.tag = "tombstone", !.owner = Nobody]
      <3>1. sweep.at = Len(log) /\ log' = Append(log, e) /\ sweep.scanned
        BY ZenonT(60), <2>2 DEF SweepTombstone
      <3>2. Latest \in Record
        BY SMTT(60) DEF SInv, TypeOK, Completed, Latest
      <3>3. e \in Record /\ e.tag = "tombstone"
        BY ZenonT(60), <3>2 DEF Record
      <3> HIDE DEF e
      <3>4. log'[Len(log')] = e
        BY SMTT(60), <3>1, <3>3, AppendFacts DEF SInv, TypeOK
      <3> QED
        BY ZenonT(60), <3>1, <3>3, <3>4 DEF SInv, SnapshotsHold, Latest, Sweeping
    <2> QED
      BY ZenonT(60), <2>1, <2>2 DEF Next, SweepScan, Tick
  <1> QED
    BY <1>1, <1>2, StepSInv, PTL DEF Spec, ReceiptNeverClobbered
-----------------------------------------------------------------------------
(* The key of a stream, with or without a sweeper.                         *)
KInv == SInv /\ OneKeyPerStream /\ DecidedOnOwnStream

(* An append of the stream's own key leaves every other publisher's        *)
(* snapshot behind the stream's end.                                       *)
LEMMA AppendKInv ==
    ASSUME KInv, NEW e \in Record, ~Collides(e.key), log' = Append(log, e),
           UNCHANGED seen
    PROVE  OneKeyPerStream' /\ DecidedOnOwnStream'
  <1>1. /\ Len(log') = Len(log) + 1 /\ log'[Len(log')] = e
        /\ \A i \in 1..Len(log) : log'[i] = log[i]
    BY SMTT(60), AppendFacts DEF KInv, SInv, TypeOK
  <1>2. Len(log) \in Nat /\ \A p \in Publishers : seen[p] \in 0..Len(log)
    BY SMTT(60) DEF KInv, SInv, TypeOK
  <1>3. \A i \in 1..Len(log') : log'[i].key = e.key
    BY SMTT(60), <1>1, <1>2 DEF Collides
  <1> QED
    BY SMTT(60), <1>1, <1>2, <1>3 DEF OneKeyPerStream, DecidedOnOwnStream

(* A publisher's step that leaves the stream alone takes a fresh snapshot  *)
(* on the way to an append.                                                *)
LEMMA QuietKInv ==
    ASSUME KInv, NEW p \in Publishers, NEW s \in Steps, Goto(p, s), UNCHANGED log,
           \A q \in Publishers \ {p} : key'[q] = key[q] /\ seen'[q] = seen[q],
           s \in {"claim", "append_receipt", "append_tombstone"} => ~Collides(key'[p])
    PROVE  OneKeyPerStream' /\ DecidedOnOwnStream'
  <1>1. pc' = [pc EXCEPT ![p] = s] /\ pc \in [Publishers -> Steps]
    BY ZenonT(60) DEF Goto, KInv, SInv, TypeOK
  <1> QED
    BY SMTT(60), <1>1 DEF KInv, OneKeyPerStream, DecidedOnOwnStream, Collides

LEMMA StepKInv ==
    ASSUME KInv, [Next]_vars
    PROVE  KInv'
  <1>1. SInv'
    BY ZenonT(60), StepSInv DEF KInv
  <1>a. /\ key \in [Publishers -> Keys] /\ seen \in [Publishers -> 0..Len(log)]
        /\ stamp \in [Publishers -> 0..now] /\ now \in Nat
        /\ log \in Seq(Record)
    BY SMTT(60) DEF KInv, SInv, TypeOK
  <1>2. ASSUME NEW p \in Publishers, NEW k \in Keys, ClaimRead(p, k)
        PROVE  OneKeyPerStream' /\ DecidedOnOwnStream'
    <2>1. PICK s \in Steps : Goto(p, s) /\ (s # "idle" => ~Collides(k))
      BY ZenonT(60), <1>2 DEF ClaimRead, Steps
    <2>2. /\ key'[p] = k /\ UNCHANGED log
          /\ \A q \in Publishers \ {p} : key'[q] = key[q] /\ seen'[q] = seen[q]
      BY ZenonT(60), <1>2, <1>a DEF ClaimRead, Snapshot
    <2> QED
      BY ZenonT(60), <2>1, <2>2, QuietKInv
  <1>3. ASSUME NEW p \in Publishers, CompleteRead(p) \/ ReleaseRead(p)
        PROVE  OneKeyPerStream' /\ DecidedOnOwnStream'
    <2>1. PICK s \in Steps : Goto(p, s) /\ (s # "idle" => ~Collides(key[p]))
      BY ZenonT(60), <1>3 DEF CompleteRead, ReleaseRead, Steps
    <2>2. /\ key' = key /\ UNCHANGED log
          /\ \A q \in Publishers \ {p} : seen'[q] = seen[q]
      BY ZenonT(60), <1>3, <1>a DEF CompleteRead, ReleaseRead, Snapshot
    <2> QED
      BY ZenonT(60), <2>1, <2>2, QuietKInv
  <1>4. ASSUME NEW p \in Publishers,
               ClaimConflict(p) \/ Deliver(p) \/ DeliverFails(p) \/ CompleteConflict(p)
                   \/ ReleaseConflict(p) \/ Crash(p)
        PROVE  OneKeyPerStream' /\ DecidedOnOwnStream'
    <2>1. PICK s \in {"idle", "complete", "release"} : Goto(p, s)
      BY ZenonT(60), <1>4 DEF ClaimConflict, Deliver, DeliverFails, CompleteConflict, ReleaseConflict, Crash
    <2>2. UNCHANGED <<log, key, seen>>
      BY ZenonT(60), <1>4 DEF ClaimConflict, Deliver, DeliverFails, CompleteConflict, ReleaseConflict, Crash
    <2> QED
      BY ZenonT(60), <2>1, <2>2, QuietKInv DEF Steps
  <1>5. ASSUME NEW p \in Publishers, ClaimAppend(p) \/ CompleteAppend(p) \/ ReleaseAppend(p)
        PROVE  OneKeyPerStream' /\ DecidedOnOwnStream'
    <2>1. CASE seen[p] # Len(log)
      <3>1. PICK s \in {"reclaim", "confirm_receipt", "confirm_release"} : Goto(p, s)
        BY ZenonT(60), <1>5, <2>1 DEF ClaimAppend, CompleteAppend, ReleaseAppend
      <3>2. UNCHANGED <<log, key, seen>>
        BY ZenonT(60), <1>5, <2>1 DEF ClaimAppend, CompleteAppend, ReleaseAppend
      <3> QED
        BY ZenonT(60), <3>1, <3>2, QuietKInv DEF Steps
    <2>2. CASE seen[p] = Len(log)
      <3>1. ~Collides(key[p])
        BY ZenonT(60), <1>5, <2>2 DEF ClaimAppend, CompleteAppend, ReleaseAppend, KInv, DecidedOnOwnStream
      <3>2. PICK tag \in {"inflight", "completed", "tombstone"},
                 owner \in Publishers \cup {Nobody} : Put(p, tag, owner)
        <4>1. CASE CompleteAppend(p)
          <5>1. log # <<>>
            BY ZenonT(60), <2>2, <4>1, <1>a DEF CompleteAppend, KInv, SInv, SnapshotsHold
          <5>2. Latest \in Record
            BY SMTT(60), <5>1, <1>a DEF Latest
          <5> QED
            BY ZenonT(60), <2>2, <4>1, <5>2 DEF CompleteAppend, Record
        <4> QED
          BY ZenonT(60), <1>5, <2>2, <4>1 DEF ClaimAppend, ReleaseAppend
      <3> DEFINE e == [tag |-> tag, key |-> key[p], ts |-> stamp[p], owner |-> owner]
      <3>3. e \in Record /\ e.key = key[p] /\ log' = Append(log, e)
        BY SMTT(60), <3>2, <1>a DEF Record, Put
      <3>4. UNCHANGED seen
        BY ZenonT(60), <1>5 DEF ClaimAppend, CompleteAppend, ReleaseAppend
      <3> HIDE DEF e
      <3> QED
        BY ZenonT(60), <3>1, <3>3, <3>4, AppendKInv
    <2> QED
      BY ZenonT(60), <2>1, <2>2
  <1>6. ASSUME SweepTombstone, sweep.at = Len(log)
        PROVE  OneKeyPerStream' /\ DecidedOnOwnStream'
    <2> DEFINE e == [Latest EXCEPT !.tag = "tombstone", !.owner = Nobody]
    <2>1. log # <<>>
      BY ZenonT(60), <1>6, <1>a DEF SweepTombstone, KInv, SInv, SnapshotsHold
    <2>2. Len(log) \in 1..Len(log) /\ Latest \in Record
      BY SMTT(60), <2>1, <1>a DEF Latest
    <2>3. e \in Record /\ e.key = Latest.key /\ log' = Append(log, e)
      BY ZenonT(60), <1>6, <2>2 DEF Record, SweepTombstone
    <2>4. ~Collides(Latest.key)
      BY ZenonT(60), <2>2 DEF KInv, OneKeyPerStream, Collides, Latest
    <2>5. UNCHANGED seen
      BY ZenonT(60), <1>6 DEF SweepTombstone
    <2> HIDE DEF e
    <2> QED
      BY ZenonT(60), <2>3, <2>4, <2>5, AppendKInv
  <1>7. ASSUME UNCHANGED <<log, pc, key, seen>>
        PROVE  OneKeyPerStream' /\ DecidedOnOwnStream'
    BY ZenonT(60), <1>7 DEF KInv, OneKeyPerStream, DecidedOnOwnStream, Collides
  <1>8. OneKeyPerStream' /\ DecidedOnOwnStream'
    BY ZenonT(60), <1>2, <1>3, <1>4, <1>5, <1>6, <1>7
    DEF Next, PublisherStep, SweepScan, SweepTombstone, Tick, vars
  <1> QED
    BY ZenonT(60), <1>1, <1>8 DEF KInv

(* Keys whose hashes collide never interleave their records, sweeper or    *)
(* not: the first one to append owns the stream (load_snapshot's           *)
(* DedupCollision).                                                        *)
THEOREM StreamBelongsToOneKey == Spec => []OneKeyPerStream
  <1>1. Init => KInv
    <2> SUFFICES ASSUME Init PROVE KInv
      BY ZenonT(60)
    <2>1. SInv
      BY ZenonT(60), InitTypeOK DEF Init, SInv, SnapshotsHold
    <2>2. OneKeyPerStream
      BY SMTT(60), InitTypeOK DEF OneKeyPerStream
    <2>3. DecidedOnOwnStream
      BY ZenonT(60) DEF Init, DecidedOnOwnStream
    <2> QED
      BY ZenonT(60), <2>1, <2>2, <2>3 DEF KInv
  <1>2. KInv => OneKeyPerStream
    BY ZenonT(60) DEF KInv
  <1> QED
    BY <1>1, <1>2, StepKInv, PTL DEF Spec
=============================================================================
