------------------------ MODULE ConsumerCursorProofs ------------------------
(***************************************************************************)
(* Safety of the consumer cursor for any number of handles, any checkpoint *)
(* policy and any partition length.                                        *)
(***************************************************************************)
EXTENDS ConsumerCursor, TLAPS

USE HandlesAssumption, BatchSizeAssumption, MaxOffsetAssumption, MaxErrorsAssumption, NoneAssumption

(* No cursor exists before the first resume, and nothing is stored.        *)
LEMMA InitIInv == Init => IInv
  BY SMTT(60) DEF Init, IInv, TypeOK, NothingSkipped, RedeliveryBounded,
         CountsUnpersisted, HandleBacked, Offsets

(* A driver with a pending offset checkpoints it, or keeps it: what        *)
(* record_processed and flush share.                                       *)
LEMMA CheckpointPreserves ==
  ASSUME NEW h \in live, NEW next \in Offsets, NEW n \in Nat \ {0},
         IInv, live' = live,
         next = current[h] + n, n = since[h] \/ n = since[h] + 1,
         processed' \subseteq Offsets, processed \subseteq processed',
         \A o \in Offsets : o < next => o \in processed',
         CheckpointPending(h, next, n)
  PROVE  IInv'
<1>1. /\ TypeOK /\ h \in Handles /\ next > current[h] /\ next # 0
      /\ current[h] \in Nat /\ current[h] <= stored
  BY SMTT(60) DEF IInv, TypeOK, HandleBacked, Offsets
<1> DEFINE wins == next >= current[h] /\ CasSucceeds(current[h], next)
<1>2. CASE /\ wins
           /\ stored' = next
           /\ current' = [current EXCEPT ![h] = next]
           /\ since' = [since EXCEPT ![h] = 0]
           /\ pending' = [pending EXCEPT ![h] = None]
           /\ errors' = [errors EXCEPT ![h] = 0]
  <2>1. stored = current[h]
    BY ZenonT(60), <1>1, <1>2 DEF CasSucceeds
  <2>2. TypeOK'
    BY ZenonT(60), <1>1, <1>2 DEF TypeOK, Offsets
  <2>3. NothingSkipped'
    BY ZenonT(60), <1>2 DEF NothingSkipped
  <2>4. RedeliveryBounded'
    BY SMTT(60), <1>1, <1>2, <2>1 DEF RedeliveryBounded, IInv, TypeOK, Offsets, HandleBacked
  <2>5. CountsUnpersisted'
    BY ZenonT(60), <1>1, <1>2 DEF CountsUnpersisted, IInv, TypeOK, Offsets
  <2>6. HandleBacked'
    BY SMTT(60), <1>1, <1>2, <2>1 DEF HandleBacked, NextRead, IInv, TypeOK, Offsets
  <2> QED BY ZenonT(60), <2>2, <2>3, <2>4, <2>5, <2>6 DEF IInv
<1>3. CASE /\ KeepPending(h, next, n)
           /\ stored' \in {stored, next} /\ (stored' = next => stored = current[h] \/ stored = next)
           /\ errors' \in [Handles -> Nat] /\ \A g \in Handles : errors'[g] >= errors[g]
           /\ errors'[h] > errors[h] \/ current[h] < stored
  <2>1. /\ since' = [since EXCEPT ![h] = n]
        /\ pending' = [pending EXCEPT ![h] = next]
        /\ current' = current
    BY ZenonT(60), <1>3 DEF KeepPending
  <2>2. TypeOK'
    BY ZenonT(60), <1>1, <1>3, <2>1 DEF TypeOK, Offsets
  <2>3. NothingSkipped'
    BY ZenonT(60), <1>3, <2>1 DEF NothingSkipped, IInv
  <2>4. stored' >= stored /\ stored' \in Nat /\ stored \in Nat
    BY SMTT(60), <1>1, <1>3 DEF TypeOK, Offsets
  <2>5. RedeliveryBounded'
    <3> SUFFICES ASSUME BatchSize > 0, NEW g \in live, since'[g] >= BatchSize + errors'[g]
                 PROVE  current'[g] < stored'
      BY ZenonT(60) DEF RedeliveryBounded
    <3>1. g \in Handles /\ errors[g] \in Nat /\ errors'[g] \in Nat /\ errors'[g] >= errors[g]
          /\ since[g] \in Nat /\ current[g] \in Nat
      BY SMTT(60), <1>1, <1>3 DEF TypeOK, Offsets
    <3>2. CASE g # h
      BY SMTT(60), <1>1, <2>1, <2>4, <3>1, <3>2 DEF RedeliveryBounded, IInv, TypeOK
    <3>3. CASE g = h
      <4>1. since'[h] = n /\ since[h] \in Nat
        BY ZenonT(60), <1>1, <2>1 DEF TypeOK
      <4>2. since[h] >= BatchSize + errors[h] \/ current[h] < stored
        BY SMTT(60), <1>3, <3>1, <3>3, <4>1
      <4>3. current[h] < stored
        BY ZenonT(60), <4>2 DEF RedeliveryBounded, IInv
      <4> QED BY SMTT(60), <2>1, <2>4, <3>1, <3>3, <4>3
    <3> QED BY ZenonT(60), <3>2, <3>3
  <2>6. CountsUnpersisted'
    BY SMTT(60), <1>1, <2>1 DEF CountsUnpersisted, IInv, TypeOK, Offsets
  <2>7. HandleBacked'
    BY SMTT(60), <1>1, <2>1, <2>4 DEF HandleBacked, NextRead, IInv, TypeOK, Offsets
  <2> QED BY ZenonT(60), <2>2, <2>3, <2>5, <2>6, <2>7 DEF IInv
<1>4. CASE ~wins /\ KeepPending(h, next, n) /\ stored' = stored /\ errors' = errors
  <2>1. current[h] < stored
    BY SMTT(60), <1>1, <1>4 DEF CasSucceeds, TypeOK, Offsets
  <2>2. errors' \in [Handles -> Nat] /\ \A g \in Handles : errors'[g] >= errors[g]
    BY SMTT(60), <1>1, <1>4 DEF TypeOK
  <2>3. stored' = next => stored = next
    BY ZenonT(60), <1>4
  <2> QED BY ZenonT(60), <1>3, <1>4, <2>1, <2>2, <2>3
<1>5. CASE /\ errors' = [errors EXCEPT ![h] = @ + 1]
           /\ stored' \in IF wins THEN {stored, next} ELSE {stored}
           /\ KeepPending(h, next, n)
  <2>1. /\ errors' \in [Handles -> Nat] /\ \A g \in Handles : errors'[g] >= errors[g]
        /\ errors'[h] > errors[h]
    BY SMTT(60), <1>1, <1>5 DEF TypeOK
  <2>2. stored' \in {stored, next} /\ (stored' = next => stored = current[h] \/ stored = next)
    BY ZenonT(60), <1>1, <1>5 DEF CasSucceeds
  <2> QED BY ZenonT(60), <1>3, <1>5, <2>1, <2>2
<1> QED BY ZenonT(60), <1>2, <1>4, <1>5 DEF CheckpointPending

(* Every step of a handle keeps the invariant.                             *)
LEMMA StepIInv == IInv /\ [Next]_vars => IInv'
<1> SUFFICES ASSUME IInv, [Next]_vars PROVE IInv'
  BY ZenonT(60)
<1>1. CASE UNCHANGED vars
  BY ZenonT(60), <1>1 DEF vars, IInv, TypeOK, NothingSkipped, RedeliveryBounded,
              CountsUnpersisted, HandleBacked, NextRead
<1>2. ASSUME NEW h \in Handles, Resume(h) PROVE IInv'
  <2> USE <1>2 DEF Resume, IInv
  <2>1. TypeOK'
    BY ZenonT(60) DEF TypeOK, Offsets
  <2>2. NothingSkipped'
    BY ZenonT(60) DEF NothingSkipped
  <2>3. RedeliveryBounded'
    BY SMTT(60) DEF RedeliveryBounded, TypeOK
  <2>4. CountsUnpersisted'
    BY ZenonT(60) DEF CountsUnpersisted, TypeOK
  <2>5. HandleBacked'
    BY SMTT(60) DEF HandleBacked, NextRead, TypeOK, NothingSkipped, Offsets
  <2> QED BY ZenonT(60), <2>1, <2>2, <2>3, <2>4, <2>5
<1>3. ASSUME NEW h \in Handles, RecordProcessed(h) PROVE IInv'
  <2> DEFINE o == NextRead(h)
             n == since[h] + 1
  <2>1. /\ h \in live /\ o \in Nat /\ o < MaxOffset /\ n \in Nat \ {0}
        /\ o + 1 = current[h] + n /\ o \in Offsets /\ o + 1 \in Offsets
        /\ processed' = processed \cup {o} /\ live' = live
    BY SMTT(60), <1>3 DEF RecordProcessed, NextRead, IInv, TypeOK, CountsUnpersisted, Offsets
  <2>2. \A p \in Offsets : p < o + 1 => p \in processed'
    BY SMTT(60), <2>1 DEF IInv, HandleBacked, Offsets
  <2>3. processed' \subseteq Offsets /\ processed \subseteq processed'
    BY ZenonT(60), <2>1 DEF IInv, TypeOK
  <2>4. CASE BatchFull(n)
    <3>1. CheckpointPending(h, o + 1, n)
      BY ZenonT(60), <1>3, <2>4 DEF RecordProcessed
    <3> QED BY ZenonT(60), <2>1, <2>2, <2>3, <3>1, CheckpointPreserves
  <2>5. CASE ~BatchFull(n)
    <3>1. /\ since' = [since EXCEPT ![h] = n]
          /\ pending' = [pending EXCEPT ![h] = o + 1]
          /\ stored' = stored /\ current' = current /\ errors' = errors
      BY ZenonT(60), <1>3, <2>5 DEF RecordProcessed
    <3> HIDE DEF o, n
    <3>2. TypeOK'
      BY ZenonT(60), <2>1, <2>3, <3>1 DEF IInv, TypeOK, Offsets
    <3>3. NothingSkipped'
      BY ZenonT(60), <2>3, <3>1 DEF IInv, NothingSkipped
    <3>4. RedeliveryBounded'
      BY SMTT(60), <2>1, <2>5, <3>1 DEF IInv, RedeliveryBounded, BatchFull, TypeOK
    <3>5. CountsUnpersisted'
      BY SMTT(60), <2>1, <3>1 DEF IInv, CountsUnpersisted, TypeOK, Offsets
    <3>6. HandleBacked'
      BY SMTT(60), <2>1, <2>2, <2>3, <3>1 DEF IInv, HandleBacked, NextRead, TypeOK, Offsets
    <3> QED BY ZenonT(60), <3>2, <3>3, <3>4, <3>5, <3>6 DEF IInv
  <2> QED BY ZenonT(60), <2>4, <2>5
<1>4. ASSUME NEW h \in Handles, Flush(h) PROVE IInv'
  <2>1. /\ h \in live /\ pending[h] \in Offsets /\ since[h] \in Nat
        /\ pending[h] = current[h] + since[h]
        /\ live' = live /\ processed' = processed
        /\ CheckpointPending(h, pending[h], since[h])
    BY ZenonT(60), <1>4 DEF Flush, IInv, TypeOK, CountsUnpersisted
  <2>2. \A p \in Offsets : p < pending[h] => p \in processed'
    BY ZenonT(60), <1>4, <2>1 DEF Flush, IInv, HandleBacked, NextRead
  <2>3. since[h] # 0
    BY SMTT(60), <1>4, <2>1 DEF Flush, IInv, CountsUnpersisted
  <2> QED BY ZenonT(60), <2>1, <2>2, <2>3, CheckpointPreserves DEF IInv, TypeOK
<1>5. ASSUME NEW h \in Handles, Crash(h) PROVE IInv'
  BY ZenonT(60), <1>5 DEF Crash, IInv, TypeOK, NothingSkipped, RedeliveryBounded,
              CountsUnpersisted, HandleBacked, NextRead
<1> QED BY ZenonT(60), <1>1, <1>2, <1>3, <1>4, <1>5 DEF Next

(* The inductive invariant holds in every reachable state.                 *)
THEOREM CursorInvariant == Spec => []IInv
  BY InitIInv, StepIInv, PTL DEF Spec

(* Whatever the checkpoint policy and however many stale handles race on   *)
(* the CAS value, resuming at the persisted offset skips no message.       *)
THEOREM NoMessageSkipped == Spec => []NothingSkipped
<1>1. IInv => NothingSkipped
  BY ZenonT(60) DEF IInv
<1> QED BY <1>1, CursorInvariant, PTL

(* For every batch size, however many writes the store fails and whether   *)
(* or not they landed: a handle that has not been overtaken would have the *)
(* consumer process again less than a batch, plus one message for each     *)
(* store error since its last checkpoint.                                  *)
THEOREM BatchBoundsRedelivery == Spec => []RedeliveryBounded
<1>1. IInv => RedeliveryBounded
  BY ZenonT(60) DEF IInv
<1> QED BY <1>1, CursorInvariant, PTL

(* No checkpoint, of a fresh or of a stale handle, moves the persisted     *)
(* position back.                                                          *)
THEOREM PositionNeverRegresses == Spec => StoredMonotonic
<1>1. IInv /\ [Next]_vars => [stored' >= stored]_vars
  <2> SUFFICES ASSUME IInv, Next PROVE stored' >= stored
    BY ZenonT(60) DEF vars
  <2>0. stored \in Nat
    BY SMTT(60) DEF IInv, TypeOK, Offsets
  <2>1. ASSUME NEW h \in Handles, NEW next, NEW n, h \in live, next \in Nat,
               CheckpointPending(h, next, n)
        PROVE  stored' >= stored
    BY SMTT(60), <2>0, <2>1 DEF CheckpointPending, KeepPending, CasSucceeds, IInv, TypeOK, Offsets
  <2>2. PICK h \in Handles : Resume(h) \/ RecordProcessed(h) \/ Flush(h) \/ Crash(h)
    BY ZenonT(60) DEF Next
  <2>3. CASE Resume(h) \/ Crash(h)
    BY SMTT(60), <2>0, <2>3 DEF Resume, Crash
  <2>4. CASE RecordProcessed(h)
    <3>1. h \in live /\ NextRead(h) + 1 \in Nat
      BY SMTT(60), <2>4 DEF RecordProcessed, NextRead, IInv, TypeOK, Offsets
    <3> QED BY SMTT(60), <2>0, <2>1, <2>4, <3>1 DEF RecordProcessed
  <2>5. CASE Flush(h)
    BY SMTT(60), <2>1, <2>5 DEF Flush, IInv, TypeOK, Offsets
  <2> QED BY ZenonT(60), <2>2, <2>3, <2>4, <2>5
<1> QED BY <1>1, CursorInvariant, PTL DEF Spec, StoredMonotonic

=============================================================================
