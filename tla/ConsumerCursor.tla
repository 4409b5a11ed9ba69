--------------------------- MODULE ConsumerCursor ---------------------------
(***************************************************************************)
(* A consumer's durable read position on one channel partition             *)
(* (crates/liminal/src/durability/cursor.rs) over the compare-and-swap     *)
(* value of the store (crates/liminal/src/durability/store.rs).            *)
(*                                                                         *)
(* Several handles (a restarted process and the instance it replaces) may  *)
(* hold a ConsumerCursor and a CheckpointDriver for the same consumer and  *)
(* partition.  A handle owns its cursor and driver exclusively (&mut), so  *)
(* the CAS inside a checkpoint is the only step another handle can         *)
(* interfere with, and each driver call is one action.                     *)
(***************************************************************************)
EXTENDS Naturals

CONSTANTS Handles,      \* holders of a cursor for this consumer and partition
          BatchSize,    \* checkpoint policy: 1 is PerMessage, n PerBatch(n),
                        \* 0 ExplicitFlush
          MaxOffset,    \* bound: messages published on the partition
          MaxErrors,    \* bound: store errors a handle meets between checkpoints
          None          \* no pending offset

ASSUME HandlesAssumption == Handles # {}
ASSUME BatchSizeAssumption == BatchSize \in Nat
ASSUME MaxOffsetAssumption == MaxOffset \in Nat
ASSUME MaxErrorsAssumption == MaxErrors \in Nat
ASSUME NoneAssumption == None \notin Nat

VARIABLES stored,       \* the CAS value; 0 is an absent key
          live,         \* handles whose process is running
          current,      \* [Handles -> offset]  ConsumerCursor.current_offset
          since,        \* messages_since_last_checkpoint
          pending,      \* pending_offset, None when nothing waits
          errors,       \* history: store errors since the last successful checkpoint
          processed     \* history: offsets some handle has processed

vars == <<stored, live, current, since, pending, errors, processed>>

Offsets == 0..MaxOffset

TypeOK ==
    /\ stored \in Offsets
    /\ live \subseteq Handles
    /\ current \in [Handles -> Offsets]
    /\ since \in [Handles -> Nat]
    /\ pending \in [Handles -> Offsets \cup {None}]
    /\ errors \in [Handles -> Nat]
    /\ processed \subseteq Offsets

Init ==
    /\ stored = 0
    /\ live = {}
    /\ current = [h \in Handles |-> 0]
    /\ since = [h \in Handles |-> 0]
    /\ pending = [h \in Handles |-> None]
    /\ errors = [h \in Handles |-> 0]
    /\ processed = {}

(* The next message a handle reads: after what it last processed.          *)
NextRead(h) == IF pending[h] = None THEN current[h] ELSE pending[h]

(* The store writes nothing for a target of 0 and only asserts that the    *)
(* key is absent; otherwise an old value of 0 expects an absent key.       *)
CasSucceeds(old, new) == IF new = 0 THEN stored = 0 ELSE stored = old

(* ConsumerCursor::resume, with a fresh CheckpointDriver.                  *)
Resume(h) ==
    /\ h \notin live
    /\ live' = live \cup {h}
    /\ current' = [current EXCEPT ![h] = stored]
    /\ since' = [since EXCEPT ![h] = 0]
    /\ pending' = [pending EXCEPT ![h] = None]
    /\ errors' = [errors EXCEPT ![h] = 0]
    /\ UNCHANGED <<stored, processed>>

CheckpointOneFurther(h, next, n) ==
    /\ stored' = next + 1
    /\ current' = [current EXCEPT ![h] = next + 1]
    /\ since' = [since EXCEPT ![h] = 0]
    /\ pending' = [pending EXCEPT ![h] = None]
    /\ errors' = [errors EXCEPT ![h] = 0]

(* A checkpoint that returns an error leaves the cursor, the count and the *)
(* pending offset in place; the handle goes on and the next one retries.   *)
KeepPending(h, next, n) ==
    /\ since' = [since EXCEPT ![h] = n]
    /\ pending' = [pending EXCEPT ![h] = next]
    /\ UNCHANGED current

(* checkpoint_pending for a driver whose pending offset is next and whose  *)
(* count is n: the CAS succeeds; a regression or a stale expected value is *)
(* refused; or the store fails, and its write may have landed or not.      *)
CheckpointPending(h, next, n) ==
    LET wins == next >= current[h] /\ CasSucceeds(current[h], next)
    IN  \/ /\ wins
           /\ stored' = next
           /\ current' = [current EXCEPT ![h] = next]
           /\ since' = [since EXCEPT ![h] = 0]
           /\ pending' = [pending EXCEPT ![h] = None]
           /\ errors' = [errors EXCEPT ![h] = 0]
        \/ /\ ~wins
           /\ KeepPending(h, next, n)
           /\ UNCHANGED <<stored, errors>>
        \/ /\ errors[h] < MaxErrors
           /\ errors' = [errors EXCEPT ![h] = @ + 1]
           /\ stored' \in IF wins THEN {stored, next} ELSE {stored}
           /\ KeepPending(h, next, n)

BatchFullLate(n) == BatchSize > 0 /\ n > BatchSize

(* The policy match of record_processed: whether this message is           *)
(* checkpointed.                                                           *)
BatchFull(n) == BatchSize > 0 /\ n >= BatchSize

(* record_processed after the handle's own processing of the message it    *)
(* read: the offset to resume from is the one after it.                    *)
RecordProcessed(h) ==
    LET o == NextRead(h)
        n == since[h] + 1
    IN  /\ h \in live
        /\ o < MaxOffset
        /\ processed' = processed \cup {o}
        /\ IF BatchFull(n)
           THEN CheckpointPending(h, o + 1, n)
           ELSE /\ since' = [since EXCEPT ![h] = n]
                /\ pending' = [pending EXCEPT ![h] = o + 1]
                /\ UNCHANGED <<stored, current, errors>>
        /\ UNCHANGED live

(* flush: nothing to do without a pending offset.                          *)
Flush(h) ==
    /\ h \in live
    /\ pending[h] # None
    /\ CheckpointPending(h, pending[h], since[h])
    /\ UNCHANGED <<live, processed>>

(* The handle's process dies; its cursor and driver are gone.              *)
Crash(h) ==
    /\ h \in live
    /\ live' = live \ {h}
    /\ UNCHANGED <<stored, current, since, pending, errors, processed>>

Next == \E h \in Handles : Resume(h) \/ RecordProcessed(h) \/ Flush(h) \/ Crash(h)

Spec == Init /\ [][Next]_vars

-----------------------------------------------------------------------------
(* The persisted position never passes a message no handle processed: a    *)
(* resume at it skips nothing.                                             *)
NothingSkipped == \A o \in Offsets : o < stored => o \in processed

(* What a crash makes the consumer process again is bounded: a running     *)
(* handle that has not been overtaken (it is not behind the stored offset) *)
(* has less than a batch unpersisted, plus one message for each store error*)
(* since its last checkpoint, because a full batch is written again with   *)
(* every further message (record_processed, checkpoint_pending).           *)
RedeliveryBounded ==
    BatchSize > 0 =>
        \A h \in live : since[h] >= BatchSize + errors[h] => current[h] < stored

(* What a resume of this consumer replays after a crash of an unfenced     *)
(* handle is exactly what that handle counts as unpersisted.               *)
CountsUnpersisted ==
    \A h \in live :
        /\ pending[h] = None => since[h] = 0
        /\ pending[h] # None => since[h] > 0 /\ pending[h] = current[h] + since[h]

(* A running handle has processed, or resumed past, everything before the  *)
(* message it reads next, and its cursor never runs ahead of the store.    *)
HandleBacked ==
    \A h \in live :
        /\ current[h] <= stored
        /\ \A o \in Offsets : o < NextRead(h) => o \in processed

(* The conjunction that is inductive: a checkpoint moves stored to a       *)
(* handle's read position, so that position must itself be backed.         *)
IInv ==
    /\ TypeOK
    /\ NothingSkipped
    /\ RedeliveryBounded
    /\ CountsUnpersisted
    /\ HandleBacked

(* The persisted position only moves forward, whichever handle writes it.  *)
StoredMonotonic == [][stored' >= stored]_vars

=============================================================================
