----------------------------- MODULE DedupCache -----------------------------
(***************************************************************************)
(* The idempotency-key cache (crates/liminal/src/durability/dedup.rs), its *)
(* TTL sweeper (dedup/sweep.rs) and the publish handler that drives it     *)
(* (liminal-server connection/services.rs).                                *)
(*                                                                         *)
(* The log below is one stream of the durable store: the records of every  *)
(* key that hashes to it.  Each cache operation reads the stream, decides, *)
(* and appends at the sequence it read; the store refuses the append when  *)
(* the stream has moved.  Read and append are separate steps, so publishers*)
(* and the sweeper interleave between them.                                *)
(***************************************************************************)
EXTENDS Naturals, Sequences

CONSTANTS Publishers,   \* threads running a publish with an idempotency key
          Keys,         \* idempotency keys that share one hashed stream
          Ttl,          \* entry lifetime, clock-skew grace included
          MaxTime,      \* bound: clock ticks
          MaxLog,       \* bound: records in the stream
          Nobody        \* owner of a record no claim made

ASSUME TtlAssumption == Ttl \in Nat
ASSUME BoundsAssumption == MaxTime \in Nat /\ MaxLog \in Nat
ASSUME NobodyAssumption == Nobody \notin Publishers

VARIABLES log,        \* the stream
          pc,         \* [Publishers -> step of its publish]
          key,        \* [Publishers -> key being published]
          seen,       \* [Publishers -> next_seq of its snapshot]
          stamp,      \* [Publishers -> timestamp taken before the snapshot]
          sweep,      \* the sweeper: whether one runs, and the candidate it scanned
          now,        \* clock
          delivered   \* [Keys -> publishes of the key that reported a fan-out]

vars == <<log, pc, key, seen, stamp, sweep, now, delivered>>

(* A record is active without a receipt (in flight), active with one       *)
(* (completed) or a tombstone.  The owner is history: whose claim the      *)
(* record belongs to; the code stores no such token.                       *)
Record == [tag : {"inflight", "completed", "tombstone"}, key : Keys,
           ts : Nat, owner : Publishers \cup {Nobody}]

Steps == {"idle", "claim", "reclaim", "deliver",
          "complete", "append_receipt", "confirm_receipt",
          "release", "append_tombstone", "confirm_release"}

TypeOK ==
    /\ log \in Seq(Record)
    /\ pc \in [Publishers -> Steps]
    /\ key \in [Publishers -> Keys]
    /\ Len(log) <= MaxLog
    /\ seen \in [Publishers -> 0..Len(log)]
    /\ stamp \in [Publishers -> 0..now]
    /\ sweep \in [on : BOOLEAN, scanned : BOOLEAN, at : 0..Len(log)]
    /\ now \in 0..MaxTime
    /\ delivered \in [Keys -> Nat]

Init ==
    /\ log = <<>>
    /\ pc = [p \in Publishers |-> "idle"]
    /\ key \in [Publishers -> Keys]
    /\ seen = [p \in Publishers |-> 0]
    /\ stamp = [p \in Publishers |-> 0]
    /\ \E on \in BOOLEAN : sweep = [on |-> on, scanned |-> FALSE, at |-> 0]
    /\ now = 0
    /\ delivered = [k \in Keys |-> 0]

-----------------------------------------------------------------------------
(* load_snapshot: the stream must hold this key only; the last record that *)
(* is not a tombstone is current.                                          *)
Collides(k) == \E i \in 1..Len(log) : log[i].key # k
Latest == log[Len(log)]
Empty == log = <<>> \/ Latest.tag = "tombstone"
InFlight == log # <<>> /\ Latest.tag = "inflight"
Completed == log # <<>> /\ Latest.tag = "completed"

Goto(p, step) == pc' = [pc EXCEPT ![p] = step]
Snapshot(p) ==
    /\ seen' = [seen EXCEPT ![p] = Len(log)]
    /\ stamp' = [stamp EXCEPT ![p] = now]
Put(p, tag, owner) ==
    log' = Append(log, [tag |-> tag, key |-> key[p], ts |-> stamp[p], owner |-> owner])

(* claim_or_get, first read: a duplicate is suppressed, a colliding key is *)
(* an error; both end the publish.  A free key goes on to the append.      *)
ClaimRead(p, k) ==
    /\ pc[p] = "idle"
    /\ key' = [key EXCEPT ![p] = k]
    /\ Snapshot(p)
    /\ Goto(p, IF ~Collides(k) /\ Empty THEN "claim" ELSE "idle")
    /\ UNCHANGED <<log, sweep, now, delivered>>

(* claim_or_get, append at the sequence read; a conflict re-reads.         *)
ClaimAppend(p) ==
    /\ pc[p] = "claim"
    /\ IF seen[p] = Len(log)
       THEN /\ Len(log) < MaxLog
            /\ Put(p, "inflight", p)
            /\ Goto(p, "deliver")
       ELSE /\ Goto(p, "reclaim")
            /\ UNCHANGED log
    /\ UNCHANGED <<key, seen, stamp, sweep, now, delivered>>

ClaimConflictReleases(p) ==
    /\ pc[p] = "reclaim"
    /\ Goto(p, "release")
    /\ UNCHANGED <<log, key, seen, stamp, sweep, now, delivered>>

(* decision_after_conflict: the duplicate's decision or the conflict       *)
(* error; either way this publish does not deliver.                        *)
ClaimConflict(p) ==
    /\ pc[p] = "reclaim"
    /\ Goto(p, "idle")
    /\ UNCHANGED <<log, key, seen, stamp, sweep, now, delivered>>

DeliverThenRelease(p) ==
    /\ pc[p] = "deliver"
    /\ delivered' = [delivered EXCEPT ![key[p]] = @ + 1]
    /\ Goto(p, "release")
    /\ UNCHANGED <<log, key, seen, stamp, sweep, now>>

(* publish_with_delivery under the claim reports success: the message has  *)
(* reached the subscribers once more.                                      *)
Deliver(p) ==
    /\ pc[p] = "deliver"
    /\ delivered' = [delivered EXCEPT ![key[p]] = @ + 1]
    /\ Goto(p, "complete")
    /\ UNCHANGED <<log, key, seen, stamp, sweep, now>>

(* publish_with_delivery reports an error and the claim is released.       *)
(* The message may have reached subscribers all the same (ChannelActor):   *)
(* only reported fan-outs are counted here.                                *)
DeliverFails(p) ==
    /\ pc[p] = "deliver"
    /\ Goto(p, "release")
    /\ UNCHANGED <<log, key, seen, stamp, sweep, now, delivered>>

(* complete_receipt, first read: an absent or colliding key is an error,   *)
(* the same (empty) receipt already stored is a success.                   *)
CompleteRead(p) ==
    /\ pc[p] = "complete"
    /\ Snapshot(p)
    /\ Goto(p, IF ~Collides(key[p]) /\ InFlight THEN "append_receipt" ELSE "idle")
    /\ UNCHANGED <<log, key, sweep, now, delivered>>

CompleteAppend(p) ==
    /\ pc[p] = "append_receipt"
    /\ IF seen[p] = Len(log)
       THEN /\ Len(log) < MaxLog
            /\ Put(p, "completed", Latest.owner)
            /\ Goto(p, "idle")
       ELSE /\ Goto(p, "confirm_receipt")
            /\ UNCHANGED log
    /\ UNCHANGED <<key, seen, stamp, sweep, now, delivered>>

(* confirm_matching_receipt: a report to the caller, no change.            *)
CompleteConflict(p) ==
    /\ pc[p] = "confirm_receipt"
    /\ Goto(p, "idle")
    /\ UNCHANGED <<log, key, seen, stamp, sweep, now, delivered>>

(* release_claim, first read: only an entry in flight is released.         *)
ReleaseRead(p) ==
    /\ pc[p] = "release"
    /\ Snapshot(p)
    /\ Goto(p, IF ~Collides(key[p]) /\ InFlight THEN "append_tombstone" ELSE "idle")
    /\ UNCHANGED <<log, key, sweep, now, delivered>>

ReleaseAppend(p) ==
    /\ pc[p] = "append_tombstone"
    /\ IF seen[p] = Len(log)
       THEN /\ Len(log) < MaxLog
            /\ Put(p, "tombstone", Nobody)
            /\ Goto(p, "idle")
       ELSE /\ Goto(p, "confirm_release")
            /\ UNCHANGED log
    /\ UNCHANGED <<key, seen, stamp, sweep, now, delivered>>

(* confirm_release_after_conflict: success or error, the failure is logged *)
(* by the publish handler; no change.                                      *)
ReleaseConflict(p) ==
    /\ pc[p] = "confirm_release"
    /\ Goto(p, "idle")
    /\ UNCHANGED <<log, key, seen, stamp, sweep, now, delivered>>

(* A publisher's process dies; a claim it holds stays in flight.           *)
Crash(p) ==
    /\ pc[p] # "idle"
    /\ Goto(p, "idle")
    /\ UNCHANGED <<log, key, seen, stamp, sweep, now, delivered>>

-----------------------------------------------------------------------------
(* Whoever embeds the cache may call sweep_once; nothing in the server     *)
(* does, so no fairness is assumed of it.                                  *)
Sweeping == sweep.on
Expired(r) == now > r.ts + Ttl

(* sweep_once, scan: the latest record of the stream is a candidate when   *)
(* it is active and expired.                                               *)
SweepScan ==
    /\ Sweeping
    /\ ~sweep.scanned
    /\ ~Empty
    /\ Expired(Latest)
    /\ sweep' = [on |-> sweep.on, scanned |-> TRUE, at |-> Len(log)]
    /\ UNCHANGED <<log, pc, key, seen, stamp, now, delivered>>

SweepTombstoneBlind ==
    /\ sweep.scanned
    /\ Len(log) < MaxLog
    /\ log' = Append(log, [log[sweep.at] EXCEPT !.tag = "tombstone", !.owner = Nobody])
    /\ sweep' = [on |-> sweep.on, scanned |-> FALSE, at |-> 0]
    /\ UNCHANGED <<pc, key, seen, stamp, now, delivered>>

(* sweep_once, append after the scanned record; a conflict ends the sweep. *)
SweepTombstone ==
    /\ sweep.scanned
    /\ IF sweep.at = Len(log)
       THEN /\ Len(log) < MaxLog
            /\ log' = Append(log, [Latest EXCEPT !.tag = "tombstone", !.owner = Nobody])
       ELSE UNCHANGED log
    /\ sweep' = [on |-> sweep.on, scanned |-> FALSE, at |-> 0]
    /\ UNCHANGED <<pc, key, seen, stamp, now, delivered>>

Tick ==
    /\ now < MaxTime
    /\ now' = now + 1
    /\ UNCHANGED <<log, pc, key, seen, stamp, sweep, delivered>>

PublisherStep(p) ==
    \/ \E k \in Keys : ClaimRead(p, k)
    \/ ClaimAppend(p) \/ ClaimConflict(p)
    \/ Deliver(p) \/ DeliverFails(p)
    \/ CompleteRead(p) \/ CompleteAppend(p) \/ CompleteConflict(p)
    \/ ReleaseRead(p) \/ ReleaseAppend(p) \/ ReleaseConflict(p)
    \/ Crash(p)

Next == (\E p \in Publishers : PublisherStep(p)) \/ SweepScan \/ SweepTombstone \/ Tick

Spec == Init /\ [][Next]_vars

-----------------------------------------------------------------------------
(* Without a sweeper, at most one publish of a key reports a fan-out,      *)
(* however publishes, retries and crashes interleave (services.rs publish: *)
(* "at most once across re-publishes of the same key").                    *)
AtMostOnceDelivery == ~Sweeping => \A k \in Keys : delivered[k] <= 1

(* Colliding keys never share a stream: the append race at an empty stream *)
(* has one winner and the loser's key is refused (load_snapshot).          *)
OneKeyPerStream == \A i, j \in 1..Len(log) : log[i].key = log[j].key

(* The strengthening of AtMostOnceDelivery, for a stream no sweeper        *)
(* touches: a publisher between its claim and its receipt or release owns  *)
(* the entry in flight, and a fan-out is always backed by the entry that   *)
(* suppresses the next one.                                                *)
BeforeFanOut == {"deliver", "release", "append_tombstone"}
AfterFanOut == {"complete", "append_receipt"}

OwnerHolds ==
    \A p \in Publishers :
        /\ pc[p] \in BeforeFanOut \cup AfterFanOut =>
              InFlight /\ Latest.owner = p /\ Latest.key = key[p]
        /\ pc[p] = "claim" /\ seen[p] = Len(log) =>
              Empty /\ ~Collides(key[p])

FanOutBacked ==
    \A k \in Keys :
        delivered[k] # 0 =>
            /\ delivered[k] = 1
            /\ ~Empty /\ ~Collides(k)
            /\ InFlight => \A p \in Publishers : pc[p] \notin BeforeFanOut

IInv ==
    /\ TypeOK /\ OneKeyPerStream /\ OwnerHolds /\ FanOutBacked
    /\ ~sweep.on /\ ~sweep.scanned

(* With or without a sweeper: an operation that will append where it read  *)
(* has found its own key alone on the stream.                              *)
DecidedOnOwnStream ==
    \A p \in Publishers :
        pc[p] \in {"claim", "append_receipt", "append_tombstone"} /\ seen[p] = Len(log) =>
            ~Collides(key[p])

(* What a snapshot still says when the stream has not moved: the record    *)
(* under it is the one the operation decided on.                           *)
SnapshotsHold ==
    /\ \A p \in Publishers :
          /\ pc[p] \in {"append_receipt", "append_tombstone"} =>
                seen[p] # 0 /\ log[seen[p]].tag = "inflight"
          /\ pc[p] = "claim" => seen[p] = 0 \/ log[seen[p]].tag = "tombstone"
    /\ sweep.scanned =>
          sweep.on /\ sweep.at # 0 /\ Expired(log[sweep.at])

(* A stored receipt is replaced by nothing but the sweeper's tombstone, and*)
(* by that only once it has expired (release_claim "NEVER clobbers a       *)
(* stored receipt").                                                       *)
ReceiptNeverClobbered ==
    [][Completed /\ log' # log =>
          /\ log'[Len(log')].tag = "tombstone"
          /\ Sweeping /\ Expired(Latest)]_vars

(* Without a sweeper, a claim in flight is settled by the publish that made*)
(* it, with its own receipt or release, and by nobody else: a publish that *)
(* lost the race or died and was retried leaves it alone, so the claim of a*)
(* publish that died stays and its key is suppressed (claim_or_get,        *)
(* complete_receipt, release_claim).                                       *)
ClaimSettledByOwner ==
    [][~Sweeping /\ InFlight /\ log' # log =>
          /\ pc[Latest.owner] \in {"append_receipt", "append_tombstone"}
          /\ pc'[Latest.owner] = "idle"
          /\ log'[Len(log')].key = Latest.key]_vars
=============================================================================
