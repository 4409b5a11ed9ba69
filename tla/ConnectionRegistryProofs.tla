---------------------- MODULE ConnectionRegistryProofs ----------------------
(***************************************************************************)
(* The connection registry, proved for any number of connections, pushes   *)
(* and any limits: admissions are paired with releases, no reply slot is   *)
(* stranded, and what a push reports is true.  First the inductive         *)
(* invariant, RegistryInv; then the steps of the exit funnel, the spawn     *)
(* threads, the connection processes, the callers, the reactor and the     *)
(* shutdown thread; the theorems are last.                                 *)
(***************************************************************************)
EXTENDS ConnectionRegistry, FiniteSetTheorems, TLAPS

Busy(a) == funnel[a].step # "idle"

(* A connection has ended when its process is in its last slice or dead, or  *)
(* when its record was taken: no record is ever put back.                  *)
Recorded == {"registered", "reclaiming", "converted"}
Ended(p) == pc[p] \in {"closing", "dead"} \/ (spawn[p] \in Recorded /\ p \notin records)

(* What the funnel is run for: a connection that has ended, except that the *)
(* supervisor's shutdown starts with a record whose process still runs.     *)
Owes(a) ==
    /\ funnel[a].pid \in Pids
    /\ \/ Ended(funnel[a].pid)
       \/ a = Host /\ funnel[a].step = "remove" /\ spawn[funnel[a].pid] \in Recorded

(* Who may be in the funnel, and for whom: a process in its last slice, a   *)
(* spawn thread reclaiming an orphan, the reactor, the shutdown.            *)
FunnelInv ==
    /\ \A p \in Pids : Busy(Process(p)) => pc[p] = "closing"
    /\ \A p \in Pids : Busy(Spawner(p)) => spawn[p] = "reclaiming"
    /\ \A a \in Actors : Busy(a) => Owes(a)
    /\ \A a \in Actors : funnel[a].step = "remove" => funnel[a].had = "none"
    /\ \A a \in Actors : funnel[a].step = "release" => funnel[a].had # "none"

(* A process exists once it was spawned, a record once it was registered,   *)
(* an exit event is about a dead process, and what the shutdown has still   *)
(* to finish was recorded.                                                 *)
LifeInv ==
    /\ \A p \in Pids : pc[p] = "none" <=> spawn[p] \in {"idle", "reserved", "failed"}
    /\ \A p \in records : spawn[p] \in {"registered", "reclaiming", "converted"}
    /\ \A i \in DOMAIN exits : pc[exits[i]] = "dead"
    /\ \A p \in scan : pc[p] # "none"
    /\ \A p \in finishing : spawn[p] \in Recorded

(* The places a push is at once its control was queued.                    *)
IsPublished(r) == r.pc \in {"wake", "unqueue", "await", "expire", "done"} /\ r.result # "err"
Published(c) == IsPublished(push[c])

(* A queued push is in its own connection's queue, once, and not taken.     *)
QueueInv ==
    /\ \A c \in popped : Published(c)
    /\ \A p \in Pids : \A i \in DOMAIN controls[p] :
          controls[p][i] # ForceClose =>
             /\ Published(controls[p][i]) /\ controls[p][i] \notin popped
             /\ push[controls[p][i]].pid = p
             /\ \A j \in DOMAIN controls[p] : controls[p][j] = controls[p][i] => i = j

(* Why a channel may have been closed.                                     *)
Cut(c) == Ended(push[c].pid) \/ c \in popped \ sent \/ push[c].result = "err"

(* A slot and its channel: the sender is held as long as the slot is there, *)
(* and whoever removes the slot of a waiting caller answers it.             *)
ChanOk(c) ==
    /\ push[c].pc = "idle" => c \notin slots /\ chan[c] = "empty"
    /\ push[c].pc # "idle" => push[c].pid \in Pids
    /\ push[c].pc # "done" => push[c].result = "none"
    /\ c \in slots => chan[c] = "empty"
    /\ push[c].pc \notin {"idle", "done"} /\ c \notin slots => chan[c] # "empty"
    /\ chan[c] = "closed" => Cut(c)
    /\ push[c].result = "expired" => c \notin slots /\ chan[c] = "empty"
    /\ push[c].result = "disconnected" => chan[c] = "closed"
    /\ push[c].result # "timeout"

ChanInv == \A c \in Pushes : ChanOk(c)

RegistryInv ==
    /\ TypeOK /\ FunnelInv /\ LifeInv /\ QueueInv /\ ChanInv
    /\ AdmissionsExact /\ NoStrandedSlot

(***************************************************************************)
(* TypeOK by groups of variables.                                          *)
(***************************************************************************)
FunnelSteps == {"idle", "remove", "sweep", "release", "signal", "fire"}
Funnels == [step : FunnelSteps, pid : Pids \cup {None}, had : {"none", "plain", "worker"}]
PushPlaces == {"idle", "confirm", "rollback", "queue", "wake", "unqueue", "cancel", "await",
               "expire", "done"}
PushResults == {"none", "err", "reply", "disconnected", "expired", "timeout"}
PushRecords == [pc : PushPlaces, pid : Pids \cup {None}, result : PushResults]

TypeSpawn ==
    /\ admissions \in 0..MaxConnections
    /\ spawn \in [Pids -> {"idle", "reserved", "spawned", "registered", "reclaiming", "converted", "failed"}]
    /\ records \subseteq Pids /\ registered \subseteq records
TypePc == pc \in [Pids -> {"none", "ready", "controls", "slice", "serving", "marking", "closing", "dead"}]
TypeFunnel == funnel \in [Actors -> Funnels]
TypePush ==
    /\ push \in [Pushes -> PushRecords] /\ slots \subseteq Pushes
    /\ due \subseteq Pushes /\ chan \in [Pushes -> {"empty", "reply", "closed"}]
TypeTaken == popped \subseteq Pushes /\ sent \subseteq popped
TypeControls == controls \in [Pids -> Seq(Pushes \cup {ForceClose})]
TypeMail ==
    /\ mail \subseteq Pids /\ workers \subseteq Pids /\ missed \subseteq Pids
    /\ closing \in [Pids -> {"idle", "wake", "unqueue", "done"}]
TypeExit ==
    /\ exits \in Seq(Pids) /\ Len(exits) <= ExitCap /\ lagged \in BOOLEAN
    /\ scan \subseteq Pids
TypeDrain ==
    /\ drain \in [pc : {"idle", "arm", "observe", "park", "parked", "drained", "expired"},
                  snapshot : Nat, due : BOOLEAN]
    /\ generation \in Nat /\ quota \in Quotas /\ finishing \subseteq Pids

Types == /\ TypeSpawn /\ TypePc /\ TypeFunnel /\ TypePush /\ TypeTaken /\ TypeControls
         /\ TypeMail /\ TypeExit /\ TypeDrain

LEMMA TypesAreTypeOK == TypeOK <=> Types
BY ZenonT(60) DEF TypeOK, Types, TypeSpawn, TypePc, TypeFunnel, TypePush, TypeTaken, TypeControls, TypeMail,
       TypeExit, TypeDrain, Funnels, FunnelSteps, PushRecords, PushPlaces, PushResults

LEMMA TypesAreTypeOKNext == TypeOK' <=> Types'
BY TypesAreTypeOK, PTL

(* The reservations still held by a spawn thread.                          *)
Held == {p \in Pids : spawn[p] \in {"reserved", "spawned"}}

LEMMA CountIs == AdmissionsExact <=>
    admissions = Cardinality(Held) + Cardinality(records) + Cardinality(Removing)
BY ZenonT(60) DEF AdmissionsExact, Held

LEMMA CountIsNext == AdmissionsExact' <=>
    admissions' = Cardinality(Held') + Cardinality(records') + Cardinality(Removing')
BY ZenonT(60) DEF AdmissionsExact, Held

Grouped ==
    /\ Types /\ FunnelInv /\ LifeInv /\ QueueInv /\ ChanInv
    /\ AdmissionsExact /\ NoStrandedSlot

LEMMA GroupedIs == RegistryInv <=> Grouped
BY ZenonT(60), TypesAreTypeOK DEF RegistryInv, Grouped

(***************************************************************************)
(* Actors, and the finiteness of what is counted.                          *)
(***************************************************************************)
LEMMA ActorFacts ==
    /\ \A p \in Pids : Process(p) \in Actors /\ Spawner(p) \in Actors
    /\ Reactor \in Actors /\ Host \in Actors
    /\ \A p, q \in Pids : Process(p) = Process(q) => p = q
    /\ \A p, q \in Pids : Spawner(p) = Spawner(q) => p = q
    /\ \A p, q \in Pids : Process(p) # Spawner(q)
    /\ \A p \in Pids : Process(p) # Reactor /\ Spawner(p) # Reactor
    /\ \A p \in Pids : Process(p) # Host /\ Spawner(p) # Host
BY ZenonT(60) DEF Actors, Process, Spawner, Reactor, Host

LEMMA FinitePids == IsFiniteSet(Pids)
BY SMTT(60), FS_Interval, BoundsAssumption DEF Pids

LEMMA FiniteActors == IsFiniteSet(Actors)
<1>1. IsFiniteSet({"process", "spawner"})
  <2>1. IsFiniteSet({"process"})
    BY ZenonT(60), FS_Singleton
  <2>2. {"process", "spawner"} = {"process"} \cup {"spawner"}
    BY ZenonT(60)
  <2> QED
    BY ZenonT(60), <2>1, <2>2, FS_AddElement
<1>2. IsFiniteSet({"process", "spawner"} \X Pids)
  BY ZenonT(60), <1>1, FinitePids, FS_Product
<1>3. IsFiniteSet(({"process", "spawner"} \X Pids) \cup {Reactor})
  BY ZenonT(60), <1>2, FS_AddElement
<1>4. Actors = (({"process", "spawner"} \X Pids) \cup {Reactor}) \cup {Host}
  BY ZenonT(60) DEF Actors
<1> QED
  BY ZenonT(60), <1>3, <1>4, FS_AddElement

LEMMA Counted ==
    ASSUME TypeSpawn
    PROVE  /\ IsFiniteSet(Held) /\ IsFiniteSet(records) /\ IsFiniteSet(Removing)
           /\ Cardinality(Held) \in Nat /\ Cardinality(records) \in Nat
           /\ Cardinality(Removing) \in Nat
<1>1. Held \subseteq Pids /\ records \subseteq Pids /\ Removing \subseteq Actors
  BY ZenonT(60) DEF Held, Removing, TypeSpawn
<1>2. IsFiniteSet(Held) /\ IsFiniteSet(records) /\ IsFiniteSet(Removing)
  BY ZenonT(60), <1>1, FinitePids, FiniteActors, FS_Subset
<1> QED
  BY ZenonT(60), <1>2, FS_CardinalityType

LEMMA CardAdd ==
    ASSUME NEW S, IsFiniteSet(S), NEW x, x \notin S
    PROVE  Cardinality(S \cup {x}) = Cardinality(S) + 1
BY ZenonT(60), FS_AddElement

LEMMA CardRemove ==
    ASSUME NEW S, IsFiniteSet(S), NEW x \in S
    PROVE  Cardinality(S \ {x}) = Cardinality(S) - 1 /\ Cardinality(S) >= 1
<1>1. Cardinality(S \ {x}) = Cardinality(S) - 1 /\ IsFiniteSet(S \ {x})
  BY ZenonT(60), FS_RemoveElement
<1>2. Cardinality(S \ {x}) \in Nat /\ Cardinality(S) \in Nat
  BY ZenonT(60), <1>1, FS_CardinalityType
<1> QED
  BY SMTT(60), <1>1, <1>2

(***************************************************************************)
(* What a step leaves alone keeps its part of the invariant.               *)
(***************************************************************************)
LEMMA TypeFrames ==
    ASSUME Grouped
    PROVE  /\ UNCHANGED <<admissions, spawn, records, registered>> => TypeSpawn'
           /\ UNCHANGED pc => TypePc'
           /\ UNCHANGED funnel => TypeFunnel'
           /\ UNCHANGED <<push, slots, due, chan>> => TypePush'
           /\ UNCHANGED <<popped, sent>> => TypeTaken'
           /\ UNCHANGED controls => TypeControls'
           /\ UNCHANGED <<mail, workers, missed, closing>> => TypeMail'
           /\ UNCHANGED <<exits, lagged, scan>> => TypeExit'
           /\ UNCHANGED <<drain, generation, finishing, quota>> => TypeDrain'
BY ZenonT(60) DEF Grouped, Types, TypeSpawn, TypePc, TypeFunnel, TypePush, TypeTaken, TypeControls, TypeMail,
       TypeExit, TypeDrain

LEMMA EndedFrame ==
    ASSUME UNCHANGED <<pc, spawn>>, records' \subseteq records
    PROVE  \A q \in Pids : Ended(q) => Ended(q)'
BY ZenonT(60) DEF Ended

LEMMA CutFrame ==
    ASSUME NEW d, push'[d] = push[d], UNCHANGED <<pc, spawn, records, popped, sent>>
    PROVE  Cut(d) => Cut(d)'
BY ZenonT(60) DEF Cut, Ended

LEMMA OwesFrame ==
    ASSUME NEW b, funnel'[b] = funnel[b], Owes(b), \A q \in Pids : Ended(q) => Ended(q)',
           \A q \in Pids : spawn[q] \in Recorded => spawn'[q] \in Recorded
    PROVE  Owes(b)'
BY ZenonT(60) DEF Owes

LEMMA FunnelFrame ==
    ASSUME Grouped, UNCHANGED <<funnel, spawn, pc, records>>
    PROVE  FunnelInv'
BY ZenonT(60) DEF Grouped, FunnelInv, Busy, Ended, Owes

LEMMA LifeFrame ==
    ASSUME Grouped, UNCHANGED <<pc, spawn, records, exits, scan, finishing>>
    PROVE  LifeInv'
BY ZenonT(60) DEF Grouped, LifeInv

LEMMA QueueFrame ==
    ASSUME Grouped, UNCHANGED <<controls, popped, push>>
    PROVE  QueueInv'
BY ZenonT(60) DEF Grouped, QueueInv, Published

LEMMA ChanFrame ==
    ASSUME Grouped, UNCHANGED <<slots, chan, push, popped, sent>>,
           \A p \in Pids : Ended(p) => Ended(p)'
    PROVE  ChanInv'
BY ZenonT(60) DEF Grouped, ChanInv, ChanOk, Cut

LEMMA CountFrame ==
    ASSUME Grouped, UNCHANGED <<admissions, spawn, records, funnel>>
    PROVE  AdmissionsExact'
BY ZenonT(60) DEF Grouped, AdmissionsExact, Removing

LEMMA StrandFrame ==
    ASSUME Grouped, UNCHANGED <<slots, records, push, funnel>>
    PROVE  NoStrandedSlot'
BY ZenonT(60) DEF Grouped, NoStrandedSlot

(***************************************************************************)
(* The removal funnel.                                                     *)
(***************************************************************************)
LEMMA IdleNotBusy == ASSUME NEW a, funnel[a] = Idle PROVE ~Busy(a)
BY SMTT(60) DEF Busy, Idle

(* An idle actor enters the funnel for a connection that has ended.        *)
LEMMA StartStep ==
    ASSUME Grouped, NEW a \in Actors, ~Busy(a), NEW p \in Pids, StartFunnel(a, p)
    PROVE  /\ TypeFunnel' /\ Removing' = Removing
           /\ UNCHANGED <<slots, records, push>> => NoStrandedSlot'
           /\ funnel'[a].pid = p /\ funnel'[a].step = "remove" /\ funnel'[a].had = "none"
           /\ \A b \in Actors : b # a => funnel'[b] = funnel[b]
<1>1. /\ funnel'[a] = [step |-> "remove", pid |-> p, had |-> "none"]
      /\ \A b \in Actors : b # a => funnel'[b] = funnel[b]
      /\ funnel' \in [Actors -> Funnels]
  BY ZenonT(60) DEF StartFunnel, Grouped, Types, TypeFunnel, Funnels, FunnelSteps
<1>2. Removing' = Removing
  <2>1. a \notin Removing /\ a \notin Removing'
    BY SMTT(60), <1>1 DEF Removing, Busy
  <2>2. \A b \in Actors : b # a => (b \in Removing <=> b \in Removing')
    BY ZenonT(60), <1>1 DEF Removing
  <2> QED
    BY ZenonT(60), <2>1, <2>2 DEF Removing
<1>3. ASSUME UNCHANGED <<slots, records, push>> PROVE NoStrandedSlot'
  <2> SUFFICES ASSUME NEW c \in slots
               PROVE  \/ push[c].pid \in records
                      \/ push[c].pc \in {"confirm", "rollback"}
                      \/ \E b \in Actors : /\ funnel'[b].pid = push[c].pid
                                           /\ funnel'[b].step \in {"remove", "sweep"}
    BY ZenonT(60), <1>3 DEF NoStrandedSlot
  <2>1. CASE \E b \in Actors : /\ funnel[b].pid = push[c].pid
                               /\ funnel[b].step \in {"remove", "sweep"}
    BY ZenonT(60), <2>1, <1>1 DEF Busy
  <2> QED
    BY ZenonT(60), <2>1 DEF Grouped, NoStrandedSlot
<1> QED
  BY SMTT(60), <1>1, <1>2, <1>3 DEF TypeFunnel

LEMMA FunnelIntro ==
    ASSUME \A p \in Pids : funnel'[Process(p)].step # "idle" => pc'[p] = "closing",
           \A p \in Pids : funnel'[Spawner(p)].step # "idle" => spawn'[p] = "reclaiming",
           \A b \in Actors : funnel'[b].step # "idle" => Owes(b)',
           \A b \in Actors : funnel'[b].step = "remove" => funnel'[b].had = "none",
           \A b \in Actors : funnel'[b].step = "release" => funnel'[b].had # "none"
    PROVE  FunnelInv'
BY ZenonT(60) DEF FunnelInv, Busy

(* An actor that is in the funnel moves on within it, or leaves it.        *)
LEMMA FunnelMoves ==
    ASSUME Grouped, NEW a \in Actors, Busy(a), NEW r \in Funnels,
           funnel' = [funnel EXCEPT ![a] = r],
           r.step # "idle" => r.pid = funnel[a].pid, r.step # "remove",
           r.step = "release" => r.had # "none", UNCHANGED <<spawn, pc>>,
           records' \subseteq records, \A q \in Pids : q = funnel[a].pid => Ended(q)'
    PROVE  TypeFunnel' /\ FunnelInv' /\ funnel'[a] = r
           /\ \A b \in Actors : b # a => funnel'[b] = funnel[b]
<1>1. /\ funnel'[a] = r /\ \A b \in Actors : b # a => funnel'[b] = funnel[b]
      /\ funnel' \in [Actors -> Funnels]
  BY ZenonT(60) DEF Grouped, Types, TypeFunnel
<1>2. \A b \in Actors : funnel'[b].step # "idle" => Busy(b) /\ funnel'[b].pid = funnel[b].pid
  BY ZenonT(60), <1>1 DEF Busy
<1>3. \A p \in Pids : funnel'[Process(p)].step # "idle" => pc'[p] = "closing"
  BY ZenonT(60), <1>2, ActorFacts DEF Grouped, FunnelInv, Busy
<1>4. \A p \in Pids : funnel'[Spawner(p)].step # "idle" => spawn'[p] = "reclaiming"
  BY ZenonT(60), <1>2, ActorFacts DEF Grouped, FunnelInv, Busy
<1>5. \A b \in Actors : funnel'[b].step # "idle" => Owes(b)'
  <2>1. ASSUME NEW b \in Actors, b # a, funnel'[b].step # "idle" PROVE Owes(b)'
    <3>1. Owes(b) /\ funnel'[b] = funnel[b]
      BY ZenonT(60), <1>1, <1>2, <2>1 DEF Grouped, FunnelInv
    <3> QED
      BY ZenonT(60), <3>1, EndedFrame, OwesFrame
  <2>2. r.step # "idle" => Owes(a)'
    <3>1. funnel[a].pid \in Pids
      BY ZenonT(60) DEF Grouped, FunnelInv, Owes
    <3>2. PICK q \in Pids : q = funnel[a].pid
      BY ZenonT(60), <3>1
    <3>3. Ended(q)' /\ (r.step # "idle" => funnel'[a].pid = q)
      BY ZenonT(60), <1>1, <3>2
    <3> QED
      BY ZenonT(60), <3>3 DEF Owes
  <2> QED
    BY ZenonT(60), <1>1, <2>1, <2>2
<1>6. /\ \A b \in Actors : funnel'[b].step = "remove" => funnel'[b].had = "none"
      /\ \A b \in Actors : funnel'[b].step = "release" => funnel'[b].had # "none"
  BY ZenonT(60), <1>1 DEF Grouped, FunnelInv
<1>7. FunnelInv'
  BY ZenonT(60), <1>3, <1>4, <1>5, <1>6, FunnelIntro
<1> QED
  BY ZenonT(60), <1>1, <1>7 DEF TypeFunnel

LEMMA FunnelRemoveInv ==
    ASSUME Grouped, NEW a \in Actors, FunnelRemove(a)
    PROVE  Grouped'
<1> DEFINE p == funnel[a].pid
<1> DEFINE r == [step |-> "sweep", pid |-> p,
                 had |-> IF p \in registered THEN "worker"
                         ELSE IF p \in records THEN "plain" ELSE "none"]
<1>1. /\ Busy(a) /\ funnel[a].step = "remove" /\ funnel[a].had = "none"
      /\ p \in Pids /\ Owes(a)
  BY ZenonT(60) DEF FunnelRemove, Busy, Grouped, FunnelInv, Owes
<1>2. /\ UNCHANGED <<admissions, spawn, pc, push, slots, chan, due, controls, mail, closing,
                     popped, sent, exits, lagged, scan, workers, missed, drain, generation, finishing, quota>>
      /\ records' = records \ {p} /\ registered' = registered \ {p}
      /\ funnel' = [funnel EXCEPT ![a] = r]
  BY ZenonT(60) DEF FunnelRemove, pushing, control, exiting, working, draining
<1>3. r \in Funnels /\ r.step = "sweep" /\ r.pid = p /\ (r.had # "none" <=> p \in records)
  <2>1. registered \subseteq records
    BY ZenonT(60) DEF Grouped, Types, TypeSpawn
  <2> QED
    BY ZenonT(60), <1>1, <2>1 DEF Funnels, FunnelSteps
<1>0. records' \subseteq records /\ \A q \in Pids : q = funnel[a].pid => Ended(q)'
  BY ZenonT(60), <1>1, <1>2 DEF Owes, Ended
<1> HIDE DEF r
<1>4. /\ TypeFunnel' /\ FunnelInv' /\ funnel'[a] = r
      /\ \A b \in Actors : b # a => funnel'[b] = funnel[b]
  BY ZenonT(60), <1>0, <1>1, <1>2, <1>3, FunnelMoves
<1> HIDE DEF p
<1>5. TypeSpawn'
  BY ZenonT(60), <1>2 DEF Grouped, Types, TypeSpawn
<1>6. LifeInv'
  BY ZenonT(60), <1>2 DEF Grouped, LifeInv
<1>7. AdmissionsExact'
  <2>0. /\ admissions' = admissions /\ Held' = Held
        /\ admissions = Cardinality(Held) + Cardinality(records) + Cardinality(Removing)
    BY ZenonT(60), <1>2, CountIs DEF Held, Grouped
  <2>1. /\ IsFiniteSet(records) /\ IsFiniteSet(Removing) /\ Cardinality(Held) \in Nat
        /\ Cardinality(records) \in Nat /\ Cardinality(Removing) \in Nat
    BY ZenonT(60), Counted DEF Grouped, Types
  <2>2. a \notin Removing
    BY ZenonT(60), <1>1 DEF Removing
  <2>3. \A b \in Actors : b # a => (b \in Removing' <=> b \in Removing)
    BY ZenonT(60), <1>4 DEF Removing
  <2>4. a \in Removing' <=> p \in records
    BY ZenonT(60), <1>3, <1>4 DEF Removing
  <2>5. CASE p \in records
    <3>1. Removing' = Removing \cup {a}
      BY ZenonT(60), <2>2, <2>3, <2>4, <2>5 DEF Removing
    <3>2. /\ Cardinality(Removing') = Cardinality(Removing) + 1
          /\ Cardinality(records') = Cardinality(records) - 1
      BY ZenonT(60), <1>2, <2>1, <2>2, <2>5, <3>1, CardAdd, CardRemove
    <3> QED
      BY SMTT(60), <2>0, <2>1, <3>2, CountIsNext
  <2>6. CASE p \notin records
    <3>1. Removing' = Removing
      BY ZenonT(60), <2>2, <2>3, <2>4, <2>6 DEF Removing
    <3>2. records' = records
      BY ZenonT(60), <1>2, <2>6
    <3> QED
      BY ZenonT(60), <2>0, <3>1, <3>2, CountIsNext
  <2> QED
    BY ZenonT(60), <2>5, <2>6
<1>8. NoStrandedSlot'
  <2> SUFFICES ASSUME NEW c \in slots
               PROVE  \/ push[c].pid \in records'
                      \/ push[c].pc \in {"confirm", "rollback"}
                      \/ \E b \in Actors : /\ funnel'[b].pid = push[c].pid
                                           /\ funnel'[b].step \in {"remove", "sweep"}
    BY ZenonT(60), <1>2 DEF NoStrandedSlot
  <2>1. CASE push[c].pid = p
    BY ZenonT(60), <1>3, <1>4, <2>1
  <2>2. CASE push[c].pid # p
    <3>1. push[c].pid \in records => push[c].pid \in records'
      BY ZenonT(60), <1>2, <2>2
    <3>2. \A b \in Actors : funnel[b].pid = push[c].pid => funnel'[b] = funnel[b]
      BY ZenonT(60), <1>4, <2>2 DEF p
    <3> QED
      BY ZenonT(60), <3>1, <3>2 DEF Grouped, NoStrandedSlot
  <2> QED
    BY ZenonT(60), <2>1, <2>2
<1>9. \A q \in Pids : Ended(q) => Ended(q)'
  BY ZenonT(60), <1>2, EndedFrame
<1>10. Types'
  BY ZenonT(60), <1>2, <1>4, <1>5, TypeFrames DEF Types
<1>11. QueueInv' /\ ChanInv'
  BY ZenonT(60), <1>2, <1>9, QueueFrame, ChanFrame
<1> QED
  BY ZenonT(60), <1>4, <1>6, <1>7, <1>8, <1>10, <1>11 DEF Grouped

(* Dropping slots whose closing has a cause keeps slots and channels in step. *)
LEMMA DisconnectInv ==
    ASSUME Grouped, NEW cs \in SUBSET slots, slots' = slots \ cs, chan' = Disconnect(cs),
           UNCHANGED push, \A c \in Pushes : Cut(c) => Cut(c)', \A c \in cs : Cut(c)'
    PROVE  ChanInv' /\ (UNCHANGED due => TypePush')
<1>1. slots \subseteq Pushes
  BY ZenonT(60) DEF Grouped, Types, TypePush
<1>2. /\ \A c \in Pushes : chan'[c] = IF c \in cs THEN "closed" ELSE chan[c]
      /\ chan' \in [Pushes -> {"empty", "reply", "closed"}]
  BY ZenonT(60), <1>1 DEF Disconnect, Grouped, Types, TypePush
<1>3. ASSUME NEW c \in Pushes
      PROVE  /\ push[c].pc = "idle" => c \notin slots' /\ chan'[c] = "empty"
             /\ push[c].pc # "idle" => push[c].pid \in Pids
             /\ push[c].pc # "done" => push[c].result = "none"
             /\ c \in slots' => chan'[c] = "empty"
             /\ push[c].pc \notin {"idle", "done"} /\ c \notin slots' => chan'[c] # "empty"
             /\ push[c].result = "expired" => c \notin slots' /\ chan'[c] = "empty"
             /\ push[c].result = "disconnected" => chan'[c] = "closed"
             /\ push[c].result # "timeout"
  BY ZenonT(60), <1>2 DEF Grouped, ChanInv, ChanOk
<1>4. ASSUME NEW c \in Pushes, chan'[c] = "closed" PROVE Cut(c)'
  BY ZenonT(60), <1>2, <1>4 DEF Grouped, ChanInv, ChanOk
<1>5. ChanInv'
  BY ZenonT(60), <1>3, <1>4 DEF ChanInv, ChanOk
<1> QED
  BY ZenonT(60), <1>1, <1>2, <1>5 DEF TypePush, Grouped, Types

LEMMA FunnelSweepInv ==
    ASSUME Grouped, NEW a \in Actors, FunnelSweep(a)
    PROVE  Grouped'
<1> DEFINE p == funnel[a].pid
<1> DEFINE r == IF funnel[a].had = "none" THEN Idle ELSE [funnel[a] EXCEPT !.step = "release"]
<1>1. Busy(a) /\ funnel[a].step = "sweep" /\ p \in Pids /\ Ended(p) /\ funnel[a] \in Funnels
  BY ZenonT(60) DEF FunnelSweep, Busy, Grouped, FunnelInv, Types, TypeFunnel, Owes
<1>2. /\ UNCHANGED <<admissions, spawn, records, registered, pc, push, due, controls, mail,
                     closing, popped, sent, exits, lagged, scan, workers, missed, drain, generation, finishing, quota>>
      /\ slots' = slots \ Owned(p) /\ chan' = Disconnect(Owned(p))
      /\ funnel' = [funnel EXCEPT ![a] = r]
  BY ZenonT(60) DEF FunnelSweep, spawning, control, exiting, working, draining
<1>3. /\ r \in Funnels /\ r.step # "remove" /\ (r.step # "idle" => r.pid = p)
      /\ (r.step = "release" => r.had # "none")
      /\ (r.step \in {"sweep", "release"} /\ r.had # "none" <=> funnel[a].had # "none")
  BY ZenonT(60), <1>1 DEF Funnels, FunnelSteps, Idle, None
<1>0. records' \subseteq records /\ \A q \in Pids : q = funnel[a].pid => Ended(q)'
  BY ZenonT(60), <1>1, <1>2, EndedFrame
<1> HIDE DEF r
<1>4. /\ TypeFunnel' /\ FunnelInv' /\ funnel'[a] = r
      /\ \A b \in Actors : b # a => funnel'[b] = funnel[b]
  BY ZenonT(60), <1>0, <1>1, <1>2, <1>3, FunnelMoves
<1>5. ChanInv' /\ TypePush'
  <2>1. Owned(p) \subseteq slots /\ \A c \in Owned(p) : push[c].pid = p
    BY ZenonT(60) DEF Owned
  <2>2. \A c \in Pushes : Cut(c) => Cut(c)'
    BY ZenonT(60), <1>2 DEF Cut, Ended
  <2>3. \A c \in Owned(p) : Cut(c)'
    BY ZenonT(60), <1>1, <1>2, <2>1 DEF Cut, Ended
  <2> QED
    BY ZenonT(60), <1>2, <2>1, <2>2, <2>3, DisconnectInv
<1>6. AdmissionsExact'
  <2>1. \A b \in Actors : b \in Removing' <=> b \in Removing
    BY ZenonT(60), <1>1, <1>3, <1>4 DEF Removing
  <2>2. Removing' = Removing /\ Held' = Held
    BY ZenonT(60), <1>2, <2>1 DEF Removing, Held
  <2> QED
    BY ZenonT(60), <1>2, <2>2, CountIs, CountIsNext DEF Grouped
<1>7. NoStrandedSlot'
  <2> SUFFICES ASSUME NEW c \in slots'
               PROVE  \/ push[c].pid \in records
                      \/ push[c].pc \in {"confirm", "rollback"}
                      \/ \E b \in Actors : /\ funnel'[b].pid = push[c].pid
                                           /\ funnel'[b].step \in {"remove", "sweep"}
    BY ZenonT(60), <1>2 DEF NoStrandedSlot
  <2>1. c \in slots /\ push[c].pid # p
    BY ZenonT(60), <1>2 DEF Owned
  <2>2. \A b \in Actors : funnel[b].pid = push[c].pid => funnel'[b] = funnel[b]
    BY ZenonT(60), <1>4, <2>1
  <2> QED
    BY ZenonT(60), <2>1, <2>2 DEF Grouped, NoStrandedSlot
<1>8. Types'
  BY ZenonT(60), <1>2, <1>4, <1>5, TypeFrames DEF Types
<1>9. QueueInv' /\ LifeInv'
  BY ZenonT(60), <1>2, QueueFrame, LifeFrame
<1> QED
  BY ZenonT(60), <1>4, <1>5, <1>6, <1>7, <1>8, <1>9 DEF Grouped

(* The last steps of a removal touch neither records nor slots.            *)
LEMMA FunnelTail ==
    ASSUME Grouped, NEW a \in Actors, funnel[a].step \in {"release", "signal", "fire"},
           NEW r \in Funnels, funnel' = [funnel EXCEPT ![a] = r],
           r.step \in {"idle", "signal", "fire"}, r.step # "idle" => r.pid = funnel[a].pid,
           UNCHANGED <<spawn, records, registered, pc, push, slots, chan, due, controls, mail,
                       closing, popped, sent, exits, lagged, scan, finishing, quota, drain>>,
           TypeSpawn', TypeMail', TypeDrain',
           admissions' = admissions - (IF a \in Removing THEN 1 ELSE 0)
    PROVE  Grouped'
<1>1. Busy(a) /\ r.step # "remove" /\ r.step # "release"
  BY ZenonT(60) DEF Busy
<1>0. records' \subseteq records /\ \A q \in Pids : q = funnel[a].pid => Ended(q)'
  <2>1. Ended(funnel[a].pid) /\ funnel[a].pid \in Pids
    BY ZenonT(60), <1>1 DEF Grouped, FunnelInv, Owes
  <2> QED
    BY ZenonT(60), <2>1, EndedFrame
<1>2. /\ TypeFunnel' /\ FunnelInv' /\ funnel'[a] = r
      /\ \A b \in Actors : b # a => funnel'[b] = funnel[b]
  BY ZenonT(60), <1>0, <1>1, FunnelMoves
<1>3. Removing' = Removing \ {a}
  <2>1. a \notin Removing' /\ \A b \in Actors : b # a => (b \in Removing' <=> b \in Removing)
    BY ZenonT(60), <1>2 DEF Removing
  <2> QED
    BY ZenonT(60), <2>1 DEF Removing
<1>4. AdmissionsExact'
  <2>1. /\ Held' = Held /\ records' = records
        /\ admissions = Cardinality(Held) + Cardinality(records) + Cardinality(Removing)
    BY ZenonT(60), CountIs DEF Held, Grouped
  <2>2. /\ IsFiniteSet(Removing) /\ Cardinality(Held) \in Nat
        /\ Cardinality(records) \in Nat /\ Cardinality(Removing) \in Nat
    BY ZenonT(60), Counted DEF Grouped, Types
  <2>3. CASE a \in Removing
    <3>1. Cardinality(Removing') = Cardinality(Removing) - 1
      BY ZenonT(60), <1>3, <2>2, <2>3, CardRemove
    <3> QED
      BY SMTT(60), <2>1, <2>2, <2>3, <3>1, CountIsNext
  <2>4. CASE a \notin Removing
    <3>1. Removing' = Removing
      BY ZenonT(60), <1>3, <2>4
    <3> QED
      BY SMTT(60), <2>1, <2>2, <2>4, <3>1, CountIsNext
  <2> QED
    BY ZenonT(60), <2>3, <2>4
<1>5. NoStrandedSlot'
  <2> SUFFICES ASSUME NEW c \in slots
               PROVE  \/ push[c].pid \in records
                      \/ push[c].pc \in {"confirm", "rollback"}
                      \/ \E b \in Actors : /\ funnel'[b].pid = push[c].pid
                                           /\ funnel'[b].step \in {"remove", "sweep"}
    BY ZenonT(60) DEF NoStrandedSlot
  <2>1. \A b \in Actors : funnel[b].step \in {"remove", "sweep"} => funnel'[b] = funnel[b]
    BY ZenonT(60), <1>2
  <2> QED
    BY ZenonT(60), <2>1 DEF Grouped, NoStrandedSlot
<1>6. \A q \in Pids : Ended(q) => Ended(q)'
  BY ZenonT(60), <1>0, EndedFrame
<1>7. Types'
  BY ZenonT(60), <1>2, TypeFrames DEF Types
<1>8. QueueInv' /\ LifeInv' /\ ChanInv'
  BY ZenonT(60), <1>6, QueueFrame, LifeFrame, ChanFrame
<1> QED
  BY ZenonT(60), <1>2, <1>4, <1>5, <1>7, <1>8 DEF Grouped

LEMMA FunnelTailInv ==
    ASSUME Grouped, NEW a \in Actors, FunnelRelease(a) \/ FunnelSignal(a) \/ FunnelFire(a)
    PROVE  Grouped'
<1>1. funnel[a] \in Funnels
  BY ZenonT(60) DEF Grouped, Types, TypeFunnel
<1>2. UNCHANGED <<spawn, records, registered, pc, push, slots, chan, due, controls, mail,
                  closing, popped, sent, exits, lagged, scan, finishing, quota, drain>>
  BY ZenonT(60) DEF FunnelRelease, FunnelSignal, FunnelFire, spawning, pushing, control, exiting, working, draining
<1>3. CASE FunnelRelease(a)
  <2> DEFINE r == [funnel[a] EXCEPT !.step = "signal"]
  <2>1. /\ funnel[a].step = "release" /\ funnel' = [funnel EXCEPT ![a] = r]
        /\ UNCHANGED <<workers, missed, generation>>
    BY ZenonT(60), <1>3 DEF FunnelRelease, working, draining
  <2>2. r \in Funnels /\ r.step = "signal" /\ r.pid = funnel[a].pid
    BY ZenonT(60), <1>1 DEF Funnels, FunnelSteps
  <2>3. a \in Removing
    BY ZenonT(60), <2>1 DEF Removing, Grouped, FunnelInv
  <2>4. admissions \in 1..MaxConnections /\ admissions' = admissions - 1
    <3>1. /\ Cardinality(Held) \in Nat /\ Cardinality(records) \in Nat
          /\ Cardinality(Removing) >= 1 /\ Cardinality(Removing) \in Nat
      BY ZenonT(60), <2>3, Counted, CardRemove DEF Grouped, Types
    <3>2. admissions >= 1 /\ admissions \in 0..MaxConnections
      BY SMTT(60), <3>1, CountIs DEF Grouped, Types, TypeSpawn
    <3> QED
      BY SMTT(60), <1>3, <3>2, BoundsAssumption DEF FunnelRelease, ReleaseAdmission
  <2>5. TypeSpawn'
    BY SMTT(60), <1>2, <2>4, BoundsAssumption DEF Grouped, Types, TypeSpawn
  <2>6. TypeMail' /\ TypeDrain'
    BY ZenonT(60), <1>2, <2>1, TypeFrames
  <2> HIDE DEF r
  <2> QED
    BY ZenonT(60), <1>2, <2>1, <2>2, <2>3, <2>4, <2>5, <2>6, FunnelTail
<1>4. CASE FunnelSignal(a)
  <2> DEFINE r == [funnel[a] EXCEPT !.step = "fire"]
  <2>1. /\ funnel[a].step = "signal" /\ funnel' = [funnel EXCEPT ![a] = r]
        /\ generation' = generation + 1 /\ UNCHANGED <<admissions, workers, missed>>
    BY ZenonT(60), <1>4 DEF FunnelSignal, spawning, working
  <2>2. r \in Funnels /\ r.step = "fire" /\ r.pid = funnel[a].pid
    BY ZenonT(60), <1>1 DEF Funnels, FunnelSteps
  <2>3. a \notin Removing /\ admissions' = admissions - 0
    BY SMTT(60), <2>1 DEF Removing, Grouped, Types, TypeSpawn
  <2>4. TypeDrain'
    BY SMTT(60), <1>2, <2>1 DEF Grouped, Types, TypeDrain
  <2>5. TypeMail' /\ TypeSpawn'
    BY ZenonT(60), <1>2, <2>1, TypeFrames
  <2> HIDE DEF r
  <2> QED
    BY ZenonT(60), <1>2, <2>1, <2>2, <2>3, <2>4, <2>5, FunnelTail
<1>5. CASE FunnelFire(a)
  <2>1. /\ funnel[a].step = "fire" /\ funnel' = [funnel EXCEPT ![a] = Idle]
        /\ workers' \subseteq workers /\ UNCHANGED <<admissions, missed, generation>>
    BY ZenonT(60), <1>5 DEF FunnelFire, spawning, working, draining
  <2>2. Idle \in Funnels /\ Idle.step = "idle"
    BY ZenonT(60) DEF Funnels, FunnelSteps, Idle
  <2>3. a \notin Removing /\ admissions' = admissions - 0
    BY SMTT(60), <2>1 DEF Removing, Grouped, Types, TypeSpawn
  <2>4. TypeMail'
    BY ZenonT(60), <1>2, <2>1 DEF Grouped, Types, TypeMail
  <2>5. TypeDrain' /\ TypeSpawn'
    BY ZenonT(60), <1>2, <2>1, TypeFrames
  <2> QED
    BY ZenonT(60), <1>2, <2>1, <2>2, <2>3, <2>4, <2>5, FunnelTail
<1> QED
  BY ZenonT(60), <1>3, <1>4, <1>5

(***************************************************************************)
(* The spawn thread.                                                       *)
(***************************************************************************)
SpawnStates == {"idle", "reserved", "spawned", "registered", "reclaiming", "converted", "failed"}
Unborn == {"idle", "reserved", "failed"}

LEMMA SpawnOnly ==
    ASSUME Grouped, NEW p \in Pids, NEW s \in SpawnStates, spawn' = [spawn EXCEPT ![p] = s],
           spawn[p] = "reclaiming" => ~Busy(Spawner(p)), s \in Unborn <=> spawn[p] \in Unborn,
           spawn[p] \in Recorded => s \in Recorded /\ records' = records,
           records \subseteq records', records' \subseteq records \cup {p},
           p \in records' => s \in Recorded, TypeSpawn', AdmissionsExact',
           UNCHANGED <<pc, funnel, push, slots, chan, due, controls, mail, closing, popped, sent,
                       exits, lagged, scan, workers, missed, drain, generation, finishing, quota>>
    PROVE  Grouped'
<1>1. spawn'[p] = s /\ \A q \in Pids : q # p => spawn'[q] = spawn[q]
  BY ZenonT(60) DEF Grouped, Types, TypeSpawn
<1>4. /\ \A q \in Pids : Ended(q) => Ended(q)'
      /\ \A q \in Pids : spawn[q] \in Recorded => spawn'[q] \in Recorded
  BY ZenonT(60), <1>1 DEF Ended
<1>2. FunnelInv'
  <2>1. \A q \in Pids : funnel'[Process(q)].step # "idle" => pc'[q] = "closing"
    BY ZenonT(60) DEF Grouped, FunnelInv, Busy
  <2>2. \A q \in Pids : funnel'[Spawner(q)].step # "idle" => spawn'[q] = "reclaiming"
    BY ZenonT(60), <1>1 DEF Grouped, FunnelInv, Busy
  <2>3. \A b \in Actors : funnel'[b].step # "idle" => Owes(b)'
    BY ZenonT(60), <1>4, OwesFrame DEF Grouped, FunnelInv, Busy
  <2>4. /\ \A b \in Actors : funnel'[b].step = "remove" => funnel'[b].had = "none"
        /\ \A b \in Actors : funnel'[b].step = "release" => funnel'[b].had # "none"
    BY ZenonT(60) DEF Grouped, FunnelInv
  <2> QED
    BY ZenonT(60), <2>1, <2>2, <2>3, <2>4, FunnelIntro
<1>3. LifeInv'
  <2>1. \A q \in Pids : pc'[q] = "none" <=> spawn'[q] \in {"idle", "reserved", "failed"}
    BY ZenonT(60), <1>1 DEF Grouped, LifeInv, Unborn
  <2>2. \A q \in records' : spawn'[q] \in {"registered", "reclaiming", "converted"}
    <3>1. records' \subseteq Pids
      BY ZenonT(60) DEF TypeSpawn
    <3> QED
      BY ZenonT(60), <1>1, <3>1 DEF Grouped, LifeInv, Recorded
  <2>3. \A q \in finishing' : spawn'[q] \in Recorded
    <3>1. finishing \subseteq Pids
      BY ZenonT(60) DEF Grouped, Types, TypeDrain
    <3> QED
      BY ZenonT(60), <1>4, <3>1 DEF Grouped, LifeInv
  <2> QED
    BY ZenonT(60), <2>1, <2>2, <2>3 DEF Grouped, LifeInv
<1>5. QueueInv' /\ ChanInv'
  BY ZenonT(60), <1>4, QueueFrame, ChanFrame
<1>6. NoStrandedSlot'
  BY ZenonT(60) DEF Grouped, NoStrandedSlot
<1>7. Types'
  BY ZenonT(60), TypeFrames DEF Types
<1> QED
  BY ZenonT(60), <1>2, <1>3, <1>5, <1>6, <1>7 DEF Grouped

LEMMA ReservationInv ==
    ASSUME Grouped, NEW p \in Pids, Reserve(p) \/ SpawnFails(p)
    PROVE  Grouped'
<1>1. UNCHANGED <<records, registered, pc, funnel, push, slots, chan, due, controls, mail, closing,
                  popped, sent, exits, lagged, scan, workers, missed, drain, generation, finishing, quota>>
  BY ZenonT(60) DEF Reserve, SpawnFails, pushing, control, exiting, working, draining
<1>2. p \notin records /\ Removing' = Removing
  BY ZenonT(60), <1>1 DEF Grouped, LifeInv, Reserve, SpawnFails, Removing
<1>3. /\ IsFiniteSet(Held) /\ Cardinality(Held) \in Nat
      /\ Cardinality(records) \in Nat /\ Cardinality(Removing) \in Nat
      /\ admissions = Cardinality(Held) + Cardinality(records) + Cardinality(Removing)
  BY ZenonT(60), Counted, CountIs DEF Grouped, Types
<1>4. spawn \in [Pids -> SpawnStates] /\ admissions \in 0..MaxConnections /\ MaxConnections \in Nat
  BY ZenonT(60), BoundsAssumption DEF Grouped, Types, TypeSpawn, SpawnStates
<1>5. CASE Reserve(p)
  <2>1. /\ spawn[p] = "idle" /\ spawn' = [spawn EXCEPT ![p] = "reserved"]
        /\ admissions' = admissions + 1 /\ admissions < MaxConnections
    BY ZenonT(60), <1>5 DEF Reserve
  <2>2. Held' = Held \cup {p} /\ p \notin Held
    BY ZenonT(60), <1>4, <2>1 DEF Held
  <2>3. Cardinality(Held') = Cardinality(Held) + 1
    BY ZenonT(60), <1>3, <2>2, CardAdd
  <2>4. AdmissionsExact'
    BY SMTT(60), <1>1, <1>2, <1>3, <2>1, <2>3, CountIsNext
  <2>5. TypeSpawn'
    BY SMTT(60), <1>1, <1>4, <2>1 DEF TypeSpawn, SpawnStates, Grouped, Types
  <2> QED
    BY ZenonT(60), <1>1, <1>2, <2>1, <2>4, <2>5, SpawnOnly DEF SpawnStates, Unborn, Recorded
<1>6. CASE SpawnFails(p)
  <2>1. spawn[p] = "reserved" /\ spawn' = [spawn EXCEPT ![p] = "failed"]
    BY ZenonT(60), <1>6 DEF SpawnFails
  <2>2. Held' = Held \ {p} /\ p \in Held
    BY ZenonT(60), <1>4, <2>1 DEF Held
  <2>3. Cardinality(Held') = Cardinality(Held) - 1 /\ Cardinality(Held) >= 1
    BY ZenonT(60), <1>3, <2>2, CardRemove
  <2>4. admissions' = admissions - 1 /\ admissions >= 1
    BY SMTT(60), <1>3, <1>6, <2>3 DEF SpawnFails, ReleaseAdmission
  <2>5. AdmissionsExact'
    BY SMTT(60), <1>1, <1>2, <1>3, <2>3, <2>4, CountIsNext
  <2>6. TypeSpawn'
    BY SMTT(60), <1>1, <1>4, <2>1, <2>4 DEF TypeSpawn, SpawnStates, Grouped, Types
  <2> QED
    BY ZenonT(60), <1>1, <1>2, <2>1, <2>5, <2>6, SpawnOnly DEF SpawnStates, Unborn, Recorded
<1> QED
  BY ZenonT(60), <1>5, <1>6

LEMMA RegisterRecordInv ==
    ASSUME Grouped, NEW p \in Pids, RegisterRecord(p)
    PROVE  Grouped'
<1>1. /\ UNCHANGED <<admissions, registered, pc, funnel, push, slots, chan, due, controls, mail,
                     closing, popped, sent, exits, lagged, scan, workers, missed, drain, generation, finishing, quota>>
      /\ spawn[p] = "spawned" /\ spawn' = [spawn EXCEPT ![p] = "registered"]
      /\ records' = records \cup {p}
  BY ZenonT(60) DEF RegisterRecord, pushing, control, exiting, working, draining
<1>2. p \notin records /\ Removing' = Removing
  BY ZenonT(60), <1>1 DEF Grouped, LifeInv, Removing
<1>3. /\ IsFiniteSet(Held) /\ Cardinality(Held) \in Nat /\ IsFiniteSet(records)
      /\ Cardinality(records) \in Nat /\ Cardinality(Removing) \in Nat
      /\ admissions = Cardinality(Held) + Cardinality(records) + Cardinality(Removing)
  BY ZenonT(60), Counted, CountIs DEF Grouped, Types
<1>4. spawn \in [Pids -> SpawnStates]
  BY ZenonT(60) DEF Grouped, Types, TypeSpawn, SpawnStates
<1>5. Held' = Held \ {p} /\ p \in Held
  BY ZenonT(60), <1>1, <1>4 DEF Held
<1>6. /\ Cardinality(Held') = Cardinality(Held) - 1
      /\ Cardinality(records') = Cardinality(records) + 1
  BY ZenonT(60), <1>1, <1>2, <1>3, <1>5, CardAdd, CardRemove
<1>7. AdmissionsExact'
  BY SMTT(60), <1>1, <1>2, <1>3, <1>6, CountIsNext
<1>8. TypeSpawn'
  BY ZenonT(60), <1>1, <1>4 DEF TypeSpawn, SpawnStates, Grouped, Types
<1> QED
  BY ZenonT(60), <1>1, <1>7, <1>8, SpawnOnly DEF SpawnStates, Unborn, Recorded

(* Entering the funnel, with whatever else the step does to the process     *)
(* and to the spawn thread.                                                *)
LEMMA StartInv ==
    ASSUME Grouped, NEW a \in Actors, ~Busy(a), NEW p \in Pids, StartFunnel(a, p),
           Ended(p)' \/ (a = Host /\ spawn'[p] \in Recorded),
           \A q \in Pids : Ended(q) => Ended(q)',
           \A q \in Pids : spawn[q] \in Recorded => spawn'[q] \in Recorded,
           \A q \in Pids : Busy(Process(q)) \/ a = Process(q) => pc'[q] = "closing",
           \A q \in Pids : Busy(Spawner(q)) \/ a = Spawner(q) => spawn'[q] = "reclaiming"
    PROVE  FunnelInv'
<1>1. /\ funnel'[a].pid = p /\ funnel'[a].step = "remove" /\ funnel'[a].had = "none"
      /\ \A b \in Actors : b # a => funnel'[b] = funnel[b]
  BY ZenonT(60), StartStep
<1>2. \A q \in Pids : funnel'[Process(q)].step # "idle" => pc'[q] = "closing"
  BY ZenonT(60), <1>1, ActorFacts DEF Busy
<1>3. \A q \in Pids : funnel'[Spawner(q)].step # "idle" => spawn'[q] = "reclaiming"
  BY ZenonT(60), <1>1, ActorFacts DEF Busy
<1>4. ASSUME NEW b \in Actors, funnel'[b].step # "idle"
      PROVE  Owes(b)'
  <2>1. CASE b = a
    BY ZenonT(60), <1>1, <2>1 DEF Owes
  <2>2. CASE b # a
    <3>1. funnel'[b] = funnel[b] /\ Owes(b)
      BY ZenonT(60), <1>1, <1>4, <2>2 DEF Grouped, FunnelInv, Busy
    <3> QED
      BY ZenonT(60), <3>1, OwesFrame
  <2> QED
    BY ZenonT(60), <2>1, <2>2
<1>5. /\ \A b \in Actors : funnel'[b].step = "remove" => funnel'[b].had = "none"
      /\ \A b \in Actors : funnel'[b].step = "release" => funnel'[b].had # "none"
  BY ZenonT(60), <1>1 DEF Grouped, FunnelInv
<1> QED
  BY ZenonT(60), <1>2, <1>3, <1>4, <1>5, FunnelIntro

LEMMA StartCount ==
    ASSUME Grouped, Removing' = Removing, UNCHANGED <<admissions, records>>, Held' = Held
    PROVE  AdmissionsExact'
BY ZenonT(60), CountIs, CountIsNext DEF Grouped

LEMMA SpawnNativeInv ==
    ASSUME Grouped, NEW p \in Pids, SpawnNative(p)
    PROVE  Grouped'
<1>1. /\ UNCHANGED <<admissions, records, registered, funnel, push, slots, chan, due, controls, mail,
                     closing, popped, sent, exits, lagged, scan, workers, missed, drain, generation, finishing, quota>>
      /\ spawn[p] = "reserved" /\ spawn' = [spawn EXCEPT ![p] = "spawned"]
      /\ pc' = [pc EXCEPT ![p] = "ready"]
  BY ZenonT(60) DEF SpawnNative, pushing, control, exiting, working, draining
<1>2. /\ spawn \in [Pids -> SpawnStates]
      /\ pc \in [Pids -> {"none", "ready", "controls", "slice", "serving", "marking", "closing", "dead"}]
      /\ exits \in Seq(Pids) /\ records \subseteq Pids /\ scan \subseteq Pids
      /\ finishing \subseteq Pids
  BY ZenonT(60) DEF Grouped, Types, TypeSpawn, TypePc, TypeExit, TypeDrain, SpawnStates
<1>3. /\ pc[p] = "none" /\ pc'[p] = "ready" /\ spawn'[p] = "spawned"
      /\ \A q \in Pids : q # p => pc'[q] = pc[q] /\ spawn'[q] = spawn[q]
  BY ZenonT(60), <1>1, <1>2 DEF Grouped, LifeInv
<1>4. /\ \A q \in Pids : Ended(q) => Ended(q)'
      /\ \A q \in Pids : spawn[q] \in Recorded => spawn'[q] \in Recorded
  BY ZenonT(60), <1>1, <1>3 DEF Ended, Recorded
<1>5. FunnelInv'
  <2>1. \A q \in Pids : funnel'[Process(q)].step # "idle" => pc'[q] = "closing"
    BY SMTT(60), <1>1, <1>3 DEF Grouped, FunnelInv, Busy
  <2>2. \A q \in Pids : funnel'[Spawner(q)].step # "idle" => spawn'[q] = "reclaiming"
    BY SMTT(60), <1>1, <1>3 DEF Grouped, FunnelInv, Busy
  <2>3. \A b \in Actors : funnel'[b].step # "idle" => Owes(b)'
    BY ZenonT(60), <1>1, <1>4, OwesFrame DEF Grouped, FunnelInv, Busy
  <2>4. /\ \A b \in Actors : funnel'[b].step = "remove" => funnel'[b].had = "none"
        /\ \A b \in Actors : funnel'[b].step = "release" => funnel'[b].had # "none"
    BY ZenonT(60), <1>1 DEF Grouped, FunnelInv
  <2> QED
    BY ZenonT(60), <2>1, <2>2, <2>3, <2>4, FunnelIntro
<1>6. LifeInv'
  <2>1. \A q \in Pids : pc'[q] = "none" <=> spawn'[q] \in {"idle", "reserved", "failed"}
    BY SMTT(60), <1>1, <1>3 DEF Grouped, LifeInv
  <2>2. \A q \in records' : spawn'[q] \in {"registered", "reclaiming", "converted"}
    BY ZenonT(60), <1>1, <1>2, <1>3 DEF Grouped, LifeInv
  <2>3. \A i \in DOMAIN exits' : pc'[exits'[i]] = "dead"
    <3>1. \A i \in DOMAIN exits : exits[i] \in Pids /\ pc[exits[i]] = "dead"
      BY SMTT(60), <1>2 DEF Grouped, LifeInv
    <3> QED
      BY SMTT(60), <1>1, <1>3, <3>1
  <2>4. \A q \in scan' : pc'[q] # "none"
    BY ZenonT(60), <1>1, <1>2, <1>3 DEF Grouped, LifeInv
  <2>5. \A q \in finishing' : spawn'[q] \in Recorded
    BY ZenonT(60), <1>1, <1>2, <1>4 DEF Grouped, LifeInv
  <2> QED
    BY ZenonT(60), <2>1, <2>2, <2>3, <2>4, <2>5 DEF LifeInv
<1>7. TypeSpawn' /\ TypePc'
  BY ZenonT(60), <1>1, <1>2 DEF Grouped, Types, TypeSpawn, TypePc, SpawnStates
<1>8. AdmissionsExact'
  <2>1. Held' = Held /\ Removing' = Removing
    BY ZenonT(60), <1>1, <1>3 DEF Held, Removing
  <2> QED
    BY ZenonT(60), <1>1, <2>1, StartCount
<1>9. Types'
  BY ZenonT(60), <1>1, <1>7, TypeFrames DEF Types
<1>10. QueueInv' /\ ChanInv' /\ NoStrandedSlot'
  BY ZenonT(60), <1>1, <1>4, QueueFrame, ChanFrame, StrandFrame
<1> QED
  BY ZenonT(60), <1>5, <1>6, <1>8, <1>9, <1>10 DEF Grouped

LEMMA ReconcileInv ==
    ASSUME Grouped, NEW p \in Pids, ReconcileRegisterOrphan(p) \/ Convert(p)
    PROVE  Grouped'
<1>1. UNCHANGED <<admissions, records, registered, pc, push, slots, chan, due, controls, mail,
                  closing, popped, sent, exits, lagged, scan, workers, missed, drain, generation, finishing, quota>>
  BY ZenonT(60) DEF ReconcileRegisterOrphan, Convert, pushing, control, exiting, working, draining
<1>2. spawn \in [Pids -> SpawnStates] /\ records \subseteq Pids /\ finishing \subseteq Pids
  BY ZenonT(60) DEF Grouped, Types, TypeSpawn, TypeDrain, SpawnStates
<1>3. ASSUME spawn[p] \in {"registered", "reclaiming"}, spawn' = [spawn EXCEPT ![p] = "converted"],
             spawn[p] = "reclaiming" => ~Busy(Spawner(p)), UNCHANGED funnel
      PROVE  Grouped'
  <2>1. Held' = Held /\ Removing' = Removing
    BY ZenonT(60), <1>2, <1>3 DEF Held, Removing
  <2>2. AdmissionsExact'
    BY ZenonT(60), <1>1, <2>1, StartCount
  <2>3. TypeSpawn'
    BY ZenonT(60), <1>1, <1>2, <1>3 DEF Grouped, Types, TypeSpawn, SpawnStates
  <2> QED
    BY ZenonT(60), <1>1, <1>3, <2>2, <2>3, SpawnOnly DEF SpawnStates, Unborn, Recorded
<1>4. ASSUME spawn[p] = "registered", ~Live(p), spawn' = [spawn EXCEPT ![p] = "reclaiming"],
             StartFunnel(Spawner(p), p)
      PROVE  Grouped'
  <2>1. pc[p] = "dead" /\ Ended(p)'
    BY ZenonT(60), <1>1, <1>4 DEF Grouped, LifeInv, Live, ProcessTable, Ended
  <2>2. spawn'[p] = "reclaiming" /\ \A q \in Pids : q # p => spawn'[q] = spawn[q]
    BY ZenonT(60), <1>2, <1>4
  <2>3. Spawner(p) \in Actors /\ ~Busy(Spawner(p))
    BY ZenonT(60), <1>4, ActorFacts DEF Grouped, FunnelInv
  <2>4. /\ \A q \in Pids : Ended(q) => Ended(q)'
        /\ \A q \in Pids : spawn[q] \in Recorded => spawn'[q] \in Recorded
    BY ZenonT(60), <1>1, <2>2 DEF Ended, Recorded
  <2>5. \A q \in Pids : Busy(Process(q)) \/ Spawner(p) = Process(q) => pc'[q] = "closing"
    BY ZenonT(60), <1>1, ActorFacts DEF Grouped, FunnelInv
  <2>6. \A q \in Pids : Busy(Spawner(q)) \/ Spawner(p) = Spawner(q) => spawn'[q] = "reclaiming"
    BY ZenonT(60), <2>2, ActorFacts DEF Grouped, FunnelInv
  <2>7. FunnelInv'
    BY ZenonT(60), <1>4, <2>1, <2>3, <2>4, <2>5, <2>6, StartInv
  <2>8. TypeFunnel' /\ Removing' = Removing /\ NoStrandedSlot'
    BY ZenonT(60), <1>1, <1>4, <2>3, StartStep
  <2>9. AdmissionsExact'
    <3>1. Held' = Held
      BY ZenonT(60), <1>2, <1>4 DEF Held
    <3> QED
      BY ZenonT(60), <1>1, <2>8, <3>1, StartCount
  <2>10. LifeInv'
    <3>1. \A q \in Pids : pc'[q] = "none" <=> spawn'[q] \in {"idle", "reserved", "failed"}
      BY ZenonT(60), <1>1, <1>4, <2>2 DEF Grouped, LifeInv
    <3>2. \A q \in records' : spawn'[q] \in {"registered", "reclaiming", "converted"}
      BY ZenonT(60), <1>1, <1>2, <2>2 DEF Grouped, LifeInv
    <3>3. \A q \in finishing' : spawn'[q] \in Recorded
      BY ZenonT(60), <1>1, <1>2, <2>4 DEF Grouped, LifeInv
    <3> QED
      BY ZenonT(60), <1>1, <3>1, <3>2, <3>3 DEF Grouped, LifeInv
  <2>11. TypeSpawn'
    BY ZenonT(60), <1>1, <1>2, <1>4 DEF Grouped, Types, TypeSpawn, SpawnStates
  <2>12. Types'
    BY ZenonT(60), <1>1, <2>8, <2>11, TypeFrames DEF Types
  <2>13. QueueInv' /\ ChanInv'
    BY ZenonT(60), <1>1, <2>4, QueueFrame, ChanFrame
  <2> QED
    BY ZenonT(60), <2>7, <2>8, <2>9, <2>10, <2>12, <2>13 DEF Grouped
<1>5. CASE ReconcileRegisterOrphan(p)
  BY ZenonT(60), <1>3, <1>4, <1>5 DEF ReconcileRegisterOrphan
<1>6. CASE Convert(p)
  <2>1. ~Busy(Spawner(p))
    BY ZenonT(60), <1>6, IdleNotBusy DEF Convert
  <2> QED
    BY ZenonT(60), <1>3, <1>6, <2>1 DEF Convert
<1> QED
  BY ZenonT(60), <1>5, <1>6

(***************************************************************************)
(* The connection process.                                                 *)
(***************************************************************************)
Running == {"ready", "controls", "slice", "serving", "marking"}

LEMMA PcMoves ==
    ASSUME Grouped, NEW p \in Pids, NEW l \in Running \cup {"closing", "dead"},
           pc' = [pc EXCEPT ![p] = l], pc[p] \in Running \cup {"closing"},
           pc[p] = "closing" => l = "dead" /\ ~Busy(Process(p)), UNCHANGED <<spawn, records>>
    PROVE  /\ TypePc' /\ pc'[p] = l /\ \A q \in Pids : Ended(q) => Ended(q)'
           /\ UNCHANGED funnel => FunnelInv'
           /\ UNCHANGED <<scan, finishing>> /\ (UNCHANGED exits) => LifeInv'
           /\ ~Busy(Process(p)) /\ \A q \in Pids : q # p => pc'[q] = pc[q]
<1>1. pc \in [Pids -> {"none", "ready", "controls", "slice", "serving", "marking", "closing", "dead"}]
  BY ZenonT(60) DEF Grouped, Types, TypePc
<1>2. pc'[p] = l /\ \A q \in Pids : q # p => pc'[q] = pc[q]
  BY ZenonT(60), <1>1
<1>3. TypePc'
  BY ZenonT(60), <1>1 DEF TypePc, Running
<1>4. \A q \in Pids : Ended(q) => Ended(q)'
  BY ZenonT(60), <1>2 DEF Ended, Running
<1>5. ~Busy(Process(p))
  BY ZenonT(60) DEF Grouped, FunnelInv, Running
<1>6. ASSUME UNCHANGED funnel PROVE FunnelInv'
  <2>1. \A q \in Pids : funnel'[Process(q)].step # "idle" => pc'[q] = "closing"
    BY ZenonT(60), <1>2, <1>5, <1>6 DEF Grouped, FunnelInv, Busy
  <2>2. \A q \in Pids : funnel'[Spawner(q)].step # "idle" => spawn'[q] = "reclaiming"
    BY ZenonT(60), <1>6 DEF Grouped, FunnelInv, Busy
  <2>3. \A b \in Actors : funnel'[b].step # "idle" => Owes(b)'
    BY ZenonT(60), <1>4, <1>6, OwesFrame DEF Grouped, FunnelInv, Busy
  <2>4. /\ \A b \in Actors : funnel'[b].step = "remove" => funnel'[b].had = "none"
        /\ \A b \in Actors : funnel'[b].step = "release" => funnel'[b].had # "none"
    BY ZenonT(60), <1>6 DEF Grouped, FunnelInv
  <2> QED
    BY ZenonT(60), <2>1, <2>2, <2>3, <2>4, FunnelIntro
<1>7. ASSUME UNCHANGED <<scan, finishing, exits>> PROVE LifeInv'
  <2>1. \A q \in Pids : pc'[q] = "none" <=> spawn'[q] \in {"idle", "reserved", "failed"}
    BY ZenonT(60), <1>2 DEF Grouped, LifeInv, Running
  <2>2. \A q \in records' : spawn'[q] \in {"registered", "reclaiming", "converted"}
    BY ZenonT(60), <1>7 DEF Grouped, LifeInv
  <2>3. \A i \in DOMAIN exits' : pc'[exits'[i]] = "dead"
    <3>1. \A i \in DOMAIN exits : exits[i] \in Pids /\ pc[exits[i]] = "dead"
      BY SMTT(60) DEF Grouped, LifeInv, Types, TypeExit
    <3> QED
      BY ZenonT(60), <1>2, <1>7, <3>1 DEF Running
  <2>4. \A q \in scan' : pc'[q] # "none"
    <3>1. scan \subseteq Pids
      BY ZenonT(60) DEF Grouped, Types, TypeExit
    <3> QED
      BY ZenonT(60), <1>2, <1>7, <3>1 DEF Grouped, LifeInv, Running
  <2>5. \A q \in finishing' : spawn'[q] \in Recorded
    BY ZenonT(60), <1>7 DEF Grouped, LifeInv
  <2> QED
    BY ZenonT(60), <2>1, <2>2, <2>3, <2>4, <2>5 DEF LifeInv
<1> QED
  BY ZenonT(60), <1>2, <1>3, <1>4, <1>5, <1>6, <1>7

LEMMA RunningInv ==
    ASSUME Grouped, NEW p \in Pids,
           \/ RunSlice(p) \/ ControlsDrained(p) \/ EnterSlice(p) \/ SliceIdle(p)
           \/ WorkerAccept(p) \/ SetRegistration(p)
    PROVE  Grouped'
<1>1. /\ UNCHANGED <<admissions, spawn, records, funnel, push, slots, chan, due, controls, closing,
                     popped, sent, exits, lagged, scan, drain, generation, finishing, quota>>
      /\ mail' \subseteq mail /\ workers' \subseteq workers \cup {p}
      /\ missed' \subseteq missed \cup {p}
      /\ registered' \subseteq registered \cup records
  BY ZenonT(60) DEF RunSlice, ControlsDrained, EnterSlice, SliceIdle, WorkerAccept, SetRegistration, spawning, pushing, control, exiting,
         working, draining
<1>2. pc[p] \in Running /\ \E l \in Running : pc' = [pc EXCEPT ![p] = l]
  BY ZenonT(60) DEF RunSlice, ControlsDrained, EnterSlice, SliceIdle, WorkerAccept, SetRegistration, Running
<1>3. PICK l \in Running : pc' = [pc EXCEPT ![p] = l]
  BY ZenonT(60), <1>2
<1>4. /\ TypePc' /\ FunnelInv' /\ LifeInv' /\ \A q \in Pids : Ended(q) => Ended(q)'
  <2>1. pc[p] # "closing"
    BY ZenonT(60), <1>2 DEF Running
  <2> QED
    BY ZenonT(60), <1>1, <1>2, <1>3, <2>1, PcMoves
<1>5. TypeSpawn' /\ TypeMail'
  BY ZenonT(60), <1>1 DEF Grouped, Types, TypeSpawn, TypeMail
<1>6. Types'
  BY ZenonT(60), <1>1, <1>4, <1>5, TypeFrames DEF Types
<1>7. AdmissionsExact' /\ NoStrandedSlot' /\ QueueInv' /\ ChanInv'
  BY ZenonT(60), <1>1, <1>4, CountFrame, StrandFrame, QueueFrame, ChanFrame
<1> QED
  BY ZenonT(60), <1>4, <1>6, <1>7 DEF Grouped

LEMMA ResolvePushInv ==
    ASSUME Grouped, NEW p \in Pids, ResolvePush(p)
    PROVE  Grouped'
<1>1. /\ UNCHANGED <<admissions, spawn, records, registered, funnel, push, due, controls, mail,
                     closing, popped, sent, exits, lagged, scan, workers, missed, drain, generation, finishing, quota>>
      /\ pc[p] = "serving" /\ pc' = [pc EXCEPT ![p] = "ready"]
  BY ZenonT(60) DEF ResolvePush, spawning, control, exiting, working, draining
<1>2. PICK c \in sent : /\ slots' = slots \ {c}
                        /\ chan' = IF c \in slots THEN [chan EXCEPT ![c] = "reply"] ELSE chan
  BY ZenonT(60) DEF ResolvePush
<1>3. /\ TypePc' /\ FunnelInv' /\ LifeInv' /\ \A q \in Pids : Ended(q) => Ended(q)'
  BY ZenonT(60), <1>1, PcMoves DEF Running
<1>4. /\ slots \subseteq Pushes /\ chan \in [Pushes -> {"empty", "reply", "closed"}]
      /\ push \in [Pushes -> PushRecords]
  BY ZenonT(60) DEF Grouped, Types, TypePush
<1>5. /\ TypePush' /\ chan' \in [Pushes -> {"empty", "reply", "closed"}]
      /\ \A d \in Pushes : d # c => chan'[d] = chan[d]
      /\ c \in slots => chan'[c] = "reply"
      /\ c \notin slots => chan' = chan
  BY ZenonT(60), <1>1, <1>2, <1>4 DEF TypePush, Grouped, Types
<1>6. ChanInv'
  <2>1. ASSUME NEW d \in Pushes
        PROVE  /\ push[d].pc = "idle" => d \notin slots' /\ chan'[d] = "empty"
               /\ push[d].pc # "idle" => push[d].pid \in Pids
               /\ push[d].pc # "done" => push[d].result = "none"
               /\ d \in slots' => chan'[d] = "empty"
               /\ push[d].pc \notin {"idle", "done"} /\ d \notin slots' => chan'[d] # "empty"
               /\ push[d].result = "expired" => d \notin slots' /\ chan'[d] = "empty"
               /\ push[d].result = "disconnected" => chan'[d] = "closed"
               /\ push[d].result # "timeout"
    BY ZenonT(60), <1>2, <1>5 DEF Grouped, ChanInv, ChanOk
  <2>2. ASSUME NEW d \in Pushes, chan'[d] = "closed" PROVE Cut(d)'
    <3>1. chan[d] = "closed"
      BY ZenonT(60), <1>5, <2>2
    <3>2. Cut(d) /\ push[d].pid \in Pids
      BY ZenonT(60), <3>1 DEF Grouped, ChanInv, ChanOk
    <3> QED
      BY ZenonT(60), <1>1, <1>3, <3>2 DEF Cut
  <2> QED
    BY ZenonT(60), <1>1, <2>1, <2>2 DEF ChanInv, ChanOk
<1>7. NoStrandedSlot'
  BY ZenonT(60), <1>1, <1>2 DEF Grouped, NoStrandedSlot
<1>8. Types'
  BY ZenonT(60), <1>1, <1>3, <1>5, TypeFrames DEF Types
<1>9. AdmissionsExact' /\ QueueInv'
  BY ZenonT(60), <1>1, CountFrame, QueueFrame
<1> QED
  BY ZenonT(60), <1>3, <1>6, <1>7, <1>8, <1>9 DEF Grouped

(* The process enters its last slice.                                      *)
LEMMA ClosingStep ==
    ASSUME Grouped, NEW p \in Pids, pc[p] \in Running, pc' = [pc EXCEPT ![p] = "closing"],
           StartFunnel(Process(p), p),
           UNCHANGED <<admissions, spawn, records, push, slots, exits, scan, finishing>>
    PROVE  /\ TypePc' /\ TypeFunnel' /\ FunnelInv' /\ LifeInv' /\ AdmissionsExact'
           /\ NoStrandedSlot' /\ \A q \in Pids : Ended(q) => Ended(q)'
<1>1. /\ TypePc' /\ LifeInv' /\ \A q \in Pids : Ended(q) => Ended(q)'
      /\ ~Busy(Process(p)) /\ pc'[p] = "closing" /\ \A q \in Pids : q # p => pc'[q] = pc[q]
  <2>1. pc[p] # "closing"
    BY ZenonT(60) DEF Running
  <2> QED
    BY ZenonT(60), <2>1, PcMoves
<1>2. Process(p) \in Actors
  BY ZenonT(60), ActorFacts
<1>3. FunnelInv'
  <2>1. \A q \in Pids : Busy(Process(q)) \/ Process(p) = Process(q) => pc'[q] = "closing"
    BY ZenonT(60), <1>1, ActorFacts DEF Grouped, FunnelInv
  <2>2. \A q \in Pids : Busy(Spawner(q)) \/ Process(p) = Spawner(q) => spawn'[q] = "reclaiming"
    BY ZenonT(60), ActorFacts DEF Grouped, FunnelInv
  <2>3. Ended(p)'
    BY ZenonT(60), <1>1 DEF Ended
  <2> QED
    BY ZenonT(60), <1>1, <1>2, <2>1, <2>2, <2>3, StartInv
<1>4. TypeFunnel' /\ Removing' = Removing /\ NoStrandedSlot'
  BY ZenonT(60), <1>1, <1>2, StartStep
<1>5. Held' = Held
  BY ZenonT(60) DEF Held
<1> QED
  BY ZenonT(60), <1>1, <1>3, <1>4, <1>5, StartCount

LEMMA SliceEndsInv ==
    ASSUME Grouped, NEW p \in Pids, SliceEnds(p) \/ ErrorMessage(p)
    PROVE  Grouped'
<1>1. /\ UNCHANGED <<admissions, spawn, records, registered, push, slots, chan, due, controls, mail,
                     closing, popped, sent, exits, lagged, scan, workers, missed, drain, generation, finishing, quota>>
      /\ pc[p] \in Running /\ pc' = [pc EXCEPT ![p] = "closing"] /\ StartFunnel(Process(p), p)
  BY ZenonT(60) DEF SliceEnds, ErrorMessage, spawning, pushing, control, exiting, working, draining, Running
<1>2. /\ TypePc' /\ TypeFunnel' /\ FunnelInv' /\ LifeInv' /\ AdmissionsExact'
      /\ NoStrandedSlot' /\ \A q \in Pids : Ended(q) => Ended(q)'
  BY ZenonT(60), <1>1, ClosingStep
<1>3. Types'
  BY ZenonT(60), <1>1, <1>2, TypeFrames DEF Types
<1>4. QueueInv' /\ ChanInv'
  BY ZenonT(60), <1>1, <1>2, QueueFrame, ChanFrame
<1> QED
  BY ZenonT(60), <1>2, <1>3, <1>4 DEF Grouped

LEMMA DeathInv ==
    ASSUME Grouped, NEW p \in Pids, Stop(p) \/ Kill(p)
    PROVE  Grouped'
<1>1. /\ UNCHANGED <<admissions, spawn, records, registered, funnel, push, slots, chan, due, controls,
                     mail, closing, popped, sent, scan, workers, missed, drain, generation, finishing, quota>>
      /\ pc' = [pc EXCEPT ![p] = "dead"] /\ PublishExit(p)
  BY ZenonT(60) DEF Stop, Kill, PublishExit, spawning, pushing, control, working, draining
<1>2. pc[p] \in Running \cup {"closing"} /\ (pc[p] = "closing" => ~Busy(Process(p)))
  <2>1. CASE Stop(p)
    <3>1. pc[p] = "closing" /\ funnel[Process(p)] = Idle
      BY ZenonT(60), <2>1 DEF Stop
    <3> QED
      BY ZenonT(60), <3>1, IdleNotBusy
  <2>2. CASE Kill(p)
    <3>1. pc[p] = "ready"
      BY ZenonT(60), <2>2 DEF Kill
    <3> QED
      BY ZenonT(60), <3>1 DEF Running
  <2> QED
    BY ZenonT(60), <2>1, <2>2
<1>3. /\ TypePc' /\ FunnelInv' /\ pc'[p] = "dead" /\ \A q \in Pids : Ended(q) => Ended(q)'
      /\ \A q \in Pids : q # p => pc'[q] = pc[q]
  BY ZenonT(60), <1>1, <1>2, PcMoves
<1>4. exits \in Seq(Pids) /\ Len(exits) <= ExitCap /\ ExitCap \in Nat /\ lagged \in BOOLEAN
  BY ZenonT(60), BoundsAssumption DEF Grouped, Types, TypeExit
<1>5. TypeExit'
  <2>1. exits' \in Seq(Pids) /\ Len(exits') <= ExitCap
    BY SMTT(60), <1>1, <1>4 DEF PublishExit
  <2>2. lagged' \in BOOLEAN /\ scan' = scan
    BY ZenonT(60), <1>1, <1>4 DEF PublishExit
  <2> QED
    BY ZenonT(60), <2>1, <2>2 DEF TypeExit, Grouped, Types
<1>6. LifeInv'
  <2>1. \A q \in Pids : pc'[q] = "none" <=> spawn'[q] \in {"idle", "reserved", "failed"}
    BY ZenonT(60), <1>1, <1>2, <1>3 DEF Grouped, LifeInv, Running
  <2>2. \A q \in records' : spawn'[q] \in {"registered", "reclaiming", "converted"}
    BY ZenonT(60), <1>1 DEF Grouped, LifeInv
  <2>3. \A i \in DOMAIN exits' : pc'[exits'[i]] = "dead"
    <3>1. \A i \in DOMAIN exits : exits[i] \in Pids /\ pc[exits[i]] = "dead"
      BY SMTT(60), <1>4 DEF Grouped, LifeInv
    <3>2. exits' = exits \/ exits' = Append(exits, p)
      BY ZenonT(60), <1>1 DEF PublishExit
    <3>3. \A i \in DOMAIN exits' : exits'[i] = p \/ (i \in DOMAIN exits /\ exits'[i] = exits[i])
      BY SMTT(60), <1>4, <3>2
    <3> QED
      BY ZenonT(60), <1>3, <3>1, <3>3
  <2>4. \A q \in scan' : pc'[q] # "none"
    <3>1. scan \subseteq Pids
      BY ZenonT(60) DEF Grouped, Types, TypeExit
    <3> QED
      BY ZenonT(60), <1>1, <1>3, <3>1 DEF Grouped, LifeInv
  <2>5. \A q \in finishing' : spawn'[q] \in Recorded
    BY ZenonT(60), <1>1 DEF Grouped, LifeInv
  <2> QED
    BY ZenonT(60), <2>1, <2>2, <2>3, <2>4, <2>5 DEF LifeInv
<1>7. Types'
  BY ZenonT(60), <1>1, <1>3, <1>5, TypeFrames DEF Types
<1>8. AdmissionsExact' /\ NoStrandedSlot' /\ QueueInv' /\ ChanInv'
  BY ZenonT(60), <1>1, <1>3, CountFrame, StrandFrame, QueueFrame, ChanFrame
<1> QED
  BY ZenonT(60), <1>3, <1>6, <1>7, <1>8 DEF Grouped

(***************************************************************************)
(* Control queues.                                                         *)
(***************************************************************************)
LEMMA LeastExists ==
    ASSUME NEW S \in SUBSET Nat, NEW n \in S
    PROVE  \E z \in S : \A y \in S : z <= y
<1> DEFINE R == StrictSubsetOrdering(1..n)
<1> DEFINE V == {1..k : k \in {j \in S : j <= n}}
<1>1. IsWellFoundedOn(R, SUBSET (1..n))
  <2>1. IsFiniteSet(1..n)
    BY SMTT(60), FS_Interval
  <2>2. FiniteSubsetsOf(1..n) = SUBSET (1..n)
    BY ZenonT(60), <2>1, FS_FiniteSubsetsOfFinite
  <2>3. IsWellFoundedOn(R, FiniteSubsetsOf(1..n))
    BY ZenonT(60), FS_StrictSubsetOrderingWellFounded
  <2> QED
    BY ZenonT(60), <2>2, <2>3
<1>2. V \subseteq SUBSET (1..n) /\ V # {}
  OBVIOUS
<1>3. PICK X \in V : \A Y \in V : ~(<<Y, X>> \in R)
  <2> HIDE DEF R, V
  <2> QED
    BY ZenonT(60), <1>1, <1>2, WFMin
<1>4. PICK x \in S : x <= n /\ X = 1..x
  BY ZenonT(60)
<1>5. ASSUME NEW y \in S, y < x PROVE FALSE
  <2>1. 1..y \in V
    BY SMTT(60), <1>4, <1>5
  <2>2. 1..y \subseteq 1..x /\ x \in 1..x /\ x \notin 1..y
    BY SMTT(60), <1>4, <1>5
  <2>3. <<1..y, X>> \in R
    BY ZenonT(60), <1>2, <1>4, <2>1, <2>2 DEF StrictSubsetOrdering
  <2> QED
    BY ZenonT(60), <2>1, <2>3, <1>3
<1> QED
  BY SMTT(60), <1>4, <1>5

(* remove_control takes one entry equal to its key out, if there is one.    *)
LEMMA WithoutFacts ==
    ASSUME NEW S, NEW q \in Seq(S), NEW c, NEW w, w = Without(q, c)
    PROVE  /\ w \in Seq(S)
           /\ \/ w = q /\ \A i \in DOMAIN q : q[i] # c
              \/ \E k \in DOMAIN q : /\ q[k] = c /\ DOMAIN w = 1..(Len(q) - 1)
                                     /\ \A i \in DOMAIN w : w[i] = q[IF i < k THEN i ELSE i + 1]
<1>1. CASE \A i \in DOMAIN q : q[i] # c
  BY ZenonT(60), <1>1 DEF Without
<1>2. CASE ~(\A i \in DOMAIN q : q[i] # c)
  <2> DEFINE S0 == {i \in DOMAIN q : q[i] = c}
  <2>1. PICK n \in S0 : TRUE
    BY ZenonT(60), <1>2
  <2>2. S0 \in SUBSET Nat
    OBVIOUS
  <2>3. PICK z \in S0 : \A y \in S0 : z <= y
    BY ZenonT(60), <2>1, <2>2, LeastExists
  <2>4. z \in DOMAIN q /\ q[z] = c /\ \A j \in 1..(z - 1) : q[j] # c
    BY SMTT(60), <2>3
  <2>5. PICK k : k = Position(q, c)
    BY ZenonT(60)
  <2>6. k \in DOMAIN q /\ q[k] = c
    BY ZenonT(60), <2>4, <2>5 DEF Position
  <2>7. w = [i \in 1..(Len(q) - 1) |-> IF i < k THEN q[i] ELSE q[i + 1]]
    BY ZenonT(60), <1>2, <2>5 DEF Without
  <2>8. Len(q) \in Nat /\ Len(q) >= 1 /\ k \in 1..Len(q) /\ DOMAIN q = 1..Len(q)
    BY SMTT(60), <2>6
  <2>9. \A i \in 1..(Len(q) - 1) : w[i] \in S /\ w[i] = q[IF i < k THEN i ELSE i + 1]
    BY SMTT(60), <2>7, <2>8
  <2>10. w \in [1..(Len(q) - 1) -> S] /\ Len(q) - 1 \in Nat
    BY SMTT(60), <2>7, <2>8, <2>9
  <2>11. w \in Seq(S)
    BY SMTT(60), <2>10
  <2> QED
    BY ZenonT(60), <2>6, <2>7, <2>9, <2>11
<1> QED
  BY ZenonT(60), <1>1, <1>2

LEMMA ForceCloseIsNoPush == ForceClose \notin Pushes
BY SMTT(60) DEF ForceClose, Pushes

(* w has only entries of v, and one twice only if v does.                   *)
Shrinks(w, v) ==
    /\ \A i \in DOMAIN w : \E k \in DOMAIN v : v[k] = w[i]
    /\ \A i, j \in DOMAIN w : i # j /\ w[i] = w[j] =>
          \E k, m \in DOMAIN v : k # m /\ v[k] = w[i] /\ v[m] = w[i]

(* The queues of the other connections, and a queue that loses entries.     *)
LEMMA QueueShrinks ==
    ASSUME Grouped, NEW p \in Pids, NEW w \in Seq(Pushes \cup {ForceClose}),
           controls' = [controls EXCEPT ![p] = w], Shrinks(w, controls[p])
    PROVE  /\ TypeControls'
           /\ \A q \in Pids : \A i \in DOMAIN controls'[q] : controls'[q][i] # ForceClose =>
                 /\ Published(controls'[q][i]) /\ controls'[q][i] \notin popped
                 /\ push[controls'[q][i]].pid = q
                 /\ \A j \in DOMAIN controls'[q] : controls'[q][j] = controls'[q][i] => i = j
           /\ controls'[p] = w /\ \A q \in Pids : q # p => controls'[q] = controls[q]
<1>1. controls \in [Pids -> Seq(Pushes \cup {ForceClose})]
  BY ZenonT(60) DEF Grouped, Types, TypeControls
<1>2. controls'[p] = w /\ \A q \in Pids : q # p => controls'[q] = controls[q]
  BY ZenonT(60), <1>1
<1>3. TypeControls'
  BY ZenonT(60), <1>1 DEF TypeControls
<1>4. ASSUME NEW q \in Pids, NEW i \in DOMAIN controls'[q], controls'[q][i] # ForceClose
      PROVE  /\ Published(controls'[q][i]) /\ controls'[q][i] \notin popped
             /\ push[controls'[q][i]].pid = q
             /\ \A j \in DOMAIN controls'[q] : controls'[q][j] = controls'[q][i] => i = j
  <2>1. CASE q # p
    BY SMTT(60), <1>2, <1>4, <2>1 DEF Grouped, QueueInv
  <2>2. CASE q = p
    <3>1. i \in DOMAIN w /\ w[i] # ForceClose
      BY ZenonT(60), <1>2, <1>4, <2>2
    <3>2. PICK k \in DOMAIN controls[p] : controls[p][k] = w[i]
      BY ZenonT(60), <3>1 DEF Shrinks
    <3>3. /\ Published(w[i]) /\ w[i] \notin popped /\ push[w[i]].pid = p
          /\ \A m \in DOMAIN controls[p] : controls[p][m] = w[i] => k = m
      BY SMTT(60), <3>1, <3>2 DEF Grouped, QueueInv
    <3>4. \A j \in DOMAIN w : w[j] = w[i] => i = j
      BY ZenonT(60), <3>1, <3>3 DEF Shrinks
    <3> QED
      BY ZenonT(60), <1>2, <2>2, <3>3, <3>4
  <2> QED
    BY ZenonT(60), <2>1, <2>2
<1> QED
  BY ZenonT(60), <1>2, <1>3, <1>4

LEMMA TailFacts ==
    ASSUME NEW S, NEW q \in Seq(S), q # <<>>
    PROVE  /\ Tail(q) \in Seq(S) /\ Head(q) \in S /\ 1 \in DOMAIN q /\ q[1] = Head(q)
           /\ DOMAIN Tail(q) = 1..(Len(q) - 1)
           /\ \A i \in DOMAIN Tail(q) : i + 1 \in DOMAIN q /\ Tail(q)[i] = q[i + 1]
OBVIOUS

LEMMA PopControlInv ==
    ASSUME Grouped, NEW p \in Pids, PopControl(p)
    PROVE  Grouped'
<1>1. PICK c : c = Head(controls[p])
  BY ZenonT(60)
<1>2. /\ UNCHANGED <<admissions, spawn, records, registered, push, due, mail, closing, exits, lagged,
                     scan, workers, missed, drain, generation, finishing, quota>>
      /\ pc[p] = "controls" /\ controls[p] # <<>>
      /\ controls' = [controls EXCEPT ![p] = Tail(controls[p])]
  BY ZenonT(60) DEF PopControl, spawning, exiting, working, draining
<1>3. /\ controls[p] \in Seq(Pushes \cup {ForceClose})
      /\ popped \subseteq Pushes /\ sent \subseteq popped /\ slots \subseteq Pushes
  BY ZenonT(60) DEF Grouped, Types, TypeControls, TypeTaken, TypePush
<1>4. PICK w : w = Tail(controls[p])
  BY ZenonT(60)
<1>5. /\ w \in Seq(Pushes \cup {ForceClose}) /\ c \in Pushes \cup {ForceClose}
      /\ 1 \in DOMAIN controls[p] /\ controls[p][1] = c /\ DOMAIN w \subseteq Nat \ {0}
      /\ \A i \in DOMAIN w : i + 1 \in DOMAIN controls[p] /\ w[i] = controls[p][i + 1]
  BY SMTT(60), <1>1, <1>2, <1>3, <1>4, TailFacts
<1>6. controls' = [controls EXCEPT ![p] = w]
  BY ZenonT(60), <1>2, <1>4
<1>7. Shrinks(w, controls[p])
  <2>1. ASSUME NEW i \in DOMAIN w, NEW j \in DOMAIN w, i # j, w[i] = w[j]
        PROVE  \E k, m \in DOMAIN controls[p] :
                  k # m /\ controls[p][k] = w[i] /\ controls[p][m] = w[i]
    <3>1. i + 1 \in DOMAIN controls[p] /\ j + 1 \in DOMAIN controls[p] /\ i + 1 # j + 1
      BY SMTT(60), <1>5, <2>1
    <3> QED
      BY ZenonT(60), <1>5, <2>1, <3>1
  <2>2. \A i \in DOMAIN w : \E k \in DOMAIN controls[p] : controls[p][k] = w[i]
    BY ZenonT(60), <1>5
  <2> QED
    BY ZenonT(60), <2>1, <2>2 DEF Shrinks
<1>8. /\ TypeControls'
      /\ \A q \in Pids : \A i \in DOMAIN controls'[q] : controls'[q][i] # ForceClose =>
            /\ Published(controls'[q][i]) /\ controls'[q][i] \notin popped
            /\ push[controls'[q][i]].pid = q
            /\ \A j \in DOMAIN controls'[q] : controls'[q][j] = controls'[q][i] => i = j
      /\ controls'[p] = w /\ \A q \in Pids : q # p => controls'[q] = controls[q]
  BY ZenonT(60), <1>5, <1>6, <1>7, QueueShrinks
<1>9. CASE c = ForceClose
  <2>1. /\ pc' = [pc EXCEPT ![p] = "closing"] /\ StartFunnel(Process(p), p)
        /\ UNCHANGED <<popped, sent, slots, chan>>
    BY ZenonT(60), <1>1, <1>9 DEF PopControl
  <2>2. /\ TypePc' /\ TypeFunnel' /\ FunnelInv' /\ LifeInv' /\ AdmissionsExact'
        /\ NoStrandedSlot' /\ \A q \in Pids : Ended(q) => Ended(q)'
    BY ZenonT(60), <1>2, <2>1, ClosingStep DEF Running
  <2>3. Types'
    BY ZenonT(60), <1>2, <1>8, <2>1, <2>2, TypeFrames DEF Types
  <2>4. ChanInv'
    BY ZenonT(60), <1>2, <2>1, <2>2, ChanFrame
  <2>5. QueueInv'
    BY SMTT(60), <1>2, <1>8, <2>1 DEF Grouped, QueueInv, Published
  <2> QED
    BY ZenonT(60), <2>2, <2>3, <2>4, <2>5 DEF Grouped
<1>10. CASE c # ForceClose
  <2>1. /\ popped' = popped \cup {c} /\ UNCHANGED <<pc, funnel>>
        /\ \/ sent' = sent \cup {c} /\ UNCHANGED <<slots, chan>>
           \/ slots' = slots \ {c} /\ chan' = Disconnect({c} \cap slots) /\ UNCHANGED sent
    BY ZenonT(60), <1>1, <1>10 DEF PopControl
  <2>2. /\ c \in Pushes /\ Published(c) /\ c \notin popped /\ push[c].pid = p
        /\ \A j \in DOMAIN controls[p] : controls[p][j] = c => j = 1
    BY ZenonT(60), <1>5, <1>10 DEF Grouped, QueueInv
  <2>3. QueueInv'
    <3>1. \A d \in popped' : Published(d)
      BY ZenonT(60), <2>1, <2>2 DEF Grouped, QueueInv
    <3>2. \A q \in Pids : \A i \in DOMAIN controls'[q] :
             controls'[q][i] # ForceClose => controls'[q][i] # c
      <4>1. \A i \in DOMAIN w : w[i] # c
        BY SMTT(60), <1>5, <2>2
      <4> QED
        BY SMTT(60), <1>8, <2>2, <4>1
    <3> QED
      BY SMTT(60), <1>2, <1>8, <2>1, <3>1, <3>2 DEF QueueInv, Published
  <2>4. \A d \in Pushes : Cut(d) => Cut(d)'
    BY ZenonT(60), <1>2, <1>3, <2>1, <2>2 DEF Cut, Ended
  <2>5. ChanInv' /\ TypePush'
    <3>1. CASE UNCHANGED <<slots, chan>>
      <4>1. ChanInv'
        BY ZenonT(60), <1>2, <2>4, <3>1 DEF Grouped, ChanInv, ChanOk
      <4> QED
        BY ZenonT(60), <1>2, <3>1, <4>1, TypeFrames
    <3>2. CASE slots' = slots \ {c} /\ chan' = Disconnect({c} \cap slots) /\ UNCHANGED sent
      <4>1. PICK cs : cs = {c} \cap slots
        BY ZenonT(60)
      <4>2. cs \in SUBSET slots /\ slots' = slots \ cs /\ chan' = Disconnect(cs)
        BY ZenonT(60), <3>2, <4>1
      <4>3. \A d \in cs : Cut(d)'
        BY ZenonT(60), <1>3, <2>1, <2>2, <3>2, <4>1 DEF Cut
      <4> QED
        BY ZenonT(60), <1>2, <2>4, <4>2, <4>3, DisconnectInv
    <3> QED
      BY ZenonT(60), <2>1, <3>1, <3>2
  <2>6. NoStrandedSlot'
    <3>1. slots' \subseteq slots
      BY ZenonT(60), <2>1
    <3> QED
      BY ZenonT(60), <1>2, <2>1, <3>1 DEF Grouped, NoStrandedSlot
  <2>7. TypeTaken'
    BY ZenonT(60), <1>3, <2>1, <2>2 DEF TypeTaken
  <2>8. Types'
    BY ZenonT(60), <1>2, <1>8, <2>1, <2>5, <2>7, TypeFrames DEF Types
  <2>9. FunnelInv' /\ LifeInv' /\ AdmissionsExact'
    BY ZenonT(60), <1>2, <2>1, FunnelFrame, LifeFrame, CountFrame
  <2> QED
    BY ZenonT(60), <2>3, <2>5, <2>6, <2>8, <2>9 DEF Grouped
<1> QED
  BY ZenonT(60), <1>9, <1>10

(* Nothing but the control queues, the mailboxes and the wakes changes.     *)
LEMMA ControlFrame ==
    ASSUME Grouped, TypeControls', TypeMail', QueueInv',
           UNCHANGED <<admissions, spawn, records, registered, pc, funnel, push, slots, chan, due,
                       popped, sent, exits, lagged, scan, drain, generation, finishing, quota>>
    PROVE  Grouped'
<1>1. \A q \in Pids : Ended(q) => Ended(q)'
  BY ZenonT(60), EndedFrame
<1>2. Types'
  BY ZenonT(60), TypeFrames DEF Types
<1>3. FunnelInv' /\ LifeInv' /\ AdmissionsExact' /\ NoStrandedSlot' /\ ChanInv'
  BY ZenonT(60), <1>1, FunnelFrame, LifeFrame, CountFrame, StrandFrame, ChanFrame
<1> QED
  BY ZenonT(60), <1>2, <1>3 DEF Grouped

(* An entry joins a queue: ForceClose, or a push that is in none yet.       *)
LEMMA QueueGrows ==
    ASSUME Grouped, NEW p \in Pids, NEW c \in Pushes \cup {ForceClose},
           controls' = [controls EXCEPT ![p] = Append(controls[p], c)], UNCHANGED popped,
           \A d \in Pushes : Published(d) => IsPublished(push'[d]),
           \A d \in Pushes : push'[d].pid = push[d].pid,
           c # ForceClose => ~Published(c) /\ IsPublished(push'[c]) /\ push[c].pid = p
    PROVE  TypeControls' /\ QueueInv'
<1>1. controls \in [Pids -> Seq(Pushes \cup {ForceClose})] /\ popped \subseteq Pushes
  BY ZenonT(60) DEF Grouped, Types, TypeControls, TypeTaken
<1>2. /\ controls'[p] = Append(controls[p], c)
      /\ \A q \in Pids : q # p => controls'[q] = controls[q]
  BY ZenonT(60), <1>1
<1>3. TypeControls'
  <2>1. Append(controls[p], c) \in Seq(Pushes \cup {ForceClose})
    BY SMTT(60), <1>1
  <2> QED
    BY ZenonT(60), <1>1, <2>1 DEF TypeControls
<1>4. ASSUME NEW q \in Pids, NEW i \in DOMAIN controls[q], controls[q][i] # ForceClose
      PROVE  /\ controls[q][i] \in Pushes /\ controls[q][i] # c
             /\ IsPublished(push'[controls[q][i]]) /\ controls[q][i] \notin popped
             /\ push'[controls[q][i]].pid = q
             /\ \A j \in DOMAIN controls[q] : controls[q][j] = controls[q][i] => i = j
  <2>1. controls[q][i] \in Pushes
    BY SMTT(60), <1>1, <1>4
  <2>2. /\ Published(controls[q][i]) /\ controls[q][i] \notin popped
        /\ push[controls[q][i]].pid = q
        /\ \A j \in DOMAIN controls[q] : controls[q][j] = controls[q][i] => i = j
    BY ZenonT(60), <1>4 DEF Grouped, QueueInv
  <2> QED
    BY ZenonT(60), <1>4, <2>1, <2>2
<1>5. ASSUME NEW q \in Pids, NEW i \in DOMAIN controls'[q], controls'[q][i] # ForceClose
      PROVE  /\ IsPublished(push'[controls'[q][i]]) /\ controls'[q][i] \notin popped
             /\ push'[controls'[q][i]].pid = q
             /\ \A j \in DOMAIN controls'[q] : controls'[q][j] = controls'[q][i] => i = j
  <2>1. CASE q # p
    BY SMTT(60), <1>2, <1>4, <1>5, <2>1
  <2>2. CASE q = p
    <3> DEFINE n == Len(controls[p]) + 1
    <3>1. /\ controls'[p] = Append(controls[p], c) /\ DOMAIN controls'[p] = 1..n
          /\ controls'[p][n] = c /\ DOMAIN controls[p] = 1..(n - 1) /\ n \in Nat
          /\ \A j \in 1..(n - 1) : controls'[p][j] = controls[p][j]
      BY SMTT(60), <1>1, <1>2
    <3> HIDE DEF n
    <3>2. CASE i = n
      <4>1. c # ForceClose /\ c \in Pushes /\ c \notin popped
        BY ZenonT(60), <1>5, <2>2, <3>1, <3>2 DEF Grouped, QueueInv
      <4>2. \A j \in 1..(n - 1) : controls[p][j] # c
        BY SMTT(60), <1>4, <3>1, <4>1
      <4>3. \A j \in DOMAIN controls'[q] : controls'[q][j] = c => i = j
        BY SMTT(60), <2>2, <3>1, <3>2, <4>2
      <4> QED
        BY ZenonT(60), <2>2, <3>1, <3>2, <4>1, <4>3
    <3>3. CASE i # n
      <4>1. i \in DOMAIN controls[p] /\ controls'[p][i] = controls[p][i]
        BY SMTT(60), <1>5, <2>2, <3>1, <3>3
      <4>2. \A j \in DOMAIN controls'[p] : controls'[p][j] = controls'[p][i] => i = j
        BY SMTT(60), <1>4, <1>5, <2>2, <3>1, <4>1
      <4> QED
        BY SMTT(60), <1>4, <1>5, <2>2, <4>1, <4>2
    <3> QED
      BY ZenonT(60), <3>2, <3>3
  <2> QED
    BY ZenonT(60), <2>1, <2>2
<1>6. ASSUME NEW d \in popped PROVE IsPublished(push'[d])
  BY ZenonT(60), <1>1 DEF Grouped, QueueInv
<1>7. QueueInv'
  BY SMTT(60), <1>5, <1>6 DEF QueueInv, Published
<1> QED
  BY ZenonT(60), <1>3, <1>7

LEMMA WithoutShrinks ==
    ASSUME NEW S, NEW q \in Seq(S), NEW c, NEW w, w = Without(q, c)
    PROVE  Shrinks(w, q)
<1>1. CASE w = q
  BY ZenonT(60), <1>1 DEF Shrinks
<1>2. ASSUME NEW n \in DOMAIN q, DOMAIN w = 1..(Len(q) - 1),
             \A i \in DOMAIN w : w[i] = q[IF i < n THEN i ELSE i + 1]
      PROVE  Shrinks(w, q)
  <2>1. DOMAIN q = 1..Len(q) /\ Len(q) \in Nat
    OBVIOUS
  <2>2. \A i \in DOMAIN w : \E k \in DOMAIN q : q[k] = w[i]
    BY SMTT(60), <1>2, <2>1
  <2>3. ASSUME NEW i \in DOMAIN w, NEW j \in DOMAIN w, i # j, w[i] = w[j]
        PROVE  \E k, m \in DOMAIN q : k # m /\ q[k] = w[i] /\ q[m] = w[i]
    <3>1. PICK k : k = IF i < n THEN i ELSE i + 1
      BY ZenonT(60)
    <3>2. PICK m : m = IF j < n THEN j ELSE j + 1
      BY ZenonT(60)
    <3>3. k \in DOMAIN q /\ m \in DOMAIN q /\ k # m
      BY SMTT(60), <1>2, <2>1, <2>3, <3>1, <3>2
    <3>4. q[k] = w[i] /\ q[m] = w[j]
      BY ZenonT(60), <1>2, <3>1, <3>2
    <3> QED
      BY ZenonT(60), <2>3, <3>3, <3>4
  <2> QED
    BY ZenonT(60), <2>2, <2>3 DEF Shrinks
<1> QED
  BY SMTT(60), <1>1, <1>2, WithoutFacts

(***************************************************************************)
(* The shutdown thread's ForceClose.                                       *)
(***************************************************************************)
LEMMA ForceCloseQueueInv ==
    ASSUME Grouped, NEW p \in Pids, ForceCloseQueue(p)
    PROVE  Grouped'
<1>1. /\ UNCHANGED <<admissions, spawn, records, registered, pc, funnel, push, slots, chan, due, mail,
                     popped, sent, exits, lagged, scan, workers, missed, drain, generation, finishing, quota>>
      /\ controls' = [controls EXCEPT ![p] = Append(controls[p], ForceClose)]
      /\ closing' = [closing EXCEPT ![p] = "wake"]
  BY ZenonT(60) DEF ForceCloseQueue, spawning, pushing, exiting, working, draining
<1>2. TypeControls' /\ QueueInv'
  <2>1. /\ \A d \in Pushes : Published(d) => IsPublished(push'[d])
        /\ \A d \in Pushes : push'[d].pid = push[d].pid
    BY ZenonT(60), <1>1 DEF Published
  <2>2. PICK c \in Pushes \cup {ForceClose} : c = ForceClose
    BY ZenonT(60)
  <2>3. controls' = [controls EXCEPT ![p] = Append(controls[p], c)] /\ UNCHANGED popped
    BY ZenonT(60), <1>1, <2>2
  <2>4. c # ForceClose => ~Published(c) /\ IsPublished(push'[c]) /\ push[c].pid = p
    BY ZenonT(60), <2>2
  <2> QED
    BY ZenonT(60), <2>1, <2>3, <2>4, QueueGrows
<1>3. TypeMail'
  BY ZenonT(60), <1>1 DEF Grouped, Types, TypeMail
<1> QED
  BY ZenonT(60), <1>1, <1>2, <1>3, ControlFrame

LEMMA ForceCloseWakeInv ==
    ASSUME Grouped, NEW p \in Pids, ForceCloseWake(p)
    PROVE  Grouped'
<1>1. /\ UNCHANGED <<admissions, spawn, records, registered, pc, funnel, push, slots, chan, due,
                     controls, popped, sent, exits, lagged, scan, workers, missed, drain, generation, finishing, quota>>
      /\ mail' = IF Live(p) THEN mail \cup {p} ELSE mail
      /\ closing' = [closing EXCEPT ![p] = IF Live(p) THEN "done" ELSE "unqueue"]
  BY ZenonT(60) DEF ForceCloseWake, spawning, pushing, exiting, working, draining
<1>2. TypeControls' /\ QueueInv'
  BY ZenonT(60), <1>1, QueueFrame, TypeFrames
<1>3. TypeMail'
  BY ZenonT(60), <1>1 DEF Grouped, Types, TypeMail
<1> QED
  BY ZenonT(60), <1>1, <1>2, <1>3, ControlFrame

LEMMA ForceCloseUnqueueInv ==
    ASSUME Grouped, NEW p \in Pids, ForceCloseUnqueue(p)
    PROVE  Grouped'
<1>1. /\ UNCHANGED <<admissions, spawn, records, registered, pc, funnel, push, slots, chan, due, mail,
                     popped, sent, exits, lagged, scan, workers, missed, drain, generation, finishing, quota>>
      /\ controls' = [controls EXCEPT ![p] = Without(controls[p], ForceClose)]
      /\ closing' = [closing EXCEPT ![p] = "done"]
  BY ZenonT(60) DEF ForceCloseUnqueue, spawning, pushing, exiting, working, draining
<1>2. PICK w : w = Without(controls[p], ForceClose)
  BY ZenonT(60)
<1>3. controls[p] \in Seq(Pushes \cup {ForceClose})
  BY ZenonT(60) DEF Grouped, Types, TypeControls
<1>4. w \in Seq(Pushes \cup {ForceClose})
  BY ZenonT(60), <1>2, <1>3, WithoutFacts
<1>5. controls' = [controls EXCEPT ![p] = w] /\ Shrinks(w, controls[p])
  BY ZenonT(60), <1>1, <1>2, <1>3, WithoutShrinks
<1>6. /\ TypeControls'
      /\ \A q \in Pids : \A i \in DOMAIN controls'[q] : controls'[q][i] # ForceClose =>
            /\ Published(controls'[q][i]) /\ controls'[q][i] \notin popped
            /\ push[controls'[q][i]].pid = q
            /\ \A j \in DOMAIN controls'[q] : controls'[q][j] = controls'[q][i] => i = j
      /\ controls'[p] = w /\ \A q \in Pids : q # p => controls'[q] = controls[q]
  BY ZenonT(60), <1>4, <1>5, QueueShrinks
<1>7. QueueInv'
  BY SMTT(60), <1>1, <1>6 DEF Grouped, QueueInv, Published
<1>8. TypeMail'
  BY ZenonT(60), <1>1 DEF Grouped, Types, TypeMail
<1> QED
  BY ZenonT(60), <1>1, <1>6, <1>7, <1>8, ControlFrame

(***************************************************************************)
(* The reactor and the last removals of the supervisor's shutdown.         *)
(***************************************************************************)
LEMMA HostStarts ==
    ASSUME Grouped, NEW p \in Pids, NEW a \in {Reactor, Host}, ~Busy(a), StartFunnel(a, p),
           Ended(p) \/ (a = Host /\ spawn[p] \in Recorded),
           UNCHANGED <<admissions, spawn, records, registered, pc, push, slots, chan, due, controls,
                       mail, closing, popped, sent, workers, missed>>,
           TypeExit', TypeDrain', LifeInv'
    PROVE  Grouped'
<1>1. a \in Actors
  BY ZenonT(60), ActorFacts
<1>2. /\ Ended(p)' \/ (a = Host /\ spawn'[p] \in Recorded)
      /\ \A q \in Pids : Ended(q) => Ended(q)'
      /\ \A q \in Pids : spawn[q] \in Recorded => spawn'[q] \in Recorded
  BY ZenonT(60), EndedFrame
<1>3. \A q \in Pids : Busy(Process(q)) \/ a = Process(q) => pc'[q] = "closing"
  BY ZenonT(60), ActorFacts DEF Grouped, FunnelInv
<1>4. \A q \in Pids : Busy(Spawner(q)) \/ a = Spawner(q) => spawn'[q] = "reclaiming"
  BY ZenonT(60), ActorFacts DEF Grouped, FunnelInv
<1>5. FunnelInv'
  BY ZenonT(60), <1>1, <1>2, <1>3, <1>4, StartInv
<1>6. TypeFunnel' /\ Removing' = Removing /\ NoStrandedSlot'
  BY ZenonT(60), <1>1, StartStep
<1>7. AdmissionsExact'
  <2>1. Held' = Held
    BY ZenonT(60) DEF Held
  <2> QED
    BY ZenonT(60), <1>6, <2>1, StartCount
<1>8. Types'
  BY ZenonT(60), <1>6, TypeFrames DEF Types
<1>9. QueueInv' /\ ChanInv'
  BY ZenonT(60), <1>2, QueueFrame, ChanFrame
<1> QED
  BY ZenonT(60), <1>5, <1>6, <1>7, <1>8, <1>9 DEF Grouped

LEMMA DeliverReclamationInv ==
    ASSUME Grouped, DeliverReclamation
    PROVE  Grouped'
<1>1. /\ UNCHANGED <<admissions, spawn, records, registered, pc, push, slots, chan, due, controls,
                     mail, closing, popped, sent, lagged, scan, workers, missed, drain, generation, finishing, quota>>
      /\ exits # <<>> /\ exits' = Tail(exits) /\ StartFunnel(Reactor, Head(exits))
  BY ZenonT(60) DEF DeliverReclamation, spawning, pushing, control, working, draining
<1>2. ~Busy(Reactor)
  BY ZenonT(60), IdleNotBusy DEF DeliverReclamation, ReactorFree
<1>3. exits \in Seq(Pids) /\ Len(exits) <= ExitCap /\ ExitCap \in Nat
  BY ZenonT(60), BoundsAssumption DEF Grouped, Types, TypeExit
<1>4. PICK p : p = Head(exits)
  BY ZenonT(60)
<1>5. p \in Pids /\ pc[p] = "dead"
  <2>1. Head(exits) \in Pids /\ 1 \in DOMAIN exits /\ exits[1] = Head(exits)
    BY ZenonT(60), <1>1, <1>3, TailFacts
  <2> QED
    BY ZenonT(60), <1>4, <2>1 DEF Grouped, LifeInv
<1>6. TypeExit'
  <2>1. exits' \in Seq(Pids) /\ Len(exits') <= ExitCap
    BY SMTT(60), <1>1, <1>3
  <2> QED
    BY ZenonT(60), <1>1, <2>1 DEF Grouped, Types, TypeExit
<1>7. LifeInv'
  <2>1. \A i \in DOMAIN Tail(exits) : i + 1 \in DOMAIN exits /\ Tail(exits)[i] = exits[i + 1]
    BY ZenonT(60), <1>1, <1>3, TailFacts
  <2>2. \A i \in DOMAIN exits' : pc[exits'[i]] = "dead"
    BY SMTT(60), <1>1, <2>1 DEF Grouped, LifeInv
  <2> QED
    BY ZenonT(60), <1>1, <2>2 DEF Grouped, LifeInv
<1>8. Ended(p) /\ StartFunnel(Reactor, p)
  BY ZenonT(60), <1>1, <1>4, <1>5 DEF Ended
<1> QED
  BY ZenonT(60), <1>1, <1>2, <1>5, <1>6, <1>7, <1>8, HostStarts, TypeFrames

(* Only what the reactor holds changes, and no funnel starts.              *)
LEMMA ScanMoves ==
    ASSUME Grouped, TypeExit', LifeInv',
           UNCHANGED <<admissions, spawn, records, registered, pc, funnel, push, slots, chan, due,
                       controls, mail, closing, popped, sent, workers, missed, drain, generation, finishing, quota>>
    PROVE  Grouped'
<1>1. \A q \in Pids : Ended(q) => Ended(q)'
  BY ZenonT(60), EndedFrame
<1>2. Types'
  BY ZenonT(60), TypeFrames DEF Types
<1>3. FunnelInv' /\ AdmissionsExact' /\ NoStrandedSlot' /\ QueueInv' /\ ChanInv'
  BY ZenonT(60), <1>1, FunnelFrame, CountFrame, StrandFrame, QueueFrame, ChanFrame
<1> QED
  BY ZenonT(60), <1>2, <1>3 DEF Grouped

LEMMA ReapInv ==
    ASSUME Grouped, ReapCrashed \/ ReapOne
    PROVE  Grouped'
<1>1. /\ UNCHANGED <<admissions, spawn, records, registered, pc, push, slots, chan, due, controls,
                     mail, closing, popped, sent, exits, workers, missed, drain, generation, finishing, quota>>
      /\ lagged' = lagged \/ lagged' = FALSE
  BY ZenonT(60) DEF ReapCrashed, ReapOne, spawning, pushing, control, working, draining
<1>2. records \subseteq Pids /\ scan \subseteq Pids /\ lagged \in BOOLEAN
  BY ZenonT(60) DEF Grouped, Types, TypeSpawn, TypeExit
<1>3. \A p \in records : pc[p] # "none"
  BY ZenonT(60), <1>2 DEF Grouped, LifeInv
<1>4. scan' \subseteq records \cup scan
  BY ZenonT(60) DEF ReapCrashed, ReapOne
<1>5. TypeExit' /\ LifeInv'
  <2>1. \A p \in scan' : pc[p] # "none"
    BY ZenonT(60), <1>3, <1>4 DEF Grouped, LifeInv
  <2>2. LifeInv'
    BY ZenonT(60), <1>1, <2>1 DEF Grouped, LifeInv
  <2>3. scan' \subseteq Pids /\ lagged' \in BOOLEAN
    BY ZenonT(60), <1>1, <1>2, <1>4
  <2> QED
    BY ZenonT(60), <1>1, <2>2, <2>3 DEF Grouped, Types, TypeExit
<1>6. CASE ReapCrashed
  BY ZenonT(60), <1>1, <1>5, <1>6, ScanMoves DEF ReapCrashed
<1>7. CASE ReapOne
  <2>1. PICK p \in scan : IF Live(p) THEN UNCHANGED funnel ELSE StartFunnel(Reactor, p)
    BY ZenonT(60), <1>7 DEF ReapOne
  <2>2. CASE Live(p)
    BY ZenonT(60), <1>1, <1>5, <2>1, <2>2, ScanMoves
  <2>3. CASE ~Live(p)
    <3>1. p \in Pids /\ Ended(p)
      BY ZenonT(60), <1>2, <2>3 DEF Live, ProcessTable, Ended, Grouped, LifeInv
    <3>2. ~Busy(Reactor)
      BY ZenonT(60), <1>7, IdleNotBusy DEF ReapOne
    <3> QED
      BY ZenonT(60), <1>1, <1>5, <2>1, <2>3, <3>1, <3>2, HostStarts, TypeFrames
  <2> QED
    BY ZenonT(60), <2>2, <2>3
<1> QED
  BY ZenonT(60), <1>6, <1>7

LEMMA ShutdownInv ==
    ASSUME Grouped, Shutdown \/ Finish
    PROVE  Grouped'
<1>1. /\ UNCHANGED <<admissions, spawn, records, registered, pc, push, slots, chan, due, controls,
                     mail, closing, popped, sent, exits, lagged, scan, workers, missed, drain,
                     generation, quota>>
      /\ finishing' \subseteq records \cup finishing
  BY ZenonT(60) DEF Shutdown, Finish, spawning, pushing, control, exiting, working
<1>2. records \subseteq Pids /\ finishing \subseteq Pids
  BY ZenonT(60) DEF Grouped, Types, TypeSpawn, TypeDrain
<1>3. \A p \in records \cup finishing : spawn[p] \in Recorded
  BY ZenonT(60) DEF Grouped, LifeInv, Recorded
<1>4. TypeDrain' /\ TypeExit'
  <2>1. finishing' \subseteq Pids
    BY ZenonT(60), <1>1, <1>2
  <2>2. TypeDrain'
    BY ZenonT(60), <1>1, <2>1 DEF Grouped, Types, TypeDrain
  <2> QED
    BY ZenonT(60), <1>1, <2>2, TypeFrames
<1>5. LifeInv'
  <2>1. \A p \in finishing' : spawn'[p] \in Recorded
    BY ZenonT(60), <1>1, <1>3
  <2> QED
    BY ZenonT(60), <1>1, <2>1 DEF Grouped, LifeInv
<1>6. CASE Shutdown
  <2>1. UNCHANGED funnel
    BY ZenonT(60), <1>6 DEF Shutdown
  <2>2. \A q \in Pids : Ended(q) => Ended(q)'
    BY ZenonT(60), <1>1, EndedFrame
  <2>3. Types'
    BY ZenonT(60), <1>1, <1>4, <2>1, TypeFrames DEF Types
  <2>4. FunnelInv' /\ AdmissionsExact' /\ NoStrandedSlot' /\ QueueInv' /\ ChanInv'
    BY ZenonT(60), <1>1, <2>1, <2>2, FunnelFrame, CountFrame, StrandFrame, QueueFrame, ChanFrame
  <2> QED
    BY ZenonT(60), <1>5, <2>3, <2>4 DEF Grouped
<1>7. CASE Finish
  <2>1. PICK p \in finishing : StartFunnel(Host, p)
    BY ZenonT(60), <1>7 DEF Finish
  <2>2. p \in Pids /\ spawn[p] \in Recorded /\ ~Busy(Host)
    BY ZenonT(60), <1>2, <1>3, <1>7, IdleNotBusy DEF Finish
  <2> QED
    BY ZenonT(60), <1>1, <1>4, <1>5, <2>1, <2>2, HostStarts
<1> QED
  BY ZenonT(60), <1>6, <1>7

(***************************************************************************)
(* The drain waiter touches nothing but itself.                            *)
(***************************************************************************)
LEMMA DrainRecord ==
    ASSUME NEW P, NEW N, NEW B, NEW d \in [pc : P, snapshot : N, due : B],
           NEW x \in P, NEW n \in N, NEW b \in B
    PROVE  /\ [pc |-> x, snapshot |-> n, due |-> d.due] \in [pc : P, snapshot : N, due : B]
           /\ [d EXCEPT !.due = b] \in [pc : P, snapshot : N, due : B]
<1>1. d = [pc |-> d.pc, snapshot |-> d.snapshot, due |-> d.due]
  BY ZenonT(60)
<1>2. d.pc \in P /\ d.snapshot \in N /\ d.due \in B
  BY ZenonT(60)
<1>3. [d EXCEPT !.due = b] = [pc |-> d.pc, snapshot |-> d.snapshot, due |-> b]
  BY SMTT(60), <1>1
<1>4. [pc |-> x, snapshot |-> n, due |-> d.due] \in [pc : P, snapshot : N, due : B]
  BY ZenonT(60), <1>2
<1> QED
  BY ZenonT(60), <1>2, <1>3, <1>4

LEMMA DrainInv ==
    ASSUME Grouped, DrainStart \/ Waiter \/ DrainDeadline
    PROVE  Grouped'
<1>1. UNCHANGED <<admissions, spawn, records, registered, pc, funnel, push, slots, chan, due, controls,
                  mail, closing, popped, sent, exits, lagged, scan, workers, missed, generation, finishing, quota>>
  BY ZenonT(60) DEF DrainStart, Waiter, DrainArm, DrainObserve, DrainPark, DrainWoken, DrainDeadline,
         spawning, pushing, control, exiting, working
<1>2. TypeDrain'
  <2>1. TypeDrain
    BY ZenonT(60) DEF Grouped, Types
  <2>2. CASE DrainStart
    BY ZenonT(60), <1>1, <2>1, <2>2 DEF TypeDrain, DrainStart, Drain
  <2>3. CASE DrainArm
    <3>1. /\ drain' = [pc |-> "observe", snapshot |-> generation, due |-> drain.due]
          /\ generation \in Nat
      BY ZenonT(60), <2>1, <2>3 DEF TypeDrain, DrainArm
    <3> QED
      BY ZenonT(60), <1>1, <2>1, <3>1, DrainRecord DEF TypeDrain
  <2>4. CASE DrainObserve
    BY ZenonT(60), <1>1, <2>1, <2>4 DEF TypeDrain, DrainObserve, Drain
  <2>5. CASE DrainPark
    BY ZenonT(60), <1>1, <2>1, <2>5 DEF TypeDrain, DrainPark, Drain
  <2>6. CASE DrainWoken
    BY ZenonT(60), <1>1, <2>1, <2>6 DEF TypeDrain, DrainWoken, Drain
  <2>7. CASE DrainDeadline
    <3>1. drain' = [drain EXCEPT !.due = TRUE]
      BY ZenonT(60), <2>7 DEF DrainDeadline
    <3> QED
      BY ZenonT(60), <1>1, <2>1, <3>1, DrainRecord DEF TypeDrain
  <2> QED
    BY ZenonT(60), <2>2, <2>3, <2>4, <2>5, <2>6, <2>7 DEF Waiter
<1>3. \A q \in Pids : Ended(q) => Ended(q)'
  BY ZenonT(60), <1>1, EndedFrame
<1>4. Types'
  BY ZenonT(60), <1>1, <1>2, TypeFrames DEF Types
<1>5. FunnelInv' /\ LifeInv' /\ AdmissionsExact' /\ NoStrandedSlot' /\ QueueInv' /\ ChanInv'
  BY ZenonT(60), <1>1, <1>3, FunnelFrame, LifeFrame, CountFrame, StrandFrame, QueueFrame, ChanFrame
<1> QED
  BY ZenonT(60), <1>4, <1>5 DEF Grouped

(***************************************************************************)
(* The caller of a push.                                                   *)
(***************************************************************************)
(* What the caller's steps never touch.                                    *)
CallerKeeps ==
    UNCHANGED <<admissions, spawn, records, registered, pc, funnel, closing, popped, sent, exits,
                lagged, scan, workers, missed, drain, generation, finishing, quota>>

LEMMA CallerFrame ==
    ASSUME Grouped, CallerKeeps, TypePush', TypeControls', TypeMail', QueueInv', ChanInv',
           NoStrandedSlot'
    PROVE  Grouped'
<1>1. Types'
  BY ZenonT(60), TypeFrames DEF Types, CallerKeeps
<1>2. FunnelInv' /\ LifeInv' /\ AdmissionsExact'
  BY ZenonT(60), FunnelFrame, LifeFrame, CountFrame DEF CallerKeeps
<1> QED
  BY ZenonT(60), <1>1, <1>2 DEF Grouped

LEMMA PushSet ==
    ASSUME Grouped, NEW c \in Pushes, NEW r \in PushRecords, push' = [push EXCEPT ![c] = r]
    PROVE  /\ push' \in [Pushes -> PushRecords] /\ push'[c] = r
           /\ \A d \in Pushes : d # c => push'[d] = push[d]
BY ZenonT(60) DEF Grouped, Types, TypePush

(* A queue no entry of which moves, while pushes only become published.     *)
LEMMA QueueKeeps ==
    ASSUME Grouped, UNCHANGED <<controls, popped>>, NEW c \in Pushes, NEW r \in PushRecords,
           push' = [push EXCEPT ![c] = r], Published(c) => IsPublished(r) /\ r.pid = push[c].pid
    PROVE  QueueInv'
<1>1. /\ push'[c] = r /\ \A d \in Pushes : d # c => push'[d] = push[d]
  BY ZenonT(60), PushSet
<1>2. \A d \in Pushes : Published(d) => IsPublished(push'[d]) /\ push'[d].pid = push[d].pid
  BY ZenonT(60), <1>1 DEF Published
<1>3. popped \subseteq Pushes /\ controls \in [Pids -> Seq(Pushes \cup {ForceClose})]
  BY ZenonT(60) DEF Grouped, Types, TypeTaken, TypeControls
<1>4. \A d \in popped : IsPublished(push'[d])
  BY ZenonT(60), <1>2, <1>3 DEF Grouped, QueueInv
<1>5. ASSUME NEW p \in Pids, NEW i \in DOMAIN controls[p], controls[p][i] # ForceClose
      PROVE  /\ IsPublished(push'[controls[p][i]]) /\ controls[p][i] \notin popped
             /\ push'[controls[p][i]].pid = p
             /\ \A j \in DOMAIN controls[p] : controls[p][j] = controls[p][i] => i = j
  <2>1. controls[p][i] \in Pushes
    BY SMTT(60), <1>3, <1>5
  <2>2. /\ Published(controls[p][i]) /\ controls[p][i] \notin popped
        /\ push[controls[p][i]].pid = p
        /\ \A j \in DOMAIN controls[p] : controls[p][j] = controls[p][i] => i = j
    BY ZenonT(60), <1>5 DEF Grouped, QueueInv
  <2> QED
    BY ZenonT(60), <1>2, <2>1, <2>2
<1> QED
  BY SMTT(60), <1>4, <1>5 DEF QueueInv, Published

(* Only c's slot and channel may change.                                    *)
LEMMA ChanOthers ==
    ASSUME Grouped, CallerKeeps, NEW c \in Pushes, NEW r \in PushRecords,
           push' = [push EXCEPT ![c] = r],
           \A d \in Pushes : d # c => chan'[d] = chan[d] /\ (d \in slots' <=> d \in slots),
           ChanOk(c)'
    PROVE  ChanInv'
<1>1. \A d \in Pushes : d # c => push'[d] = push[d]
  BY ZenonT(60), PushSet
<1>2. UNCHANGED <<pc, spawn, records, popped, sent>>
  BY ZenonT(60) DEF CallerKeeps
<1>3. ASSUME NEW d \in Pushes, d # c PROVE ChanOk(d)'
  <2>1. push'[d] = push[d] /\ chan'[d] = chan[d] /\ (d \in slots' <=> d \in slots)
    BY ZenonT(60), <1>1, <1>3
  <2>2. ChanOk(d)
    BY ZenonT(60) DEF Grouped, ChanInv
  <2>3. Cut(d) => Cut(d)'
    BY ZenonT(60), <1>2, <2>1, CutFrame
  <2> QED
    BY ZenonT(60), <2>1, <2>2, <2>3 DEF ChanOk
<1> QED
  BY ZenonT(60), <1>3 DEF ChanInv

(* No slot is left to nobody by a step of its own caller.                   *)
LEMMA StrandKeeps ==
    ASSUME Grouped, CallerKeeps, NEW c \in Pushes, NEW r \in PushRecords,
           push' = [push EXCEPT ![c] = r], slots' \subseteq slots \cup {c},
           c \in slots' => \/ r.pc \in {"confirm", "rollback"}
                           \/ r.pid \in records
                           \/ c \in slots /\ r.pid = push[c].pid
                              /\ push[c].pc \notin {"confirm", "rollback"}
    PROVE  NoStrandedSlot'
<1>1. push'[c] = r /\ \A d \in Pushes : d # c => push'[d] = push[d]
  BY ZenonT(60), PushSet
<1>2. slots \subseteq Pushes
  BY ZenonT(60) DEF Grouped, Types, TypePush
<1>3. UNCHANGED <<records, funnel>>
  BY ZenonT(60) DEF CallerKeeps
<1>4. ASSUME NEW d \in slots'
      PROVE  \/ push'[d].pid \in records
             \/ push'[d].pc \in {"confirm", "rollback"}
             \/ \E a \in Actors : funnel[a].pid = push'[d].pid /\ funnel[a].step \in {"remove", "sweep"}
  <2>1. CASE d = c
    BY SMTT(60), <1>1, <1>4, <2>1 DEF Grouped, NoStrandedSlot
  <2>2. CASE d # c
    BY SMTT(60), <1>1, <1>2, <1>4, <2>2 DEF Grouped, NoStrandedSlot
  <2> QED
    BY ZenonT(60), <2>1, <2>2
<1> QED
  BY ZenonT(60), <1>3, <1>4 DEF NoStrandedSlot

PushRecord(l, p, x) == [pc |-> l, pid |-> p, result |-> x]

LEMMA GotoIs ==
    ASSUME Grouped, NEW c \in Pushes, NEW l \in PushPlaces, Goto(c, l), NEW r,
           r = PushRecord(l, push[c].pid, push[c].result)
    PROVE  r \in PushRecords /\ push' = [push EXCEPT ![c] = r]
<1>1. push[c] \in PushRecords
  BY ZenonT(60) DEF Grouped, Types, TypePush
<1>2. r \in PushRecords /\ [push[c] EXCEPT !.pc = l] = r
  BY SMTT(60), <1>1 DEF PushRecords, PushRecord
<1>3. push' = [push EXCEPT ![c] = [push[c] EXCEPT !.pc = l]]
  BY ZenonT(60) DEF Goto
<1> QED
  BY ZenonT(60), <1>2, <1>3

LEMMA ReturnIs ==
    ASSUME Grouped, NEW c \in Pushes, NEW x \in PushResults, Return(c, x), NEW r,
           r = PushRecord("done", push[c].pid, x)
    PROVE  r \in PushRecords /\ push' = [push EXCEPT ![c] = r]
<1>1. push[c] \in PushRecords
  BY ZenonT(60) DEF Grouped, Types, TypePush
<1> QED
  BY ZenonT(60), <1>1 DEF Return, PushRecords, PushPlaces, PushRecord

(* What ChanInv says of a push that was registered and has not returned.    *)
LEMMA UnderWay ==
    ASSUME Grouped, NEW c \in Pushes, push[c].pc \notin {"idle", "done"}
    PROVE  /\ push[c].pid \in Pids /\ push[c].result = "none"
           /\ c \in slots <=> chan[c] = "empty"
           /\ chan[c] = "closed" => Ended(push[c].pid) \/ c \in popped \ sent
BY ZenonT(60) DEF Grouped, ChanInv, ChanOk, Cut

(* A caller's step that leaves slots, channels and queues alone.            *)
LEMMA CallerMoves ==
    ASSUME Grouped, CallerKeeps, NEW c \in Pushes, NEW r \in PushRecords,
           push' = [push EXCEPT ![c] = r], UNCHANGED <<slots, chan, due, controls>>, TypeMail',
           push[c].pc \notin {"idle", "done"}, r.pc # "idle", r.pid = push[c].pid,
           Published(c) => IsPublished(r),
           push[c].pc \in {"confirm", "rollback"} => r.pc = "rollback" \/ r.pid \in records,
           r.pc # "done" => r.result = "none",
           r.pc = "done" => c \notin slots,
           r.result = "disconnected" => chan[c] = "closed",
           r.result \notin {"timeout", "expired"}
    PROVE  Grouped'
<1>1. push' \in [Pushes -> PushRecords] /\ push'[c] = r
  BY ZenonT(60), PushSet
<1>2. QueueInv'
  <2>1. UNCHANGED <<controls, popped>>
    BY ZenonT(60) DEF CallerKeeps
  <2>2. Published(c) => IsPublished(r) /\ r.pid = push[c].pid
    BY ZenonT(60)
  <2> QED
    BY ZenonT(60), <2>1, <2>2, QueueKeeps
<1>3. NoStrandedSlot'
  <2>1. c \in slots' => \/ r.pc \in {"confirm", "rollback"}
                        \/ r.pid \in records
                        \/ c \in slots /\ r.pid = push[c].pid
                           /\ push[c].pc \notin {"confirm", "rollback"}
    BY ZenonT(60)
  <2>2. slots' \subseteq slots \cup {c}
    BY ZenonT(60)
  <2> QED
    BY ZenonT(60), <2>1, <2>2, StrandKeeps
<1>4. ChanOk(c)'
  <2>1. /\ push[c].pid \in Pids /\ push[c].result = "none"
        /\ c \in slots <=> chan[c] = "empty"
        /\ chan[c] = "closed" => Ended(push[c].pid) \/ c \in popped \ sent
    BY ZenonT(60), UnderWay
  <2> QED
    BY ZenonT(60), <1>1, <2>1 DEF ChanOk, Cut, Ended, CallerKeeps
<1>5. ChanInv'
  <2>1. \A d \in Pushes : d # c => chan'[d] = chan[d] /\ (d \in slots' <=> d \in slots)
    BY ZenonT(60)
  <2> QED
    BY ZenonT(60), <1>4, <2>1, ChanOthers
<1>6. TypePush' /\ TypeControls'
  BY ZenonT(60), <1>1 DEF Grouped, Types, TypePush, TypeControls
<1> QED
  BY ZenonT(60), <1>2, <1>3, <1>5, <1>6, CallerFrame

LEMMA ConfirmInv ==
    ASSUME Grouped, NEW c \in Pushes, ConfirmPushRegistration(c)
    PROVE  Grouped'
<1>1. PICK l : l = IF push[c].pid \in records THEN "queue" ELSE "rollback"
  BY ZenonT(60)
<1>2. PICK r : r = PushRecord(l, push[c].pid, push[c].result)
  BY ZenonT(60)
<1>3. /\ CallerKeeps /\ UNCHANGED <<slots, chan, due, controls, mail>>
      /\ push[c].pc = "confirm" /\ Goto(c, l)
  BY ZenonT(60), <1>1 DEF ConfirmPushRegistration, CallerKeeps, spawning, control, exiting, working, draining, At
<1>4. l \in PushPlaces
  BY ZenonT(60), <1>1 DEF PushPlaces
<1>5. r \in PushRecords /\ push' = [push EXCEPT ![c] = r]
  BY ZenonT(60), <1>2, <1>3, <1>4, GotoIs
<1>6. push[c].result = "none"
  BY ZenonT(60), <1>3, UnderWay
<1>7. TypeMail'
  BY ZenonT(60), <1>3, TypeFrames DEF CallerKeeps
<1>8. /\ push[c].pc \notin {"idle", "done"} /\ r.pc # "idle" /\ r.pid = push[c].pid
      /\ Published(c) => IsPublished(r)
      /\ push[c].pc \in {"confirm", "rollback"} => r.pc = "rollback" \/ r.pid \in records
      /\ r.pc # "done" => r.result = "none"
      /\ r.pc = "done" => c \notin slots
      /\ r.result = "disconnected" => chan[c] = "closed"
      /\ r.result \notin {"timeout", "expired"}
  BY ZenonT(60), <1>1, <1>2, <1>3, <1>6 DEF Published, IsPublished, PushRecord
<1> QED
  BY ZenonT(60), <1>3, <1>5, <1>7, <1>8, CallerMoves

LEMMA WakeInv ==
    ASSUME Grouped, NEW c \in Pushes, WakeProcess(c)
    PROVE  Grouped'
<1>1. PICK l : l = IF Live(push[c].pid) THEN "await" ELSE "unqueue"
  BY ZenonT(60)
<1>2. PICK r : r = PushRecord(l, push[c].pid, push[c].result)
  BY ZenonT(60)
<1>3. /\ CallerKeeps /\ UNCHANGED <<slots, chan, due, controls>>
      /\ push[c].pc = "wake" /\ Goto(c, l)
      /\ mail' = IF Live(push[c].pid) THEN mail \cup {push[c].pid} ELSE mail
  BY ZenonT(60), <1>1 DEF WakeProcess, CallerKeeps, spawning, exiting, working, draining, At
<1>4. l \in PushPlaces
  BY ZenonT(60), <1>1 DEF PushPlaces
<1>5. r \in PushRecords /\ push' = [push EXCEPT ![c] = r]
  BY ZenonT(60), <1>2, <1>3, <1>4, GotoIs
<1>6. push[c].result = "none" /\ push[c].pid \in Pids
  BY ZenonT(60), <1>3, UnderWay
<1>7. TypeMail'
  BY ZenonT(60), <1>3, <1>6 DEF Grouped, Types, TypeMail, CallerKeeps
<1>8. /\ push[c].pc \notin {"idle", "done"} /\ r.pc # "idle" /\ r.pid = push[c].pid
      /\ Published(c) => IsPublished(r)
      /\ push[c].pc \in {"confirm", "rollback"} => r.pc = "rollback" \/ r.pid \in records
      /\ r.pc # "done" => r.result = "none"
      /\ r.pc = "done" => c \notin slots
      /\ r.result = "disconnected" => chan[c] = "closed"
      /\ r.result \notin {"timeout", "expired"}
  BY ZenonT(60), <1>1, <1>2, <1>3, <1>6 DEF Published, IsPublished, PushRecord
<1> QED
  BY ZenonT(60), <1>3, <1>5, <1>7, <1>8, CallerMoves

LEMMA DeadlineDueInv ==
    ASSUME Grouped, NEW c \in Pushes, DeadlineDue(c)
    PROVE  Grouped'
<1>1. PICK r : r = PushRecord("expire", push[c].pid, push[c].result)
  BY ZenonT(60)
<1>2. /\ CallerKeeps /\ UNCHANGED <<slots, chan, due, controls, mail>>
      /\ push[c].pc = "await" /\ Goto(c, "expire")
  BY ZenonT(60) DEF DeadlineDue, CallerKeeps, spawning, control, exiting, working, draining, At
<1>3. "expire" \in PushPlaces
  BY ZenonT(60) DEF PushPlaces
<1>4. r \in PushRecords /\ push' = [push EXCEPT ![c] = r]
  BY ZenonT(60), <1>1, <1>2, <1>3, GotoIs
<1>5. push[c].result = "none"
  BY ZenonT(60), <1>2, UnderWay
<1>6. TypeMail'
  BY ZenonT(60), <1>2, TypeFrames DEF CallerKeeps
<1>7. /\ push[c].pc \notin {"idle", "done"} /\ r.pc # "idle" /\ r.pid = push[c].pid
      /\ Published(c) => IsPublished(r)
      /\ push[c].pc \in {"confirm", "rollback"} => r.pc = "rollback" \/ r.pid \in records
      /\ r.pc # "done" => r.result = "none"
      /\ r.pc = "done" => c \notin slots
      /\ r.result = "disconnected" => chan[c] = "closed"
      /\ r.result \notin {"timeout", "expired"}
  BY ZenonT(60), <1>1, <1>2, <1>5 DEF Published, IsPublished, PushRecord
<1> QED
  BY ZenonT(60), <1>2, <1>4, <1>6, <1>7, CallerMoves

LEMMA TakeReplyInv ==
    ASSUME Grouped, NEW c \in Pushes, TakeReply(c)
    PROVE  Grouped'
<1>1. PICK x : x = IF chan[c] = "reply" THEN "reply" ELSE "disconnected"
  BY ZenonT(60)
<1>2. PICK r : r = PushRecord("done", push[c].pid, x)
  BY ZenonT(60)
<1>3. /\ CallerKeeps /\ UNCHANGED <<slots, chan, due, controls, mail>>
      /\ push[c].pc = "await" /\ chan[c] # "empty" /\ Return(c, x)
  BY ZenonT(60), <1>1 DEF TakeReply, CallerKeeps, spawning, control, exiting, working, draining, At
<1>4. x \in PushResults
  BY ZenonT(60), <1>1 DEF PushResults
<1>5. r \in PushRecords /\ push' = [push EXCEPT ![c] = r]
  BY ZenonT(60), <1>2, <1>3, <1>4, ReturnIs
<1>6. c \notin slots /\ chan[c] \in {"reply", "closed"}
  BY ZenonT(60), <1>3, UnderWay DEF Grouped, Types, TypePush
<1>7. TypeMail'
  BY ZenonT(60), <1>3, TypeFrames DEF CallerKeeps
<1>8. /\ push[c].pc \notin {"idle", "done"} /\ r.pc # "idle" /\ r.pid = push[c].pid
      /\ Published(c) => IsPublished(r)
      /\ push[c].pc \in {"confirm", "rollback"} => r.pc = "rollback" \/ r.pid \in records
      /\ r.pc # "done" => r.result = "none"
      /\ r.pc = "done" => c \notin slots
      /\ r.result = "disconnected" => chan[c] = "closed"
      /\ r.result \notin {"timeout", "expired"}
  BY ZenonT(60), <1>1, <1>2, <1>3, <1>6 DEF Published, IsPublished, PushRecord
<1> QED
  BY ZenonT(60), <1>3, <1>5, <1>7, <1>8, CallerMoves

LEMMA DeadlinePassesInv ==
    ASSUME Grouped, NEW c \in Pushes, DeadlinePasses(c)
    PROVE  Grouped'
<1>1. /\ UNCHANGED <<admissions, spawn, records, registered, pc, funnel, push, slots, chan, controls,
                     mail, closing, popped, sent, exits, lagged, scan, workers, missed, drain, generation, finishing, quota>>
      /\ due' = due \cup {c}
  BY ZenonT(60) DEF DeadlinePasses, spawning, control, exiting, working, draining
<1>2. TypePush'
  BY ZenonT(60), <1>1 DEF Grouped, Types, TypePush
<1>3. \A q \in Pids : Ended(q) => Ended(q)'
  BY ZenonT(60), <1>1, EndedFrame
<1>4. Types'
  BY ZenonT(60), <1>1, <1>2, TypeFrames DEF Types
<1>5. FunnelInv' /\ LifeInv' /\ AdmissionsExact' /\ NoStrandedSlot' /\ QueueInv' /\ ChanInv'
  BY ZenonT(60), <1>1, <1>3, FunnelFrame, LifeFrame, CountFrame, StrandFrame, QueueFrame, ChanFrame
<1> QED
  BY ZenonT(60), <1>4, <1>5 DEF Grouped

(* A refused confirmation or a failed publication: the slot goes, with an Err. *)
LEMMA CancelPushInv ==
    ASSUME Grouped, NEW c \in Pushes, CancelPush(c)
    PROVE  Grouped'
<1>1. PICK r : r = PushRecord("done", push[c].pid, "err")
  BY ZenonT(60)
<1>2. /\ CallerKeeps /\ UNCHANGED <<due, controls, mail>> /\ push[c].pc \in {"rollback", "cancel"}
      /\ slots' = slots \ {c} /\ chan' = Disconnect({c} \cap slots) /\ Return(c, "err")
  BY ZenonT(60) DEF CancelPush, CallerKeeps, spawning, control, exiting, working, draining, At
<1>3. "err" \in PushResults
  BY ZenonT(60) DEF PushResults
<1>4. r \in PushRecords /\ push' = [push EXCEPT ![c] = r]
  BY ZenonT(60), <1>1, <1>2, <1>3, ReturnIs
<1>5. push' \in [Pushes -> PushRecords] /\ push'[c] = r
  BY ZenonT(60), <1>4, PushSet
<1>6. /\ slots \subseteq Pushes /\ chan' \in [Pushes -> {"empty", "reply", "closed"}]
      /\ \A d \in Pushes : chan'[d] = IF d = c /\ c \in slots THEN "closed" ELSE chan[d]
  BY ZenonT(60), <1>2 DEF Grouped, Types, TypePush, Disconnect
<1>7. r.pc = "done" /\ r.pid = push[c].pid /\ r.result = "err"
  BY ZenonT(60), <1>1 DEF PushRecord
<1>8. QueueInv'
  <2>1. Published(c) => IsPublished(r) /\ r.pid = push[c].pid
    BY ZenonT(60), <1>2 DEF Published, IsPublished
  <2>2. UNCHANGED <<controls, popped>>
    BY ZenonT(60), <1>2 DEF CallerKeeps
  <2> QED
    BY ZenonT(60), <1>4, <2>1, <2>2, QueueKeeps
<1>9. NoStrandedSlot'
  <2>1. slots' \subseteq slots \cup {c} /\ c \notin slots'
    BY ZenonT(60), <1>2
  <2> QED
    BY ZenonT(60), <1>2, <1>4, <2>1, StrandKeeps
<1>10. ChanInv'
  <2>1. push[c].pid \in Pids
    BY ZenonT(60), <1>2, UnderWay
  <2>2. ChanOk(c)'
    BY ZenonT(60), <1>2, <1>5, <1>7, <2>1 DEF ChanOk, Cut
  <2>3. \A d \in Pushes : d # c => chan'[d] = chan[d] /\ (d \in slots' <=> d \in slots)
    BY ZenonT(60), <1>2, <1>6
  <2> QED
    BY ZenonT(60), <1>2, <1>4, <2>2, <2>3, ChanOthers
<1>11. TypePush' /\ TypeControls' /\ TypeMail'
  <2>1. TypePush'
    BY ZenonT(60), <1>2, <1>5, <1>6 DEF Grouped, Types, TypePush
  <2> QED
    BY ZenonT(60), <1>2, <2>1, TypeFrames DEF CallerKeeps
<1> QED
  BY ZenonT(60), <1>2, <1>8, <1>9, <1>10, <1>11, CallerFrame

(* expire_slot: with the slot gone, somebody has answered the caller.       *)
LEMMA ExpireSlotInv ==
    ASSUME Grouped, NEW c \in Pushes, ExpireSlot(c)
    PROVE  Grouped'
<1>1. /\ CallerKeeps /\ UNCHANGED <<chan, due, controls, mail>> /\ push[c].pc = "expire"
      /\ slots' = slots \ {c}
  BY ZenonT(60) DEF ExpireSlot, CallerKeeps, spawning, control, exiting, working, draining, At
<1>2. /\ push[c].pid \in Pids /\ push[c].result = "none"
      /\ c \in slots <=> chan[c] = "empty"
      /\ chan[c] = "closed" => Ended(push[c].pid) \/ c \in popped \ sent
  BY ZenonT(60), <1>1, UnderWay
<1>3. /\ chan[c] \in {"empty", "reply", "closed"} /\ slots \subseteq Pushes
      /\ chan \in [Pushes -> {"empty", "reply", "closed"}] /\ due \subseteq Pushes
  BY ZenonT(60) DEF Grouped, Types, TypePush
<1>4. PICK x : /\ x \in {"expired", "reply", "disconnected"} /\ Return(c, x)
               /\ x = "expired" <=> chan[c] = "empty"
               /\ x = "disconnected" <=> chan[c] = "closed"
  <2>1. CASE c \in slots
    <3>1. Return(c, "expired")
      BY ZenonT(60), <2>1 DEF ExpireSlot
    <3> QED
      BY SMTT(60), <1>2, <2>1, <3>1
  <2>2. CASE c \notin slots /\ chan[c] = "reply"
    <3>1. Return(c, "reply")
      BY ZenonT(60), <2>2 DEF ExpireSlot
    <3> QED
      BY ZenonT(60), <2>2, <3>1
  <2>3. CASE c \notin slots /\ chan[c] = "closed"
    <3>1. Return(c, "disconnected")
      BY ZenonT(60), <2>3 DEF ExpireSlot
    <3> QED
      BY ZenonT(60), <2>3, <3>1
  <2> QED
    BY ZenonT(60), <1>2, <1>3, <2>1, <2>2, <2>3
<1>5. PICK r : r = PushRecord("done", push[c].pid, x)
  BY ZenonT(60)
<1>6. r \in PushRecords /\ push' = [push EXCEPT ![c] = r]
  <2>1. x \in PushResults
    BY ZenonT(60), <1>4 DEF PushResults
  <2> QED
    BY ZenonT(60), <1>4, <1>5, <2>1, ReturnIs
<1>7. push' \in [Pushes -> PushRecords] /\ push'[c] = r
  BY ZenonT(60), <1>6, PushSet
<1>8. r.pc = "done" /\ r.pid = push[c].pid /\ r.result = x
  BY ZenonT(60), <1>5 DEF PushRecord
<1>9. QueueInv'
  <2>1. Published(c) => IsPublished(r) /\ r.pid = push[c].pid
    BY ZenonT(60), <1>4, <1>8 DEF IsPublished
  <2>2. UNCHANGED <<controls, popped>>
    BY ZenonT(60), <1>1 DEF CallerKeeps
  <2> QED
    BY ZenonT(60), <1>6, <2>1, <2>2, QueueKeeps
<1>10. NoStrandedSlot'
  <2>1. slots' \subseteq slots \cup {c} /\ c \notin slots'
    BY ZenonT(60), <1>1
  <2> QED
    BY ZenonT(60), <1>1, <1>6, <2>1, StrandKeeps
<1>11. ChanInv'
  <2>1. ChanOk(c)'
    BY ZenonT(60), <1>1, <1>2, <1>4, <1>7, <1>8 DEF ChanOk, Cut, Ended, CallerKeeps
  <2>2. \A d \in Pushes : d # c => chan'[d] = chan[d] /\ (d \in slots' <=> d \in slots)
    BY ZenonT(60), <1>1
  <2> QED
    BY ZenonT(60), <1>1, <1>6, <2>1, <2>2, ChanOthers
<1>12. TypePush' /\ TypeControls' /\ TypeMail'
  <2>1. TypePush'
    BY ZenonT(60), <1>1, <1>3, <1>7 DEF TypePush
  <2> QED
    BY ZenonT(60), <1>1, <2>1, TypeFrames DEF CallerKeeps
<1> QED
  BY ZenonT(60), <1>1, <1>9, <1>10, <1>11, <1>12, CallerFrame

LEMMA RegisterPushInv ==
    ASSUME Grouped, NEW c \in Pushes, RegisterPush(c)
    PROVE  Grouped'
<1>1. /\ CallerKeeps /\ UNCHANGED <<chan, due, controls, mail>> /\ push[c].pc = "idle"
  BY ZenonT(60) DEF RegisterPush, CallerKeeps, spawning, control, exiting, working, draining, At
<1>2. PICK p \in Pids :
          /\ push' = [push EXCEPT ![c] =
                [pc |-> IF Cardinality(Owned(p)) >= PushCap THEN "done" ELSE "confirm", pid |-> p,
                 result |-> IF Cardinality(Owned(p)) >= PushCap THEN "err" ELSE "none"]]
          /\ slots' = IF Cardinality(Owned(p)) >= PushCap THEN slots ELSE slots \cup {c}
  BY ZenonT(60) DEF RegisterPush
<1>3. PICK l \in {"done", "confirm"}, x \in {"err", "none"} :
          /\ push' = [push EXCEPT ![c] = [pc |-> l, pid |-> p, result |-> x]]
          /\ \/ l = "done" /\ x = "err" /\ slots' = slots
             \/ l = "confirm" /\ x = "none" /\ slots' = slots \cup {c}
  <2>1. CASE Cardinality(Owned(p)) >= PushCap
    <3>1. push' = [push EXCEPT ![c] = [pc |-> "done", pid |-> p, result |-> "err"]] /\ slots' = slots
      BY ZenonT(60), <1>2, <2>1
    <3> QED
      BY ZenonT(60), <3>1
  <2>2. CASE ~(Cardinality(Owned(p)) >= PushCap)
    <3>1. /\ push' = [push EXCEPT ![c] = [pc |-> "confirm", pid |-> p, result |-> "none"]]
          /\ slots' = slots \cup {c}
      BY ZenonT(60), <1>2, <2>2
    <3> QED
      BY ZenonT(60), <3>1
  <2> QED
    BY ZenonT(60), <2>1, <2>2
<1>4. PICK r : r = PushRecord(l, p, x)
  BY ZenonT(60)
<1>5. r \in PushRecords /\ push' = [push EXCEPT ![c] = r] /\ r.pc = l /\ r.pid = p /\ r.result = x
  BY ZenonT(60), <1>3, <1>4 DEF PushRecords, PushRecord, PushPlaces, PushResults
<1>6. push' \in [Pushes -> PushRecords] /\ push'[c] = r
  BY ZenonT(60), <1>5, PushSet
<1>7. /\ slots \subseteq Pushes /\ due \subseteq Pushes /\ c \notin slots /\ chan[c] = "empty"
      /\ chan \in [Pushes -> {"empty", "reply", "closed"}]
  BY ZenonT(60), <1>1 DEF Grouped, Types, TypePush, ChanInv, ChanOk
<1>8. QueueInv'
  <2>1. Published(c) => IsPublished(r) /\ r.pid = push[c].pid
    BY ZenonT(60), <1>1 DEF Published, IsPublished
  <2>2. UNCHANGED <<controls, popped>>
    BY ZenonT(60), <1>1 DEF CallerKeeps
  <2> QED
    BY ZenonT(60), <1>5, <2>1, <2>2, QueueKeeps
<1>9. NoStrandedSlot'
  <2>1. slots' \subseteq slots \cup {c} /\ (c \in slots' => r.pc = "confirm")
    BY ZenonT(60), <1>3, <1>5, <1>7
  <2>2. c \in slots' => \/ r.pc \in {"confirm", "rollback"}
                        \/ r.pid \in records
                        \/ c \in slots /\ r.pid = push[c].pid
                           /\ push[c].pc \notin {"confirm", "rollback"}
    BY ZenonT(60), <2>1
  <2> QED
    BY ZenonT(60), <1>1, <1>5, <2>1, <2>2, StrandKeeps
<1>10. ChanInv'
  <2>1. ChanOk(c)'
    BY ZenonT(60), <1>1, <1>3, <1>5, <1>6, <1>7 DEF ChanOk
  <2>2. \A d \in Pushes : d # c => chan'[d] = chan[d] /\ (d \in slots' <=> d \in slots)
    BY ZenonT(60), <1>1, <1>3
  <2> QED
    BY ZenonT(60), <1>1, <1>5, <2>1, <2>2, ChanOthers
<1>11. TypePush' /\ TypeControls' /\ TypeMail'
  <2>1. TypePush'
    BY ZenonT(60), <1>1, <1>3, <1>6, <1>7 DEF TypePush
  <2> QED
    BY ZenonT(60), <1>1, <2>1, TypeFrames DEF CallerKeeps
<1> QED
  BY ZenonT(60), <1>1, <1>8, <1>9, <1>10, <1>11, CallerFrame

LEMMA PushControlInv ==
    ASSUME Grouped, NEW c \in Pushes, PushControl(c)
    PROVE  Grouped'
<1>1. /\ CallerKeeps /\ UNCHANGED <<slots, chan, due, mail>> /\ push[c].pc = "queue"
      /\ controls' = [controls EXCEPT ![push[c].pid] = Append(controls[push[c].pid], c)]
      /\ Goto(c, "wake")
  BY ZenonT(60) DEF PushControl, CallerKeeps, spawning, exiting, working, draining, At
<1>2. PICK r : r = PushRecord("wake", push[c].pid, push[c].result)
  BY ZenonT(60)
<1>3. r \in PushRecords /\ push' = [push EXCEPT ![c] = r]
  <2>1. "wake" \in PushPlaces
    BY ZenonT(60) DEF PushPlaces
  <2> QED
    BY ZenonT(60), <1>1, <1>2, <2>1, GotoIs
<1>4. /\ push' \in [Pushes -> PushRecords] /\ push'[c] = r
      /\ \A d \in Pushes : d # c => push'[d] = push[d]
  BY ZenonT(60), <1>3, PushSet
<1>5. /\ push[c].pid \in Pids /\ push[c].result = "none"
      /\ c \in slots <=> chan[c] = "empty"
      /\ chan[c] = "closed" => Ended(push[c].pid) \/ c \in popped \ sent
  BY ZenonT(60), <1>1, UnderWay
<1>6. r.pc = "wake" /\ r.pid = push[c].pid /\ r.result = "none"
  BY ZenonT(60), <1>2, <1>5 DEF PushRecord
<1>7. TypeControls' /\ QueueInv'
  <2>1. PICK p \in Pids : p = push[c].pid
    BY ZenonT(60), <1>5
  <2>2. controls' = [controls EXCEPT ![p] = Append(controls[p], c)]
    BY ZenonT(60), <1>1, <2>1
  <2>3. UNCHANGED popped
    BY ZenonT(60), <1>1 DEF CallerKeeps
  <2>4. /\ \A d \in Pushes : Published(d) => IsPublished(push'[d])
        /\ \A d \in Pushes : push'[d].pid = push[d].pid
    BY ZenonT(60), <1>1, <1>4, <1>6 DEF Published, IsPublished
  <2>5. c # ForceClose => ~Published(c) /\ IsPublished(push'[c]) /\ push[c].pid = p
    BY ZenonT(60), <1>1, <1>4, <1>6, <2>1 DEF Published, IsPublished
  <2>6. c \in Pushes \cup {ForceClose}
    BY ZenonT(60)
  <2> QED
    BY ZenonT(60), <2>2, <2>3, <2>4, <2>5, <2>6, QueueGrows
<1>8. NoStrandedSlot'
  <2>1. c \in slots' => \/ r.pc \in {"confirm", "rollback"}
                        \/ r.pid \in records
                        \/ c \in slots /\ r.pid = push[c].pid
                           /\ push[c].pc \notin {"confirm", "rollback"}
    BY ZenonT(60), <1>1, <1>6
  <2>2. slots' \subseteq slots \cup {c}
    BY ZenonT(60), <1>1
  <2> QED
    BY ZenonT(60), <1>1, <1>3, <2>1, <2>2, StrandKeeps
<1>9. ChanInv'
  <2>1. ChanOk(c)'
    BY ZenonT(60), <1>1, <1>4, <1>5, <1>6 DEF ChanOk, Cut, Ended, CallerKeeps
  <2>2. \A d \in Pushes : d # c => chan'[d] = chan[d] /\ (d \in slots' <=> d \in slots)
    BY ZenonT(60), <1>1
  <2> QED
    BY ZenonT(60), <1>1, <1>3, <2>1, <2>2, ChanOthers
<1>10. TypePush' /\ TypeMail'
  <2>1. TypePush'
    BY ZenonT(60), <1>1, <1>4 DEF Grouped, Types, TypePush
  <2> QED
    BY ZenonT(60), <1>1, <2>1, TypeFrames DEF CallerKeeps
<1> QED
  BY ZenonT(60), <1>1, <1>7, <1>8, <1>9, <1>10, CallerFrame

(* An entry that is still queued leaves it whole: no process can take it.   *)
LEMMA WithoutLeaves ==
    ASSUME NEW S, NEW q \in Seq(S), NEW c, NEW w, w = Without(q, c),
           \A i, j \in DOMAIN q : q[i] = c /\ q[j] = c => i = j
    PROVE  \A i \in DOMAIN w : w[i] # c
<1>1. CASE w = q /\ \A i \in DOMAIN q : q[i] # c
  BY ZenonT(60), <1>1
<1>2. ASSUME NEW n \in DOMAIN q, q[n] = c, DOMAIN w = 1..(Len(q) - 1),
             \A i \in DOMAIN w : w[i] = q[IF i < n THEN i ELSE i + 1]
      PROVE  \A i \in DOMAIN w : w[i] # c
  <2>1. DOMAIN q = 1..Len(q) /\ Len(q) \in Nat
    BY SMTT(60)
  <2>2. ASSUME NEW i \in DOMAIN w PROVE w[i] # c
    <3>1. PICK k : k = IF i < n THEN i ELSE i + 1
      BY ZenonT(60)
    <3>2. k \in DOMAIN q /\ k # n
      BY SMTT(60), <1>2, <2>1, <3>1
    <3> QED
      BY ZenonT(60), <1>2, <3>1, <3>2
  <2> QED
    BY ZenonT(60), <2>2
<1> QED
  BY SMTT(60), <1>1, <1>2, WithoutFacts

LEMMA RemoveControlInv ==
    ASSUME Grouped, NEW c \in Pushes, RemoveControl(c)
    PROVE  Grouped'
<1>1. PICK l : l = IF InQueue(c) THEN "cancel" ELSE "await"
  BY ZenonT(60)
<1>2. /\ CallerKeeps /\ UNCHANGED <<slots, chan, due, mail>> /\ push[c].pc = "unqueue"
      /\ controls' = [controls EXCEPT ![push[c].pid] = Without(controls[push[c].pid], c)]
      /\ Goto(c, l)
  BY ZenonT(60), <1>1 DEF RemoveControl, CallerKeeps, spawning, exiting, working, draining, At
<1>3. PICK r : r = PushRecord(l, push[c].pid, push[c].result)
  BY ZenonT(60)
<1>4. r \in PushRecords /\ push' = [push EXCEPT ![c] = r]
  <2>1. l \in PushPlaces
    BY ZenonT(60), <1>1 DEF PushPlaces
  <2> QED
    BY ZenonT(60), <1>2, <1>3, <2>1, GotoIs
<1>5. /\ push' \in [Pushes -> PushRecords] /\ push'[c] = r
      /\ \A d \in Pushes : d # c => push'[d] = push[d]
  BY ZenonT(60), <1>4, PushSet
<1>6. /\ push[c].pid \in Pids /\ push[c].result = "none"
      /\ c \in slots <=> chan[c] = "empty"
      /\ chan[c] = "closed" => Ended(push[c].pid) \/ c \in popped \ sent
  BY ZenonT(60), <1>2, UnderWay
<1>7. r.pc = l /\ r.pid = push[c].pid /\ r.result = "none"
  BY ZenonT(60), <1>3, <1>6 DEF PushRecord
<1>8. PICK p \in Pids : p = push[c].pid
  BY ZenonT(60), <1>6
<1>9. PICK w : w = Without(controls[p], c)
  BY ZenonT(60)
<1>10. /\ controls \in [Pids -> Seq(Pushes \cup {ForceClose})] /\ popped \subseteq Pushes
       /\ UNCHANGED popped
  BY ZenonT(60), <1>2 DEF Grouped, Types, TypeControls, TypeTaken, CallerKeeps
<1>11. controls[p] \in Seq(Pushes \cup {ForceClose})
  BY ZenonT(60), <1>10
<1>12. w \in Seq(Pushes \cup {ForceClose})
  BY ZenonT(60), <1>9, <1>11, WithoutFacts
<1>13. controls' = [controls EXCEPT ![p] = w] /\ Shrinks(w, controls[p])
  BY ZenonT(60), <1>2, <1>8, <1>9, <1>11, WithoutShrinks
<1>14. /\ TypeControls'
       /\ \A q \in Pids : \A i \in DOMAIN controls'[q] : controls'[q][i] # ForceClose =>
             /\ Published(controls'[q][i]) /\ controls'[q][i] \notin popped
             /\ push[controls'[q][i]].pid = q
             /\ \A j \in DOMAIN controls'[q] : controls'[q][j] = controls'[q][i] => i = j
       /\ controls'[p] = w /\ \A q \in Pids : q # p => controls'[q] = controls[q]
  BY ZenonT(60), <1>12, <1>13, QueueShrinks
<1>15. ASSUME NEW d \in Pushes, Published(d), d # c \/ l = "await"
       PROVE  IsPublished(push'[d]) /\ push'[d].pid = push[d].pid
  BY ZenonT(60), <1>5, <1>7, <1>15 DEF Published, IsPublished
<1>16. ASSUME NEW q \in Pids, NEW i \in DOMAIN controls'[q], controls'[q][i] = c
       PROVE  l = "await"
  <2>1. c # ForceClose
    BY ZenonT(60), ForceCloseIsNoPush
  <2>2. q = p
    BY ZenonT(60), <1>8, <1>14, <1>16, <2>1
  <2>3. \A k, m \in DOMAIN controls[p] : controls[p][k] = c /\ controls[p][m] = c => k = m
    BY SMTT(60), <2>1 DEF Grouped, QueueInv
  <2>4. \A k \in DOMAIN w : w[k] # c
    BY SMTT(60), <1>9, <1>11, <2>3, WithoutLeaves
  <2> QED
    BY ZenonT(60), <1>14, <1>16, <2>2, <2>4
<1>17. c \in popped => l = "await"
  <2>1. c # ForceClose
    BY ZenonT(60), ForceCloseIsNoPush
  <2> QED
    BY ZenonT(60), <1>1, <2>1 DEF InQueue, Grouped, QueueInv
<1>18. QueueInv'
  <2>1. \A d \in popped : IsPublished(push'[d])
    BY ZenonT(60), <1>10, <1>15, <1>17 DEF Grouped, QueueInv
  <2>2. ASSUME NEW q \in Pids, NEW i \in DOMAIN controls'[q], controls'[q][i] # ForceClose
        PROVE  /\ IsPublished(push'[controls'[q][i]]) /\ controls'[q][i] \notin popped
               /\ push'[controls'[q][i]].pid = q
               /\ \A j \in DOMAIN controls'[q] : controls'[q][j] = controls'[q][i] => i = j
    <3>1. controls'[q] \in Seq(Pushes \cup {ForceClose})
      BY ZenonT(60), <1>14 DEF TypeControls
    <3>2. PICK d \in Pushes : d = controls'[q][i]
      BY SMTT(60), <2>2, <3>1
    <3>3. Published(d) /\ (d # c \/ l = "await")
      BY ZenonT(60), <1>14, <1>16, <2>2, <3>2
    <3>4. IsPublished(push'[d]) /\ push'[d].pid = push[d].pid
      BY ZenonT(60), <1>15, <3>3
    <3> QED
      BY ZenonT(60), <1>14, <2>2, <3>2, <3>4
  <2> QED
    BY ZenonT(60), <1>10, <2>1, <2>2 DEF QueueInv, Published
<1>19. NoStrandedSlot'
  <2>1. c \in slots' => \/ r.pc \in {"confirm", "rollback"}
                        \/ r.pid \in records
                        \/ c \in slots /\ r.pid = push[c].pid
                           /\ push[c].pc \notin {"confirm", "rollback"}
    BY ZenonT(60), <1>2, <1>7
  <2>2. slots' \subseteq slots \cup {c}
    BY ZenonT(60), <1>2
  <2> QED
    BY ZenonT(60), <1>2, <1>4, <2>1, <2>2, StrandKeeps
<1>20. ChanInv'
  <2>1. l # "idle" /\ l # "done"
    BY ZenonT(60), <1>1
  <2>2. ChanOk(c)'
    BY ZenonT(60), <1>2, <1>5, <1>6, <1>7, <2>1 DEF ChanOk, Cut, Ended, CallerKeeps
  <2>3. \A d \in Pushes : d # c => chan'[d] = chan[d] /\ (d \in slots' <=> d \in slots)
    BY ZenonT(60), <1>2
  <2> QED
    BY ZenonT(60), <1>2, <1>4, <2>2, <2>3, ChanOthers
<1>21. TypePush' /\ TypeMail'
  <2>1. TypePush'
    BY ZenonT(60), <1>2, <1>5 DEF Grouped, Types, TypePush
  <2> QED
    BY ZenonT(60), <1>2, <2>1, TypeFrames DEF CallerKeeps
<1> QED
  BY ZenonT(60), <1>2, <1>14, <1>18, <1>19, <1>20, <1>21, CallerFrame

(***************************************************************************)
(* The invariant holds initially and every step keeps it.                  *)
(***************************************************************************)
LEMMA InitInv == Init => Grouped
<1> SUFFICES ASSUME Init PROVE Grouped
  BY ZenonT(60)
<1>1. Types
  <2>1. TypeSpawn /\ TypePc /\ TypeTaken /\ TypeMail /\ TypeControls
    <3>1. TypeSpawn
      <4>1. MaxConnections \in Nat
        BY ZenonT(60), BoundsAssumption
      <4>2. /\ admissions = 0 /\ spawn = [p \in Pids |-> "idle"] /\ records = {} /\ registered = {}
        BY ZenonT(60) DEF Init
      <4> QED
        BY SMTT(60), <4>1, <4>2 DEF TypeSpawn
    <3>2. TypePc /\ TypeTaken
      BY ZenonT(60) DEF Init, TypePc, TypeTaken
    <3>3. TypeMail
      BY ZenonT(60) DEF Init, TypeMail
    <3>4. TypeControls
      BY SMTT(60) DEF Init, TypeControls
    <3> QED
      BY ZenonT(60), <3>1, <3>2, <3>3, <3>4
  <2>2. TypeFunnel
    BY ZenonT(60) DEF Init, TypeFunnel, Funnels, FunnelSteps, Idle
  <2>3. TypePush
    BY ZenonT(60) DEF Init, TypePush, PushRecords, PushPlaces, PushResults
  <2>4. TypeExit
    <3>1. exits = <<>> /\ scan = {} /\ lagged = FALSE /\ ExitCap \in Nat
      BY ZenonT(60), BoundsAssumption DEF Init
    <3>2. exits \in Seq(Pids) /\ Len(exits) <= ExitCap
      BY SMTT(60), <3>1
    <3>3. lagged \in BOOLEAN /\ scan \subseteq Pids
      BY ZenonT(60), <3>1
    <3> QED
      BY ZenonT(60), <3>2, <3>3 DEF TypeExit
  <2>5. TypeDrain
    <3>1. /\ drain = [pc |-> "idle", snapshot |-> 0, due |-> FALSE] /\ generation \in Nat
          /\ quota \in Quotas /\ 0 \in Nat /\ finishing = {}
      BY ZenonT(60) DEF Init
    <3> QED
      BY ZenonT(60), <3>1 DEF TypeDrain
  <2> QED
    BY ZenonT(60), <2>1, <2>2, <2>3, <2>4, <2>5 DEF Types
<1>2. FunnelInv
  BY ZenonT(60), ActorFacts DEF Init, FunnelInv, Busy, Idle
<1>3. LifeInv /\ QueueInv /\ NoStrandedSlot
  BY SMTT(60) DEF Init, LifeInv, QueueInv, NoStrandedSlot
<1>4. ChanInv
  BY ZenonT(60) DEF Init, ChanInv, ChanOk
<1>5. AdmissionsExact
  <2>1. Held = {} /\ records = {} /\ Removing = {} /\ admissions = 0
    BY ZenonT(60) DEF Init, Held, Removing, Idle
  <2>2. Cardinality({}) = 0
    BY ZenonT(60), FS_EmptySet
  <2> QED
    BY SMTT(60), <2>1, <2>2, CountIs
<1> QED
  BY ZenonT(60), <1>1, <1>2, <1>3, <1>4, <1>5 DEF Grouped

LEMMA StutterInv == Grouped /\ UNCHANGED vars => Grouped'
<1> SUFFICES ASSUME Grouped, UNCHANGED vars PROVE Grouped'
  BY ZenonT(60)
<1>1. UNCHANGED <<admissions, spawn, records, registered, pc, funnel, push, slots, chan, due, controls,
                  mail, closing, popped, sent, exits, lagged, scan, workers, missed, drain, generation, finishing, quota>>
  BY ZenonT(60) DEF vars, spawning, pushing, control, exiting, working, draining
<1>2. TypeExit' /\ LifeInv'
  BY ZenonT(60), <1>1, TypeFrames, LifeFrame
<1> QED
  BY ZenonT(60), <1>1, <1>2, ScanMoves

LEMMA ConnectionStep ==
    ASSUME Grouped, NEW p \in Pids,
           \/ SpawnThread(p) \/ RunSlice(p) \/ Handler(p) \/ ErrorMessage(p) \/ Kill(p)
           \/ ForceCloseQueue(p) \/ Closer(p)
    PROVE  Grouped'
<1>1. CASE SpawnThread(p)
  BY ZenonT(60), <1>1, ReservationInv, SpawnNativeInv, RegisterRecordInv, ReconcileInv DEF SpawnThread
<1>2. CASE RunSlice(p) \/ ErrorMessage(p) \/ Kill(p)
  BY ZenonT(60), <1>2, RunningInv, SliceEndsInv, DeathInv
<1>3. CASE Handler(p)
  BY ZenonT(60), <1>3, PopControlInv, RunningInv, ResolvePushInv, SliceEndsInv, DeathInv DEF Handler, Slice
<1>4. CASE ForceCloseQueue(p) \/ Closer(p)
  BY ZenonT(60), <1>4, ForceCloseQueueInv, ForceCloseWakeInv, ForceCloseUnqueueInv DEF Closer
<1> QED
  BY ZenonT(60), <1>1, <1>2, <1>3, <1>4

LEMMA CallerStep ==
    ASSUME Grouped, NEW c \in Pushes, RegisterPush(c) \/ Caller(c) \/ DeadlinePasses(c)
    PROVE  Grouped'
<1>1. CASE RegisterPush(c) \/ DeadlinePasses(c)
  BY ZenonT(60), <1>1, RegisterPushInv, DeadlinePassesInv
<1>2. CASE Caller(c)
  BY ZenonT(60), <1>2, ConfirmInv, CancelPushInv, PushControlInv, WakeInv, RemoveControlInv, TakeReplyInv,
     DeadlineDueInv, ExpireSlotInv DEF Caller
<1> QED
  BY ZenonT(60), <1>1, <1>2

LEMMA NextInv == Grouped /\ [Next]_vars => Grouped'
<1> SUFFICES ASSUME Grouped, Next PROVE Grouped'
  BY ZenonT(60), StutterInv
<1>1. ASSUME NEW a \in Actors, Funnel(a) PROVE Grouped'
  BY ZenonT(60), <1>1, FunnelRemoveInv, FunnelSweepInv, FunnelTailInv DEF Funnel
<1>2. CASE ReactorStep
  BY ZenonT(60), <1>2, DeliverReclamationInv, ReapInv DEF ReactorStep
<1>3. CASE DrainStart \/ Waiter \/ DrainDeadline
  BY ZenonT(60), <1>3, DrainInv
<1>4. CASE Shutdown \/ Finish
  BY ZenonT(60), <1>4, ShutdownInv
<1> QED
  BY ZenonT(60), <1>1, <1>2, <1>3, <1>4, ConnectionStep, CallerStep DEF Next

LEMMA TruthFromInv == RegistryInv => PushReportsTruth
<1> SUFFICES ASSUME RegistryInv PROVE PushReportsTruth
  BY ZenonT(60)
<1>1. ErrMeansUnpublished
  BY SMTT(60), ForceCloseIsNoPush DEF RegistryInv, ErrMeansUnpublished, QueueInv, Published, IsPublished, InQueue
<1>2. OutcomeTruthful
  BY ZenonT(60) DEF RegistryInv, OutcomeTruthful, ChanInv, ChanOk, Cut, Ended
<1> QED
  BY ZenonT(60), <1>1, <1>2 DEF PushReportsTruth

LEMMA InvHolds == Spec => []RegistryInv
<1>1. Init => Grouped
  BY ZenonT(60), InitInv
<1>2. Grouped /\ [Next]_vars => Grouped'
  BY ZenonT(60), NextInv
<1>3. RegistryInv <=> Grouped
  BY ZenonT(60), GroupedIs
<1> QED
  BY <1>1, <1>2, <1>3, PTL DEF Spec

(***************************************************************************)
(* However spawn threads, connection processes, callers, the reactor and   *)
(* the shutdown thread interleave, and however many there are, the         *)
(* admission counter is exactly what is reserved, recorded or being        *)
(* released, so it never passes max_connections, and every reply slot still *)
(* has somebody who will sweep or roll it back.                            *)
(***************************************************************************)
THEOREM NothingStrandedAlways == Spec => []NothingStranded
<1>1. RegistryInv => NothingStranded
  BY ZenonT(60) DEF RegistryInv, NothingStranded
<1> QED
  BY <1>1, InvHolds, PTL

(***************************************************************************)
(* An Err from push_with_deadline means no process took the control and    *)
(* none can; a deadline is reported only when no reply was sent; a caller  *)
(* hears Disconnected only of a connection that ends or could not write.   *)
(***************************************************************************)
THEOREM PushReportsTruthAlways == Spec => []PushReportsTruth
<1>1. RegistryInv => PushReportsTruth
  BY ZenonT(60), TruthFromInv
<1> QED
  BY <1>1, InvHolds, PTL
=============================================================================
