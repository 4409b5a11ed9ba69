------------------------ MODULE ChannelRosterProofs ------------------------
(***************************************************************************)
(* The channel roster, proved for any callers, names, documents, boot      *)
(* configuration and number of calls: the cap and the identity of entries, *)
(* and what callers learn of a quiesced channel.  RosterInv is inductive.  *)
(***************************************************************************)
EXTENDS ChannelRoster, FiniteSetTheorems, TLAPS

(* The calls, by the place they have reached.                              *)
RegisterCalls == [op : {"register"}, at : {"read", "build", "write"}, spec : Specs]
QuiesceCalls == [op : {"quiesce"}, at : {"read", "record", "flip"}, name : Names, reason : Reasons]
StatusCalls == [op : {"status"}, at : {"read", "reason"}, name : Names]
UseCalls == [op : {"publish", "subscribe"}, at : {"admit", "readmit", "refused", "use"},
             name : Names, late : BOOLEAN]
Calls == {Idle} \cup RegisterCalls \cup QuiesceCalls \cup StatusCalls \cup UseCalls

Entries == [mode : Modes, doc : Docs, origin : {"boot", "runtime"}]

(* The tables have one key set, a quiesced entry has its reason, and a name *)
(* closed by a successful quiesce is quiesced.                             *)
Tables ==
    /\ limit \in Limits
    /\ roster \in [DOMAIN roster -> Entries] /\ DOMAIN roster \subseteq Names
    /\ reason \in [DOMAIN roster -> Reasons \cup {Unrecorded}]
    /\ state \in [DOMAIN roster -> {"active", "quiesced"}]
    /\ \A n \in DOMAIN roster : state[n] = "quiesced" => reason[n] # Unrecorded
    /\ closed \subseteq DOMAIN roster /\ \A n \in closed : state[n] = "quiesced"

(* The runtime entries are within the cap, where there is one.             *)
Capped ==
    /\ IsFiniteSet(runtimeRegistered)
    /\ limit # <<>> => Cardinality(runtimeRegistered) <= limit[1]
    /\ limit = <<>> => runtimeRegistered = {}

Recorded(n) == n \in DOMAIN roster /\ reason[n] # Unrecorded

(* What a call has established by the time it has come this far.           *)
CallOk(r) ==
    /\ r \in RegisterCalls => (r.at \in {"build", "write"} => limit # <<>>)
    /\ r \in QuiesceCalls => /\ r.at \in {"record", "flip"} => r.name \in DOMAIN roster
                             /\ r.at = "flip" => Recorded(r.name)
    /\ r \in StatusCalls => (r.at = "reason" => Recorded(r.name))
    /\ r \in UseCalls => /\ r.at = "refused" => Recorded(r.name)
                         /\ r.late => r.name \in closed /\ r.at \in {"admit", "refused"}

(* What an answer that was given says about the roster stays true.         *)
AnswerOk(e) ==
    /\ e.call.op = "register" /\ e.result \in {"created", "identical"} =>
          /\ e.call.spec.name \in DOMAIN roster
          /\ roster[e.call.spec.name].mode = e.call.spec.mode
          /\ roster[e.call.spec.name].doc = e.call.spec.doc
    /\ e.call.op # "register" /\ e.result \in Reasons \cup {Unrecorded} =>
          Recorded(e.call.name) /\ e.result = reason[e.call.name]
    /\ e.call.op = "quiesce" /\ e.result = "ok" =>
          Recorded(e.call.name) /\ reason[e.call.name] = e.call.reason
    /\ e.call.op \in {"publish", "subscribe"} /\ e.call.late => e.result # "done"

RosterInv ==
    /\ Tables /\ Capped
    /\ call \in [Callers -> Calls] /\ \A c \in Callers : CallOk(call[c])
    /\ \A e \in log : AnswerOk(e)

(* How the tables may change: entries are permanent and immutable, a reason *)
(* is recorded once, and a closed name stays closed.                       *)
Grows ==
    /\ limit' = limit /\ closed \subseteq closed'
    /\ DOMAIN roster \subseteq DOMAIN roster'
    /\ \A n \in DOMAIN roster : /\ roster'[n] = roster[n]
                                /\ reason[n] # Unrecorded => reason'[n] = reason[n]

(***************************************************************************)
(* Calls are records: what moving one to another place does.               *)
(***************************************************************************)
LEMMA MovedRegister ==
    ASSUME NEW r \in RegisterCalls, NEW a \in {"read", "build", "write"}
    PROVE  LET s == [r EXCEPT !.at = a] IN s \in RegisterCalls /\ s.at = a /\ s.spec = r.spec
BY ZenonT(60) DEF RegisterCalls

LEMMA MovedQuiesce ==
    ASSUME NEW r \in QuiesceCalls, NEW a \in {"read", "record", "flip"}
    PROVE  LET s == [r EXCEPT !.at = a] IN
           s \in QuiesceCalls /\ s.at = a /\ s.name = r.name /\ s.reason = r.reason
BY ZenonT(60) DEF QuiesceCalls

LEMMA MovedStatus ==
    ASSUME NEW r \in StatusCalls, NEW a \in {"read", "reason"}
    PROVE  LET s == [r EXCEPT !.at = a] IN s \in StatusCalls /\ s.at = a /\ s.name = r.name
BY ZenonT(60) DEF StatusCalls

LEMMA MovedUse ==
    ASSUME NEW r \in UseCalls, NEW a \in {"admit", "readmit", "refused", "use"}
    PROVE  LET s == [r EXCEPT !.at = a] IN
           s \in UseCalls /\ s.at = a /\ s.name = r.name /\ s.late = r.late
BY ZenonT(60) DEF UseCalls

(* The kinds are told apart by the operation, and a use also by its place.  *)
LEMMA Kinds ==
    ASSUME NEW r \in Calls
    PROVE  /\ r.op = "register" <=> r \in RegisterCalls
           /\ r.op = "quiesce" <=> r \in QuiesceCalls
           /\ r.op = "status" <=> r \in StatusCalls
           /\ r.op \in {"publish", "subscribe"} <=> r \in UseCalls
           /\ r.at \in {"admit", "readmit", "refused", "use"} <=> r \in UseCalls
           /\ r = Idle => r.op = "idle"
BY SMTT(60) DEF Calls, Idle, RegisterCalls, QuiesceCalls, StatusCalls, UseCalls

LEMMA CallsUnion ==
    /\ Idle \in Calls
    /\ RegisterCalls \subseteq Calls /\ QuiesceCalls \subseteq Calls
    /\ StatusCalls \subseteq Calls /\ UseCalls \subseteq Calls
BY ZenonT(60) DEF Calls

LEMMA IdleOk == CallOk(Idle)
<1>1. Idle.op = "idle" /\ Idle \in Calls
  BY ZenonT(60) DEF Idle, Calls
<1> QED
  BY ZenonT(60), <1>1, Kinds DEF CallOk

(***************************************************************************)
(* What a call has established, and what an answer said, stays true.       *)
(***************************************************************************)
LEMMA GrowsKeeps ==
    ASSUME Grows
    PROVE  /\ \A r : CallOk(r) => CallOk(r)'
           /\ \A e : AnswerOk(e) => AnswerOk(e)'
<1>1. \A n : Recorded(n) => Recorded(n)' /\ reason'[n] = reason[n]
  BY ZenonT(60) DEF Grows, Recorded
<1>2. ASSUME NEW r, CallOk(r) PROVE CallOk(r)'
  BY ZenonT(60), <1>1, <1>2 DEF Grows, CallOk
<1>3. ASSUME NEW e, AnswerOk(e) PROVE AnswerOk(e)'
  BY ZenonT(60), <1>1, <1>3 DEF Grows, AnswerOk
<1> QED
  BY ZenonT(60), <1>2, <1>3

LEMMA SameTables ==
    ASSUME RosterInv, UNCHANGED <<limit, roster, reason, state, closed>>
    PROVE  Grows /\ Tables' /\ Capped'
BY ZenonT(60) DEF RosterInv, Grows, Tables, Capped, runtimeRegistered

(* A step of one caller preserves the invariant when the tables grow and    *)
(* what it writes of its own call and of the log is in order.              *)
LEMMA MoveStep ==
    ASSUME RosterInv, Grows, Tables', Capped', NEW c \in Callers, NEW r \in Calls,
           call' = [call EXCEPT ![c] = r], CallOk(r)', UNCHANGED log
    PROVE  RosterInv'
<1>1. call' \in [Callers -> Calls]
  BY ZenonT(60) DEF RosterInv
<1>2. ASSUME NEW d \in Callers PROVE CallOk(call[d])'
  <2>1. CASE d = c
    <3>1. call'[d] = r
      BY ZenonT(60), <2>1 DEF RosterInv
    <3> QED
      BY ZenonT(60), <3>1 DEF CallOk, Recorded
  <2>2. CASE d # c
    <3>1. call'[d] = call[d]
      BY ZenonT(60), <2>2 DEF RosterInv
    <3>2. \A s : CallOk(s) => CallOk(s)'
      BY ZenonT(60), GrowsKeeps
    <3>3. PICK s : s = call[d]
      BY ZenonT(60)
    <3>4. CallOk(s)'
      BY ZenonT(60), <3>2, <3>3 DEF RosterInv
    <3> QED
      BY ZenonT(60), <3>1, <3>3, <3>4 DEF CallOk, Recorded
  <2> QED
    BY ZenonT(60), <2>1, <2>2
<1>3. \A e \in log' : AnswerOk(e)'
  BY ZenonT(60), GrowsKeeps DEF RosterInv
<1> QED
  BY ZenonT(60), <1>1, <1>2, <1>3 DEF RosterInv

LEMMA ReturnStep ==
    ASSUME RosterInv, Grows, Tables', Capped', NEW c \in Callers, NEW x, Return(c, x),
           NEW e, e = [call |-> call[c], result |-> x], AnswerOk(e)'
    PROVE  RosterInv'
<1>1. call' \in [Callers -> Calls]
  BY ZenonT(60), CallsUnion DEF RosterInv, Return
<1>2. ASSUME NEW d \in Callers PROVE CallOk(call[d])'
  <2>1. CASE d = c
    <3>1. call'[d] = Idle
      BY ZenonT(60), <2>1 DEF RosterInv, Return
    <3>2. CallOk(Idle)'
      BY ZenonT(60), IdleOk, GrowsKeeps
    <3> QED
      BY ZenonT(60), <3>1, <3>2 DEF CallOk, Recorded
  <2>2. CASE d # c
    <3>1. call'[d] = call[d]
      BY ZenonT(60), <2>2 DEF RosterInv, Return
    <3>2. \A s : CallOk(s) => CallOk(s)'
      BY ZenonT(60), GrowsKeeps
    <3>3. PICK s : s = call[d]
      BY ZenonT(60)
    <3>4. CallOk(s)'
      BY ZenonT(60), <3>2, <3>3 DEF RosterInv
    <3> QED
      BY ZenonT(60), <3>1, <3>3, <3>4 DEF CallOk, Recorded
  <2> QED
    BY ZenonT(60), <2>1, <2>2
<1>3. \A f \in log' : AnswerOk(f)'
  BY ZenonT(60), GrowsKeeps DEF RosterInv, Return
<1> QED
  BY ZenonT(60), <1>1, <1>2, <1>3 DEF RosterInv

(* The same for a step that only reads the tables.                         *)
LEMMA ReadMove ==
    ASSUME RosterInv, UNCHANGED <<limit, roster, reason, state, closed, log>>,
           NEW c \in Callers, NEW a, Step(c, a), [call[c] EXCEPT !.at = a] \in Calls,
           CallOk([call[c] EXCEPT !.at = a])
    PROVE  RosterInv'
<1>1. Grows /\ Tables' /\ Capped'
  BY ZenonT(60), SameTables
<1>2. PICK r : r = [call[c] EXCEPT !.at = a]
  BY ZenonT(60)
<1>3. r \in Calls /\ CallOk(r)'
  BY ZenonT(60), <1>1, <1>2, GrowsKeeps
<1>4. call' = [call EXCEPT ![c] = r]
  BY ZenonT(60), <1>2 DEF Step
<1> QED
  BY ZenonT(60), <1>1, <1>3, <1>4, MoveStep

LEMMA ReadReturn ==
    ASSUME RosterInv, UNCHANGED <<limit, roster, reason, state, closed>>,
           NEW c \in Callers, NEW x, Return(c, x), AnswerOk([call |-> call[c], result |-> x])
    PROVE  RosterInv'
<1>1. Grows /\ Tables' /\ Capped'
  BY ZenonT(60), SameTables
<1>2. PICK e : e = [call |-> call[c], result |-> x]
  BY ZenonT(60)
<1>3. AnswerOk(e)'
  BY ZenonT(60), <1>1, <1>2, GrowsKeeps
<1> QED
  BY ZenonT(60), <1>1, <1>2, <1>3, ReturnStep

(***************************************************************************)
(* The initial state.                                                      *)
(***************************************************************************)
LEMMA InitInv == Init => RosterInv
<1> SUFFICES ASSUME Init PROVE RosterInv
  BY ZenonT(60)
<1>1. roster \in [DOMAIN roster -> Entries] /\ DOMAIN roster \subseteq Names
      /\ \A n \in DOMAIN roster : roster[n].origin = "boot"
  <2>1. DOMAIN roster = {e.name : e \in Boot}
    BY ZenonT(60) DEF Init
  <2>2. DOMAIN roster \subseteq Names
    BY SMTT(60), <2>1, RosterAssumption DEF Specs
  <2>3. ASSUME NEW n \in DOMAIN roster PROVE roster[n] \in Entries /\ roster[n].origin = "boot"
    <3>1. PICK e \in Boot : e.name = n
      BY ZenonT(60), <2>1
    <3>2. (CHOOSE f \in Boot : f.name = n) \in Boot
      BY ZenonT(60), <3>1
    <3>3. PICK f \in Specs : roster[n] = Entry(f, "boot")
      BY ZenonT(60), <2>1, <3>2, RosterAssumption DEF Init
    <3> QED
      BY SMTT(60), <3>3 DEF Entry, Entries, Specs
  <2> QED
    BY ZenonT(60), <2>1, <2>2, <2>3 DEF Init
<1>2. Tables
  BY ZenonT(60), <1>1 DEF Init, Tables
<1>3. Capped
  <2>1. runtimeRegistered = {}
    BY ZenonT(60), <1>1 DEF runtimeRegistered
  <2>2. limit # <<>> => limit[1] \in Nat
    BY ZenonT(60), RosterAssumption DEF Init
  <2> QED
    BY SMTT(60), <2>1, <2>2, FS_EmptySet DEF Capped
<1>4. call \in [Callers -> Calls] /\ \A c \in Callers : CallOk(call[c])
  BY ZenonT(60), IdleOk, CallsUnion DEF Init
<1> QED
  BY ZenonT(60), <1>2, <1>3, <1>4 DEF Init, RosterInv

(***************************************************************************)
(* One lemma per action.                                                   *)
(***************************************************************************)
LEMMA StartCallInv ==
    ASSUME RosterInv, NEW c \in Callers, StartCall(c)
    PROVE  RosterInv'
<1>1. UNCHANGED <<limit, roster, reason, state, closed, log>>
  BY ZenonT(60) DEF StartCall, Start
<1>2. PICK r : r \in Calls /\ CallOk(r) /\ call' = [call EXCEPT ![c] = r]
  <2>1. ASSUME NEW spec \in Specs, Start(c, [op |-> "register", at |-> "read", spec |-> spec])
        PROVE  \E r \in Calls : CallOk(r) /\ call' = [call EXCEPT ![c] = r]
    <3> DEFINE r == [op |-> "register", at |-> "read", spec |-> spec]
    <3>1. r \in RegisterCalls /\ r.op = "register" /\ r.at = "read"
      BY ZenonT(60) DEF RegisterCalls
    <3>2. r \in Calls /\ CallOk(r)
      BY ZenonT(60), <3>1, CallsUnion, Kinds DEF CallOk
    <3> QED
      BY ZenonT(60), <2>1, <3>2 DEF Start
  <2>2. ASSUME NEW n \in Names, NEW w \in Reasons,
               Start(c, [op |-> "quiesce", at |-> "read", name |-> n, reason |-> w])
        PROVE  \E r \in Calls : CallOk(r) /\ call' = [call EXCEPT ![c] = r]
    <3> DEFINE r == [op |-> "quiesce", at |-> "read", name |-> n, reason |-> w]
    <3>1. r \in QuiesceCalls /\ r.op = "quiesce" /\ r.at = "read"
      BY ZenonT(60) DEF QuiesceCalls
    <3>2. r \in Calls /\ CallOk(r)
      BY ZenonT(60), <3>1, CallsUnion, Kinds DEF CallOk
    <3> QED
      BY ZenonT(60), <2>2, <3>2 DEF Start
  <2>3. ASSUME NEW n \in Names, Start(c, [op |-> "status", at |-> "read", name |-> n])
        PROVE  \E r \in Calls : CallOk(r) /\ call' = [call EXCEPT ![c] = r]
    <3> DEFINE r == [op |-> "status", at |-> "read", name |-> n]
    <3>1. r \in StatusCalls /\ r.op = "status" /\ r.at = "read"
      BY ZenonT(60) DEF StatusCalls
    <3>2. r \in Calls /\ CallOk(r)
      BY ZenonT(60), <3>1, CallsUnion, Kinds DEF CallOk
    <3> QED
      BY ZenonT(60), <2>3, <3>2 DEF Start
  <2>4. ASSUME NEW n \in Names, NEW op \in {"publish", "subscribe"},
               Start(c, [op |-> op, at |-> "admit", name |-> n, late |-> n \in closed])
        PROVE  \E r \in Calls : CallOk(r) /\ call' = [call EXCEPT ![c] = r]
    <3> DEFINE r == [op |-> op, at |-> "admit", name |-> n, late |-> n \in closed]
    <3>1. r \in UseCalls /\ r.op = op /\ r.at = "admit" /\ r.name = n
      BY SMTT(60) DEF UseCalls
    <3>2. r.late = (n \in closed)
      BY ZenonT(60)
    <3>3. r \in Calls /\ CallOk(r)
      BY ZenonT(60), <3>1, <3>2, CallsUnion, Kinds DEF CallOk
    <3> QED
      BY ZenonT(60), <2>4, <3>3 DEF Start
  <2> QED
    BY ZenonT(60), <2>1, <2>2, <2>3, <2>4 DEF StartCall
<1>3. Grows /\ Tables' /\ Capped'
  BY ZenonT(60), <1>1, SameTables
<1>4. CallOk(r)'
  BY ZenonT(60), <1>2, <1>3, GrowsKeeps
<1> QED
  BY ZenonT(60), <1>1, <1>2, <1>3, <1>4, MoveStep

(* The answer of CompareRegistration: "identical" is said of the same mode  *)
(* and document only.                                                      *)
LEMMA IdenticalIsSame ==
    ASSUME NEW entry, NEW spec
    PROVE  /\ CompareRegistration(entry, spec) = "identical" =>
                 entry.mode = spec.mode /\ entry.doc = spec.doc
           /\ CompareRegistration(entry, spec) # "created"
BY ZenonT(60) DEF CompareRegistration

LEMMA RegisterReadInv ==
    ASSUME RosterInv, NEW c \in Callers, RegisterRead(c)
    PROVE  RosterInv'
<1> DEFINE spec == call[c].spec
<1>1. call[c] \in RegisterCalls /\ call[c].op = "register"
  BY ZenonT(60), Kinds DEF RosterInv, RegisterRead
<1>2. UNCHANGED <<limit, roster, reason, state, closed>>
  BY ZenonT(60) DEF RegisterRead
<1>3. ASSUME NEW x, Return(c, x), x \notin {"created", "identical"} PROVE RosterInv'
  <2>1. AnswerOk([call |-> call[c], result |-> x])
    BY ZenonT(60), <1>1, <1>3 DEF AnswerOk
  <2> QED
    BY ZenonT(60), <1>2, <1>3, <2>1, ReadReturn
<1>4. ASSUME spec.name \in DOMAIN roster, Return(c, CompareRegistration(roster[spec.name], spec))
      PROVE  RosterInv'
  <2>1. PICK x : x = CompareRegistration(roster[spec.name], spec)
    BY ZenonT(60)
  <2>2. x \in {"created", "identical"} =>
           roster[spec.name].mode = spec.mode /\ roster[spec.name].doc = spec.doc
    BY ZenonT(60), <2>1, IdenticalIsSame
  <2>3. AnswerOk([call |-> call[c], result |-> x])
    BY ZenonT(60), <1>1, <1>4, <2>2 DEF AnswerOk
  <2>4. Return(c, x)
    BY ZenonT(60), <1>4, <2>1
  <2> QED
    BY ZenonT(60), <1>2, <2>3, <2>4, ReadReturn
<1>5. ASSUME limit # <<>>, Step(c, "build"), UNCHANGED log PROVE RosterInv'
  <2>1. CallOk([call[c] EXCEPT !.at = "build"]) /\ [call[c] EXCEPT !.at = "build"] \in Calls
    <3> DEFINE s == [call[c] EXCEPT !.at = "build"]
    <3>1. s \in RegisterCalls
      BY ZenonT(60), <1>1, MovedRegister
    <3> HIDE DEF s
    <3>2. s \in Calls /\ s \notin QuiesceCalls /\ s \notin StatusCalls /\ s \notin UseCalls
      BY ZenonT(60), <3>1, CallsUnion DEF RegisterCalls, QuiesceCalls, StatusCalls, UseCalls
    <3> QED
      BY ZenonT(60), <3>1, <3>2, <1>5 DEF CallOk, s
  <2> QED
    BY ZenonT(60), <1>2, <1>5, <2>1, ReadMove
<1> QED
  BY ZenonT(60), <1>3, <1>4, <1>5 DEF RegisterRead

LEMMA RegisterBuildInv ==
    ASSUME RosterInv, NEW c \in Callers, RegisterBuild(c)
    PROVE  RosterInv'
<1>1. call[c] \in RegisterCalls /\ call[c].op = "register" /\ call[c].at = "build"
  BY ZenonT(60), Kinds DEF RosterInv, RegisterBuild
<1>2. UNCHANGED <<limit, roster, reason, state, closed>>
  BY ZenonT(60) DEF RegisterBuild
<1>3. ASSUME NEW x, Return(c, x), x \notin {"created", "identical"} PROVE RosterInv'
  <2>1. AnswerOk([call |-> call[c], result |-> x])
    BY ZenonT(60), <1>1, <1>3 DEF AnswerOk
  <2> QED
    BY ZenonT(60), <1>2, <1>3, <2>1, ReadReturn
<1>4. ASSUME Step(c, "write"), UNCHANGED log PROVE RosterInv'
  <2>1. limit # <<>>
    BY ZenonT(60), <1>1 DEF RosterInv, CallOk
  <2>2. CallOk([call[c] EXCEPT !.at = "write"]) /\ [call[c] EXCEPT !.at = "write"] \in Calls
    <3> DEFINE s == [call[c] EXCEPT !.at = "write"]
    <3>1. s \in RegisterCalls
      BY ZenonT(60), <1>1, MovedRegister
    <3> HIDE DEF s
    <3>2. s \in Calls /\ s \notin QuiesceCalls /\ s \notin StatusCalls /\ s \notin UseCalls
      BY ZenonT(60), <3>1, CallsUnion DEF RegisterCalls, QuiesceCalls, StatusCalls, UseCalls
    <3> QED
      BY ZenonT(60), <3>1, <3>2, <2>1 DEF CallOk, s
  <2> QED
    BY ZenonT(60), <1>2, <1>4, <2>2, ReadMove
<1> QED
  BY ZenonT(60), <1>3, <1>4 DEF RegisterBuild

LEMMA RegisterWriteInv ==
    ASSUME RosterInv, NEW c \in Callers, RegisterWrite(c)
    PROVE  RosterInv'
<1> DEFINE spec == call[c].spec
<1>1. /\ call[c] \in RegisterCalls /\ call[c].op = "register" /\ call[c].at = "write"
      /\ spec \in Specs /\ limit # <<>>
  <2>1. call[c] \in RegisterCalls /\ call[c].op = "register" /\ call[c].at = "write"
    BY ZenonT(60), Kinds DEF RosterInv, RegisterWrite
  <2> QED
    BY ZenonT(60), <2>1 DEF RosterInv, CallOk, RegisterCalls
<1>2. UNCHANGED <<limit, closed>>
  BY ZenonT(60) DEF RegisterWrite
<1>3. ASSUME spec.name \in DOMAIN roster, UNCHANGED <<roster, reason, state>>,
             Return(c, CompareRegistration(roster[spec.name], spec))
      PROVE  RosterInv'
  <2>1. PICK x : x = CompareRegistration(roster[spec.name], spec)
    BY ZenonT(60)
  <2>2. x \in {"created", "identical"} =>
           roster[spec.name].mode = spec.mode /\ roster[spec.name].doc = spec.doc
    BY ZenonT(60), <2>1, IdenticalIsSame
  <2>3. AnswerOk([call |-> call[c], result |-> x])
    BY ZenonT(60), <1>1, <1>3, <2>2 DEF AnswerOk
  <2>4. Return(c, x)
    BY ZenonT(60), <1>3, <2>1
  <2> QED
    BY ZenonT(60), <1>2, <1>3, <2>3, <2>4, ReadReturn
<1>4. ASSUME UNCHANGED <<roster, reason, state>>, Return(c, "cap_reached") PROVE RosterInv'
  <2>1. AnswerOk([call |-> call[c], result |-> "cap_reached"])
    BY ZenonT(60), <1>1 DEF AnswerOk
  <2> QED
    BY ZenonT(60), <1>2, <1>4, <2>1, ReadReturn
<1>5. ASSUME spec.name \notin DOMAIN roster, Cardinality(runtimeRegistered) < limit[1],
             roster' = Extend(roster, spec.name, Entry(spec, "runtime")),
             reason' = Extend(reason, spec.name, Unrecorded),
             state' = Extend(state, spec.name, "active"),
             Return(c, "created")
      PROVE  RosterInv'
  <2>1. PICK n : n = spec.name
    BY ZenonT(60)
  <2>2. Entry(spec, "runtime") \in Entries /\ n \in Names
        /\ Entry(spec, "runtime").mode = spec.mode /\ Entry(spec, "runtime").doc = spec.doc
        /\ Entry(spec, "runtime").origin = "runtime"
    BY ZenonT(60), <1>1, <2>1 DEF Entry, Entries, Specs
  <2>3. /\ DOMAIN roster' = DOMAIN roster \cup {n}
        /\ roster'[n] = Entry(spec, "runtime") /\ \A m \in DOMAIN roster : roster'[m] = roster[m]
        /\ roster' \in [DOMAIN roster' -> Entries]
    BY ZenonT(60), <1>5, <2>1, <2>2 DEF Extend, RosterInv, Tables
  <2>4. /\ reason' \in [DOMAIN roster' -> Reasons \cup {Unrecorded}]
        /\ \A m \in DOMAIN roster : reason'[m] = reason[m]
    BY ZenonT(60), <1>5, <2>1, <2>3 DEF Extend, RosterInv, Tables
  <2>5. /\ state' \in [DOMAIN roster' -> {"active", "quiesced"}]
        /\ state'[n] = "active" /\ \A m \in DOMAIN roster : state'[m] = state[m]
    BY ZenonT(60), <1>5, <2>1, <2>3 DEF Extend, RosterInv, Tables
  <2>6. Grows
    BY ZenonT(60), <1>2, <2>3, <2>4 DEF Grows
  <2>7. Tables'
    <3>1. /\ limit' \in Limits /\ DOMAIN roster' \subseteq Names /\ closed' = closed
          /\ closed \subseteq DOMAIN roster /\ \A m \in closed : state[m] = "quiesced"
          /\ \A m \in DOMAIN roster : state[m] = "quiesced" => reason[m] # Unrecorded
      BY ZenonT(60), <1>2, <2>2, <2>3 DEF Tables, RosterInv
    <3>2. \A m \in DOMAIN roster' : state'[m] = "quiesced" => reason'[m] # Unrecorded
      BY ZenonT(60), <2>3, <2>4, <2>5, <3>1
    <3>3. closed' \subseteq DOMAIN roster' /\ \A m \in closed' : state'[m] = "quiesced"
      BY ZenonT(60), <2>3, <2>5, <3>1
    <3> QED
      BY ZenonT(60), <2>3, <2>4, <2>5, <3>1, <3>2, <3>3 DEF Tables
  <2>8. Capped'
    <3>1. runtimeRegistered' = runtimeRegistered \cup {n} /\ n \notin runtimeRegistered
      BY ZenonT(60), <1>5, <2>1, <2>2, <2>3 DEF runtimeRegistered
    <3>2. IsFiniteSet(runtimeRegistered)
      BY ZenonT(60) DEF RosterInv, Capped
    <3>3. /\ IsFiniteSet(runtimeRegistered')
          /\ Cardinality(runtimeRegistered') = Cardinality(runtimeRegistered) + 1
      BY ZenonT(60), <3>1, <3>2, FS_AddElement
    <3>4. Cardinality(runtimeRegistered) \in Nat
      BY ZenonT(60), <3>2, FS_CardinalityType
    <3>5. limit[1] \in Nat /\ limit' = limit
      BY ZenonT(60), <1>1, <1>2, RosterAssumption DEF RosterInv, Tables
    <3> QED
      BY SMTT(60), <1>1, <1>5, <3>3, <3>4, <3>5 DEF Capped
  <2>9. PICK e : e = [call |-> call[c], result |-> "created"]
    BY ZenonT(60)
  <2>10. AnswerOk(e)'
    <3>1. e.call = call[c] /\ e.call.op = "register" /\ e.call.spec = spec
      BY ZenonT(60), <1>1, <2>9
    <3>2. e.call.spec.name = n
      BY ZenonT(60), <3>1, <2>1
    <3>3. roster'[n].mode = e.call.spec.mode /\ roster'[n].doc = e.call.spec.doc
      BY ZenonT(60), <2>2, <2>3, <3>1
    <3> QED
      BY ZenonT(60), <2>3, <3>1, <3>2, <3>3 DEF AnswerOk
  <2> QED
    BY ZenonT(60), <1>5, <2>6, <2>7, <2>8, <2>9, <2>10, ReturnStep
<1> QED
  BY ZenonT(60), <1>3, <1>4, <1>5 DEF RegisterWrite

LEMMA QuiesceReadInv ==
    ASSUME RosterInv, NEW c \in Callers, QuiesceRead(c)
    PROVE  RosterInv'
<1>1. call[c] \in QuiesceCalls /\ call[c].op = "quiesce"
  BY ZenonT(60), Kinds DEF RosterInv, QuiesceRead
<1>2. UNCHANGED <<limit, roster, reason, state, closed>>
  BY ZenonT(60) DEF QuiesceRead
<1>3. ASSUME Return(c, "not_registered") PROVE RosterInv'
  <2>1. AnswerOk([call |-> call[c], result |-> "not_registered"])
    BY ZenonT(60), <1>1, RosterAssumption DEF AnswerOk, Outcomes, Unrecorded
  <2> QED
    BY ZenonT(60), <1>2, <1>3, <2>1, ReadReturn
<1>4. ASSUME call[c].name \in DOMAIN roster, Step(c, "record"), UNCHANGED log PROVE RosterInv'
  <2> DEFINE s == [call[c] EXCEPT !.at = "record"]
  <2>1. s \in QuiesceCalls /\ s.at = "record" /\ s.name = call[c].name
    BY ZenonT(60), <1>1, MovedQuiesce
  <2> HIDE DEF s
  <2>2. s \in Calls /\ s \notin RegisterCalls /\ s \notin StatusCalls /\ s \notin UseCalls
    BY ZenonT(60), <2>1, CallsUnion DEF RegisterCalls, QuiesceCalls, StatusCalls, UseCalls
  <2>3. CallOk(s)
    BY ZenonT(60), <1>4, <2>1, <2>2 DEF CallOk
  <2> QED
    BY ZenonT(60), <1>2, <1>4, <2>2, <2>3, ReadMove DEF s
<1> QED
  BY ZenonT(60), <1>3, <1>4 DEF QuiesceRead

LEMMA QuiesceRecordInv ==
    ASSUME RosterInv, NEW c \in Callers, QuiesceRecord(c)
    PROVE  RosterInv'
<1>1. PICK n : n = call[c].name
  BY ZenonT(60)
<1>2. /\ call[c] \in QuiesceCalls /\ call[c].at = "record"
      /\ n \in DOMAIN roster /\ call[c].reason \in Reasons
  <2>1. call[c] \in QuiesceCalls /\ call[c].at = "record"
    BY ZenonT(60), Kinds DEF RosterInv, QuiesceRecord
  <2> QED
    BY ZenonT(60), <1>1, <2>1 DEF RosterInv, CallOk, QuiesceCalls
<1>3. UNCHANGED <<limit, roster, state, closed, log>>
  BY ZenonT(60) DEF QuiesceRecord
<1>4. /\ reason' \in [DOMAIN roster -> Reasons \cup {Unrecorded}]
      /\ reason'[n] # Unrecorded
      /\ \A m \in DOMAIN roster : reason[m] # Unrecorded => reason'[m] = reason[m]
  <2>1. Unrecorded \notin Reasons
    BY ZenonT(60), RosterAssumption
  <2> QED
    BY ZenonT(60), <1>1, <1>2, <2>1 DEF QuiesceRecord, RosterInv, Tables
<1>5. Grows
  BY ZenonT(60), <1>3, <1>4 DEF Grows
<1>6. Tables' /\ Capped'
  BY ZenonT(60), <1>3, <1>4 DEF RosterInv, Tables, Capped, runtimeRegistered
<1>7. PICK r : r = [call[c] EXCEPT !.at = "flip"]
  BY ZenonT(60)
<1>8. r \in QuiesceCalls /\ r.name = n
  BY ZenonT(60), <1>1, <1>2, <1>7, MovedQuiesce
<1>9. r \in Calls /\ r \notin RegisterCalls /\ r \notin StatusCalls /\ r \notin UseCalls
  BY ZenonT(60), <1>8, CallsUnion DEF RegisterCalls, QuiesceCalls, StatusCalls, UseCalls
<1>10. CallOk(r)'
  BY ZenonT(60), <1>2, <1>3, <1>4, <1>8, <1>9 DEF CallOk, Recorded
<1>11. call' = [call EXCEPT ![c] = r]
  BY ZenonT(60), <1>7 DEF QuiesceRecord, Step
<1> QED
  BY ZenonT(60), <1>3, <1>5, <1>6, <1>9, <1>10, <1>11, MoveStep

LEMMA QuiesceFlipInv ==
    ASSUME RosterInv, NEW c \in Callers, QuiesceFlip(c)
    PROVE  RosterInv'
<1>1. PICK n : n = call[c].name
  BY ZenonT(60)
<1>2. call[c] \in QuiesceCalls /\ call[c].op = "quiesce" /\ Recorded(n)
  <2>1. call[c] \in QuiesceCalls /\ call[c].op = "quiesce" /\ call[c].at = "flip"
    BY ZenonT(60), Kinds DEF RosterInv, QuiesceFlip
  <2> QED
    BY ZenonT(60), <1>1, <2>1 DEF RosterInv, CallOk
<1>3. UNCHANGED <<limit, roster, reason>>
  BY ZenonT(60) DEF QuiesceFlip
<1>4. /\ state' \in [DOMAIN roster -> {"active", "quiesced"}] /\ state'[n] = "quiesced"
      /\ \A m \in DOMAIN roster : m # n => state'[m] = state[m]
  BY ZenonT(60), <1>1, <1>2 DEF QuiesceFlip, RosterInv, Tables, Recorded
<1>5. closed \subseteq closed' /\ closed' \subseteq closed \cup {n}
  BY ZenonT(60), <1>1 DEF QuiesceFlip
<1>6. Grows
  BY ZenonT(60), <1>3, <1>5 DEF Grows
<1>7. Tables'
  BY ZenonT(60), <1>2, <1>3, <1>4, <1>5 DEF RosterInv, Tables, Recorded
<1>8. Capped'
  BY ZenonT(60), <1>3 DEF RosterInv, Capped, runtimeRegistered
<1>9. ASSUME reason[n] = call[c].reason, Return(c, "ok") PROVE RosterInv'
  <2>1. PICK e : e = [call |-> call[c], result |-> "ok"]
    BY ZenonT(60)
  <2>2. "ok" \notin Reasons \cup {Unrecorded}
    BY ZenonT(60), RosterAssumption DEF Outcomes, Unrecorded
  <2>3. AnswerOk(e)
    BY ZenonT(60), <1>1, <1>2, <1>9, <2>1, <2>2 DEF AnswerOk
  <2>4. AnswerOk(e)'
    BY ZenonT(60), <1>6, <2>3, GrowsKeeps
  <2> QED
    BY ZenonT(60), <1>6, <1>7, <1>8, <1>9, <2>1, <2>4, ReturnStep
<1>10. ASSUME Return(c, reason[n]) PROVE RosterInv'
  <2>1. PICK x : x = reason[n]
    BY ZenonT(60)
  <2>2. PICK e : e = [call |-> call[c], result |-> x]
    BY ZenonT(60)
  <2>3. x # "ok"
    BY ZenonT(60), <1>2, <2>1, RosterAssumption DEF RosterInv, Tables, Recorded, Outcomes, Unrecorded
  <2>4. AnswerOk(e)
    BY ZenonT(60), <1>1, <1>2, <2>1, <2>2, <2>3 DEF AnswerOk
  <2>5. AnswerOk(e)'
    BY ZenonT(60), <1>6, <2>4, GrowsKeeps
  <2>6. Return(c, x)
    BY ZenonT(60), <1>10, <2>1
  <2> QED
    BY ZenonT(60), <1>6, <1>7, <1>8, <2>2, <2>5, <2>6, ReturnStep
<1> QED
  BY ZenonT(60), <1>1, <1>9, <1>10 DEF QuiesceFlip

LEMMA StatusReadInv ==
    ASSUME RosterInv, NEW c \in Callers, StatusRead(c)
    PROVE  RosterInv'
<1>1. call[c] \in StatusCalls /\ call[c].op = "status"
  BY ZenonT(60), Kinds DEF RosterInv, StatusRead
<1>2. UNCHANGED <<limit, roster, reason, state, closed>>
  BY ZenonT(60) DEF StatusRead
<1>3. ASSUME NEW x \in {"not_registered", "active"}, Return(c, x) PROVE RosterInv'
  <2>1. x \notin Reasons \cup {Unrecorded}
    BY ZenonT(60), RosterAssumption DEF Outcomes, Unrecorded
  <2>2. AnswerOk([call |-> call[c], result |-> x])
    BY ZenonT(60), <1>1, <2>1 DEF AnswerOk
  <2> QED
    BY ZenonT(60), <1>2, <1>3, <2>2, ReadReturn
<1>4. ASSUME call[c].name \in DOMAIN roster, state[call[c].name] = "quiesced",
             Step(c, "reason"), UNCHANGED log
      PROVE  RosterInv'
  <2> DEFINE s == [call[c] EXCEPT !.at = "reason"]
  <2>1. s \in StatusCalls /\ s.name = call[c].name
    BY ZenonT(60), <1>1, MovedStatus
  <2> HIDE DEF s
  <2>2. s \in Calls /\ s \notin RegisterCalls /\ s \notin QuiesceCalls /\ s \notin UseCalls
    BY ZenonT(60), <2>1, CallsUnion DEF RegisterCalls, QuiesceCalls, StatusCalls, UseCalls
  <2>3. CallOk(s)
    BY ZenonT(60), <1>4, <2>1, <2>2 DEF CallOk, Recorded, RosterInv, Tables
  <2> QED
    BY ZenonT(60), <1>2, <1>4, <2>2, <2>3, ReadMove DEF s
<1> QED
  BY ZenonT(60), <1>3, <1>4 DEF StatusRead

(* StatusReason and Refused answer with the reason on record.              *)
LEMMA ReasonAnswer ==
    ASSUME RosterInv, NEW c \in Callers, call[c] \in StatusCalls \cup UseCalls,
           Recorded(call[c].name), Return(c, reason[call[c].name]),
           UNCHANGED <<limit, roster, reason, state, closed>>
    PROVE  RosterInv'
<1>1. PICK x : x = reason[call[c].name]
  BY ZenonT(60)
<1>2. x \in Reasons /\ x # "done"
  BY ZenonT(60), <1>1, RosterAssumption DEF RosterInv, Tables, Recorded, Outcomes
<1>3. call[c].op # "register" /\ call[c].op # "quiesce"
  BY ZenonT(60) DEF StatusCalls, UseCalls
<1>4. AnswerOk([call |-> call[c], result |-> x])
  BY ZenonT(60), <1>1, <1>2, <1>3 DEF AnswerOk
<1>5. Return(c, x)
  BY ZenonT(60), <1>1
<1> QED
  BY ZenonT(60), <1>4, <1>5, ReadReturn

LEMMA StatusReasonInv ==
    ASSUME RosterInv, NEW c \in Callers, StatusReason(c)
    PROVE  RosterInv'
<1>1. call[c] \in StatusCalls /\ call[c].at = "reason"
  BY ZenonT(60), Kinds DEF RosterInv, StatusReason
<1>2. Recorded(call[c].name)
  BY ZenonT(60), <1>1 DEF RosterInv, CallOk
<1> QED
  BY ZenonT(60), <1>1, <1>2, ReasonAnswer DEF StatusReason

LEMMA RefusedInv ==
    ASSUME RosterInv, NEW c \in Callers, Refused(c)
    PROVE  RosterInv'
<1>1. call[c] \in UseCalls /\ call[c].at = "refused"
  BY ZenonT(60), Kinds DEF RosterInv, Refused
<1>2. Recorded(call[c].name)
  BY ZenonT(60), <1>1 DEF RosterInv, CallOk
<1> QED
  BY ZenonT(60), <1>1, <1>2, ReasonAnswer DEF Refused

LEMMA AdmitInv ==
    ASSUME RosterInv, NEW c \in Callers, Admit(c)
    PROVE  RosterInv'
<1>1. call[c] \in UseCalls /\ call[c].at \in {"admit", "readmit"}
  BY ZenonT(60), Kinds DEF RosterInv, Admit
<1>2. UNCHANGED <<limit, roster, reason, state, closed>>
  BY ZenonT(60) DEF Admit
<1>3. ASSUME Return(c, "not_registered") PROVE RosterInv'
  <2>1. "not_registered" \notin Reasons \cup {Unrecorded}
    BY ZenonT(60), RosterAssumption DEF Outcomes, Unrecorded
  <2>2. AnswerOk([call |-> call[c], result |-> "not_registered"])
    BY ZenonT(60), <1>1, <2>1 DEF AnswerOk, UseCalls
  <2> QED
    BY ZenonT(60), <1>2, <1>3, <2>2, ReadReturn
<1>4. call[c].late => call[c].name \in closed /\ state[call[c].name] = "quiesced"
  BY ZenonT(60), <1>1 DEF RosterInv, CallOk, Tables
<1>5. ASSUME NEW a \in {"readmit", "refused", "use"}, Step(c, a), UNCHANGED log,
             a = "refused" => Recorded(call[c].name), a # "refused" => ~call[c].late
      PROVE  RosterInv'
  <2> DEFINE s == [call[c] EXCEPT !.at = a]
  <2>1. s \in UseCalls /\ s.at = a /\ s.name = call[c].name /\ s.late = call[c].late
    <3>1. a \in {"admit", "readmit", "refused", "use"}
      BY ZenonT(60)
    <3> QED
      BY ZenonT(60), <1>1, <3>1, MovedUse
  <2> HIDE DEF s
  <2>2. s \in Calls /\ s \notin RegisterCalls /\ s \notin QuiesceCalls /\ s \notin StatusCalls
    BY ZenonT(60), <2>1, CallsUnion DEF RegisterCalls, QuiesceCalls, StatusCalls, UseCalls
  <2>3. CallOk(s)
    BY ZenonT(60), <1>4, <1>5, <2>1, <2>2 DEF CallOk
  <2> QED
    BY ZenonT(60), <1>2, <1>5, <2>2, <2>3, ReadMove DEF s
<1>6. CASE /\ call[c].name \in DOMAIN roster /\ state[call[c].name] = "quiesced"
           /\ Step(c, "refused") /\ UNCHANGED log
  <2>1. Recorded(call[c].name)
    BY ZenonT(60), <1>6 DEF RosterInv, Tables, Recorded
  <2> QED
    BY ZenonT(60), <1>5, <1>6, <2>1
<1>7. CASE /\ call[c].name \in DOMAIN roster /\ state[call[c].name] = "active"
           /\ Step(c, IF call[c].at = "admit" THEN "readmit" ELSE "use") /\ UNCHANGED log
  <2>1. ~call[c].late
    BY ZenonT(60), <1>4, <1>7
  <2>2. PICK a : a = IF call[c].at = "admit" THEN "readmit" ELSE "use"
    BY ZenonT(60)
  <2>3. Step(c, a)
    BY ZenonT(60), <1>7, <2>2
  <2> QED
    BY ZenonT(60), <1>5, <1>7, <2>1, <2>2, <2>3
<1> QED
  BY ZenonT(60), <1>3, <1>6, <1>7 DEF Admit

LEMMA UseInv ==
    ASSUME RosterInv, NEW c \in Callers, Use(c)
    PROVE  RosterInv'
<1>1. call[c] \in UseCalls /\ call[c].at = "use"
  BY ZenonT(60), Kinds DEF RosterInv, Use
<1>2. ~call[c].late
  BY ZenonT(60), <1>1 DEF RosterInv, CallOk, UseCalls
<1>3. "done" \notin Reasons \cup {Unrecorded}
  BY ZenonT(60), RosterAssumption DEF Outcomes, Unrecorded
<1>4. AnswerOk([call |-> call[c], result |-> "done"])
  BY ZenonT(60), <1>1, <1>2, <1>3 DEF AnswerOk, UseCalls
<1> QED
  BY ZenonT(60), <1>4, ReadReturn DEF Use

LEMMA NextInv == RosterInv /\ [Next]_vars => RosterInv'
<1> SUFFICES ASSUME RosterInv, [Next]_vars PROVE RosterInv'
  BY ZenonT(60)
<1>1. CASE Next
  BY ZenonT(60), <1>1, StartCallInv, RegisterReadInv, RegisterBuildInv, RegisterWriteInv, QuiesceReadInv,
     QuiesceRecordInv, QuiesceFlipInv, StatusReadInv, StatusReasonInv, AdmitInv, RefusedInv,
     UseInv DEF Next
<1>2. CASE UNCHANGED vars
  <2>1. UNCHANGED <<limit, roster, reason, state, closed, call, log>>
    BY ZenonT(60), <1>2 DEF vars
  <2> QED
    BY ZenonT(60), <2>1 DEF RosterInv, Tables, Capped, runtimeRegistered, CallOk, AnswerOk, Recorded
<1> QED
  BY ZenonT(60), <1>1, <1>2

LEMMA InvHolds == Spec => []RosterInv
BY InitInv, NextInv, PTL DEF Spec

(***************************************************************************)
(* The results.                                                            *)
(***************************************************************************)
(* However many register_channel calls race past the fast path, the roster  *)
(* holds at most max_channels runtime entries, and every caller told        *)
(* "created" or "identical" asked for exactly the entry that is there.      *)
THEOREM RosterAgreesAlways == Spec => []RosterAgrees
<1>1. RosterInv => RosterAgrees
  BY ZenonT(60) DEF RosterInv, Capped, AnswerOk, RosterAgrees
<1> QED
  BY <1>1, InvHolds, PTL

(* Everybody who learns that a channel is quiesced learns the one reason on *)
(* record, a quiesce that returns Ok has its own reason there, and nothing  *)
(* that begins after it is admitted.                                       *)
THEOREM QuiesceTruthfulAlways == Spec => []QuiesceTruthful
<1>1. RosterInv => QuiesceReasonTruthful
  BY ZenonT(60) DEF RosterInv, Tables, AnswerOk, Recorded, QuiesceReasonTruthful
<1>2. RosterInv => QuiesceStopsAdmission
  BY ZenonT(60) DEF RosterInv, AnswerOk, QuiesceStopsAdmission
<1>3. RosterInv => QuiesceTruthful
  BY ZenonT(60), <1>1, <1>2 DEF QuiesceTruthful
<1> QED
  BY <1>3, InvHolds, PTL

(* A server that declares no max_channels never registers a channel at      *)
(* runtime: the refusal on the read path is final.                         *)
THEOREM NoCapNoRegistration == Spec => [](limit = <<>> => runtimeRegistered = {})
<1>1. RosterInv => (limit = <<>> => runtimeRegistered = {})
  BY ZenonT(60) DEF RosterInv, Capped
<1> QED
  BY <1>1, InvHolds, PTL

(* No step removes or rewrites an entry, replaces a recorded reason, or     *)
(* reopens a channel whose quiesce returned Ok.                            *)
THEOREM EntriesPermanent == Spec => [][Grows]_vars
<1>1. ASSUME RosterInv, Next PROVE Grows
  <2>1. PICK c \in Callers : \/ StartCall(c) \/ RegisterRead(c) \/ RegisterBuild(c)
                             \/ RegisterWrite(c) \/ QuiesceRead(c) \/ QuiesceRecord(c)
                             \/ QuiesceFlip(c) \/ StatusRead(c) \/ StatusReason(c) \/ Admit(c)
                             \/ Refused(c) \/ Use(c)
    BY ZenonT(60), <1>1 DEF Next
  <2>2. CASE RegisterWrite(c)
    <3>1. DOMAIN reason = DOMAIN roster
      BY ZenonT(60), <1>1 DEF RosterInv, Tables
    <3>2. UNCHANGED <<limit, closed>>
      BY ZenonT(60), <2>2 DEF RegisterWrite
    <3>3. \/ UNCHANGED <<roster, reason>>
          \/ \E n, v, w : /\ n \notin DOMAIN roster
                         /\ roster' = Extend(roster, n, v) /\ reason' = Extend(reason, n, w)
      BY ZenonT(60), <2>2 DEF RegisterWrite
    <3> QED
      BY ZenonT(60), <3>1, <3>2, <3>3 DEF Grows, Extend
  <2>3. CASE QuiesceRecord(c)
    <3>1. reason \in [DOMAIN roster -> Reasons \cup {Unrecorded}]
      BY ZenonT(60), <1>1 DEF RosterInv, Tables
    <3> QED
      BY ZenonT(60), <2>3, <3>1 DEF QuiesceRecord, Grows
  <2>4. CASE QuiesceFlip(c)
    BY ZenonT(60), <2>4 DEF QuiesceFlip, Grows
  <2>5. CASE UNCHANGED <<limit, roster, reason, closed>>
    BY ZenonT(60), <2>5 DEF Grows
  <2>6. \/ RegisterWrite(c) \/ QuiesceRecord(c) \/ QuiesceFlip(c)
        \/ UNCHANGED <<limit, roster, reason, closed>>
    BY ZenonT(60), <2>1 DEF StartCall, Start, RegisterRead, RegisterBuild, QuiesceRead, StatusRead,
                StatusReason, Admit, Refused, Use
  <2> QED
    BY ZenonT(60), <2>2, <2>3, <2>4, <2>5, <2>6
<1> QED
  BY <1>1, InvHolds, PTL DEF Spec
=============================================================================
