----------------------- MODULE PendingRepliesProofs -----------------------
(***************************************************************************)
(* The pending-reply table answers every operation at most once and with   *)
(* its own reply, for every set of conversations and every value of the    *)
(* caps and bounds.                                                        *)
(***************************************************************************)
EXTENDS PendingReplies, TLAPS

Distinct(s) == \A i, j \in 1..Len(s) : s[i] = s[j] => i = j

Typed ==
    /\ entry \in [Ops -> {"none", "pending", "tombstone"}]
    /\ conv \in [Ops -> Convs \cup {NoConv}]
    /\ nextOp \in Nat \ {0}
    /\ forwarded \in [Convs -> Seq(Ops)]
    /\ replies \in [Convs -> Seq(Ops)]
    /\ frames \in [Ops -> Seq(Answer)]
    /\ wire \in Seq(Frame)

(* An id not yet allocated has no entry and no answer.                     *)
FreshIds == \A o \in Ops : o >= nextOp => entry[o] = "none" /\ frames[o] = <<>>

(* A pending entry has not been answered.                                  *)
PendingUnanswered == \A o \in Ops : entry[o] = "pending" => frames[o] = <<>>

(* An operation is in a queue of its conversation at most once.            *)
QueuedOnce ==
    \A c \in Convs :
        /\ Distinct(forwarded[c]) /\ Distinct(replies[c])
        /\ \A i \in 1..Len(forwarded[c]), j \in 1..Len(replies[c]) :
              forwarded[c][i] # replies[c][j]

(* Why AnsweredOnceByItsOwn needs the rest: a reply is matched to an entry *)
(* that frees it, so no second copy of the reply may be queued; an entry   *)
(* is answered only while pending, so a pending one must have no answer.   *)
TableInv ==
    /\ Typed /\ FreshIds /\ PendingUnanswered /\ QueuedOnce
    /\ AnsweredOnceByItsOwn /\ NoOrphanReply

core == <<entry, conv, nextOp, forwarded, replies, frames>>

LEMMA TableInit == Init => TableInv
  BY SMTT(60) DEF Init, TableInv, Typed, FreshIds, PendingUnanswered, QueuedOnce, Distinct,
     AnsweredOnceByItsOwn, NoOrphanReply, Ops, Frame, Answer

(* Steps that leave the table, the queues and the answers alone.           *)
LEMMA QuietStep ==
    ASSUME TableInv, UNCHANGED core, wire' \in Seq(Frame)
    PROVE  TableInv'
  <1>1. /\ entry' = entry /\ conv' = conv /\ nextOp' = nextOp
        /\ forwarded' = forwarded /\ replies' = replies /\ frames' = frames
    BY ZenonT(60) DEF core
  <1>2. Typed' BY ZenonT(60), <1>1 DEF TableInv, Typed
  <1>3. FreshIds' /\ PendingUnanswered' BY ZenonT(60), <1>1 DEF TableInv, FreshIds, PendingUnanswered
  <1>4. QueuedOnce' BY ZenonT(60), <1>1 DEF TableInv, QueuedOnce, Distinct
  <1>5. AnsweredOnceByItsOwn' /\ NoOrphanReply'
    BY SMTT(60), <1>1 DEF TableInv, AnsweredOnceByItsOwn, NoOrphanReply
  <1> QED BY ZenonT(60), <1>2, <1>3, <1>4, <1>5 DEF TableInv

(* What the head and the tail of a duplicate-free queue are.               *)
LEMMA TailOfDistinct ==
    ASSUME NEW S, NEW s \in Seq(S), s # <<>>, Distinct(s)
    PROVE  /\ Tail(s) \in Seq(S) /\ Head(s) \in S
           /\ Len(Tail(s)) = Len(s) - 1
           /\ Head(s) = s[1] /\ Len(s) >= 1
           /\ \A i \in 1..Len(Tail(s)) : /\ Tail(s)[i] = s[i + 1] /\ i + 1 \in 1..Len(s)
                                         /\ Tail(s)[i] # Head(s)
           /\ Distinct(Tail(s))
  <1>1. /\ Tail(s) \in Seq(S) /\ Head(s) \in S /\ Len(Tail(s)) = Len(s) - 1
        /\ Head(s) = s[1] /\ Len(s) >= 1
        /\ \A i \in 1..Len(Tail(s)) : Tail(s)[i] = s[i + 1] /\ i + 1 \in 1..Len(s)
    BY SMTT(60)
  <1>2. \A i \in 1..Len(Tail(s)) : Tail(s)[i] # Head(s)
    BY SMTT(60), <1>1 DEF Distinct
  <1>3. Distinct(Tail(s))
    BY SMTT(60), <1>1 DEF Distinct
  <1> QED BY ZenonT(60), <1>1, <1>2, <1>3

LEMMA SilentStep == ASSUME TableInv, NEW c \in Convs, ParticipantSilent(c) PROVE TableInv'
  <1> USE DEF TableInv
  <1>1. forwarded[c] \in Seq(Ops) /\ forwarded[c] # <<>> /\ Distinct(forwarded[c])
    BY ZenonT(60) DEF Typed, QueuedOnce, ParticipantSilent
  <1>2. UNCHANGED <<entry, conv, nextOp, replies, frames, wire>>
    BY ZenonT(60) DEF ParticipantSilent, table
  <1>3. forwarded' = [forwarded EXCEPT ![c] = Tail(@)]
    BY ZenonT(60) DEF ParticipantSilent
  <1> DEFINE t == Tail(forwarded[c])
  <1>4. /\ t \in Seq(Ops) /\ Distinct(t)
        /\ \A i \in 1..Len(t) : t[i] = forwarded[c][i + 1] /\ i + 1 \in 1..Len(forwarded[c])
    BY ZenonT(60), <1>1, TailOfDistinct
  <1>5. /\ forwarded' \in [Convs -> Seq(Ops)] /\ forwarded'[c] = t
        /\ \A d \in Convs : d # c => forwarded'[d] = forwarded[d]
    BY ZenonT(60), <1>3, <1>4 DEF Typed
  <1> HIDE DEF t
  <1>6. Typed' /\ FreshIds' /\ PendingUnanswered' /\ AnsweredOnceByItsOwn'
    BY ZenonT(60), <1>2, <1>5 DEF Typed, FreshIds, PendingUnanswered, AnsweredOnceByItsOwn
  <1>7. QueuedOnce'
    <2>1. ASSUME NEW d \in Convs
          PROVE  /\ Distinct(forwarded'[d]) /\ Distinct(replies'[d])
                 /\ \A i \in 1..Len(forwarded'[d]), j \in 1..Len(replies'[d]) :
                       forwarded'[d][i] # replies'[d][j]
      <3>1. CASE d = c
        <4>1. forwarded'[d] = t /\ replies'[d] = replies[c]  BY ZenonT(60), <3>1, <1>2, <1>5
        <4>2. /\ Distinct(replies[c])
              /\ \A i \in 1..Len(t), j \in 1..Len(replies[c]) : t[i] # replies[c][j]
          BY ZenonT(60), <1>4 DEF QueuedOnce
        <4> QED BY ZenonT(60), <1>4, <4>1, <4>2
      <3>2. CASE d # c
        <4>1. forwarded'[d] = forwarded[d] /\ replies'[d] = replies[d]
          BY ZenonT(60), <3>2, <1>2, <1>5
        <4> QED BY ZenonT(60), <4>1 DEF QueuedOnce
      <3> QED BY ZenonT(60), <3>1, <3>2
    <2> QED BY ZenonT(60), <2>1 DEF QueuedOnce, Distinct
  <1>8. NoOrphanReply'
    <2>1. ASSUME NEW d \in Convs, NEW i \in 1..Len(forwarded'[d])
          PROVE  entry[forwarded'[d][i]] # "none" /\ conv[forwarded'[d][i]] = d
      <3>1. CASE d = c  BY SMTT(60), <3>1, <1>4, <1>5 DEF NoOrphanReply
      <3>2. CASE d # c  BY SMTT(60), <3>2, <1>5 DEF NoOrphanReply
      <3> QED BY ZenonT(60), <3>1, <3>2
    <2> QED BY SMTT(60), <2>1, <1>2 DEF NoOrphanReply
  <1> QED BY ZenonT(60), <1>6, <1>7, <1>8

LEMMA ReplyStep == ASSUME TableInv, NEW c \in Convs, ParticipantReplies(c) PROVE TableInv'
  <1> USE DEF TableInv
  <1> DEFINE o == Head(forwarded[c])
             t == Tail(forwarded[c])
             r == Append(replies[c], o)
  <1>1. forwarded[c] \in Seq(Ops) /\ forwarded[c] # <<>> /\ Distinct(forwarded[c])
    BY ZenonT(60) DEF Typed, QueuedOnce, ParticipantReplies
  <1>2. UNCHANGED <<entry, conv, nextOp, frames, wire>>
    BY ZenonT(60) DEF ParticipantReplies, table
  <1>3. /\ forwarded' = [forwarded EXCEPT ![c] = t]
        /\ replies' = [replies EXCEPT ![c] = r]
    BY ZenonT(60) DEF ParticipantReplies
  <1>4. /\ t \in Seq(Ops) /\ Distinct(t) /\ o \in Ops /\ o = forwarded[c][1]
        /\ 1 \in 1..Len(forwarded[c])
        /\ \A i \in 1..Len(t) : /\ t[i] = forwarded[c][i + 1] /\ i + 1 \in 1..Len(forwarded[c])
                               /\ t[i] # o
    BY SMTT(60), <1>1, TailOfDistinct
  <1>5a. replies[c] \in Seq(Ops)  BY ZenonT(60) DEF Typed
  <1>5b. \A j \in 1..Len(replies[c]) : replies[c][j] # o
    BY SMTT(60), <1>4 DEF QueuedOnce
  <1>5. /\ r \in Seq(Ops) /\ Len(r) = Len(replies[c]) + 1 /\ r[Len(r)] = o
        /\ \A j \in 1..Len(replies[c]) : r[j] = replies[c][j] /\ r[j] # o
    <2>1. r \in Seq(Ops) /\ Len(r) = Len(replies[c]) + 1 /\ r[Len(r)] = o
          /\ \A j \in 1..Len(replies[c]) : r[j] = replies[c][j]
      BY SMTT(60), <1>4, <1>5a
    <2> QED BY ZenonT(60), <2>1, <1>5b
  <1>6. /\ forwarded' \in [Convs -> Seq(Ops)] /\ forwarded'[c] = t
        /\ \A d \in Convs : d # c => forwarded'[d] = forwarded[d]
    BY ZenonT(60), <1>3, <1>4 DEF Typed
  <1>7. /\ replies' \in [Convs -> Seq(Ops)] /\ replies'[c] = r
        /\ \A d \in Convs : d # c => replies'[d] = replies[d]
    BY ZenonT(60), <1>3, <1>5 DEF Typed
  <1>8. Len(replies[c]) \in Nat /\ Len(t) \in Nat
    BY SMTT(60), <1>4 DEF Typed
  <1>0. entry[o] # "none" /\ conv[o] = c
    BY SMTT(60), <1>4 DEF NoOrphanReply
  <1> HIDE DEF t, r, o
  <1>9. Typed' /\ FreshIds' /\ PendingUnanswered' /\ AnsweredOnceByItsOwn'
    BY ZenonT(60), <1>2, <1>6, <1>7 DEF Typed, FreshIds, PendingUnanswered, AnsweredOnceByItsOwn
  <1>10. \A j \in 1..Len(r) : j = Len(r) \/ j \in 1..Len(replies[c])
    BY SMTT(60), <1>5, <1>8
  <1>11. QueuedOnce'
    <2>1. ASSUME NEW d \in Convs
          PROVE  /\ Distinct(forwarded'[d]) /\ Distinct(replies'[d])
                 /\ \A i \in 1..Len(forwarded'[d]), j \in 1..Len(replies'[d]) :
                       forwarded'[d][i] # replies'[d][j]
      <3>1. CASE d = c
        <4>1. Distinct(r)
          <5>1. Distinct(replies[c])  BY ZenonT(60) DEF QueuedOnce
          <5> QED BY ZenonT(60), <5>1, <1>5, <1>10 DEF Distinct
        <4>2. ASSUME NEW i \in 1..Len(t), NEW j \in 1..Len(r) PROVE t[i] # r[j]
          <5>1. t[i] = forwarded[c][i + 1] /\ i + 1 \in 1..Len(forwarded[c]) /\ t[i] # o
            BY ZenonT(60), <1>4
          <5>2. CASE j = Len(r)  BY ZenonT(60), <5>1, <5>2, <1>5
          <5>3. CASE j \in 1..Len(replies[c])
            <6>1. r[j] = replies[c][j]  BY ZenonT(60), <5>3, <1>5
            <6>2. forwarded[c][i + 1] # replies[c][j]  BY ZenonT(60), <5>1, <5>3 DEF QueuedOnce
            <6> QED BY ZenonT(60), <5>1, <6>1, <6>2
          <5> QED BY ZenonT(60), <5>2, <5>3, <1>10
        <4> QED BY SMTT(60), <3>1, <4>1, <4>2, <1>4, <1>6, <1>7
      <3>2. CASE d # c
        <4>1. forwarded'[d] = forwarded[d] /\ replies'[d] = replies[d]  BY ZenonT(60), <3>2, <1>6, <1>7
        <4> QED BY ZenonT(60), <4>1 DEF QueuedOnce
      <3> QED BY ZenonT(60), <3>1, <3>2
    <2> QED BY ZenonT(60), <2>1 DEF QueuedOnce, Distinct
  <1>12. NoOrphanReply'
    <2>1. ASSUME NEW d \in Convs, NEW i \in 1..Len(forwarded'[d])
          PROVE  entry[forwarded'[d][i]] # "none" /\ conv[forwarded'[d][i]] = d
      <3>1. CASE d = c
        <4>1. forwarded'[d][i] = forwarded[c][i + 1] /\ i + 1 \in 1..Len(forwarded[c])
          BY ZenonT(60), <3>1, <1>4, <1>6
        <4> QED BY SMTT(60), <3>1, <4>1 DEF NoOrphanReply
      <3>2. CASE d # c
        <4>1. forwarded'[d] = forwarded[d]  BY ZenonT(60), <3>2, <1>6
        <4>2. i \in 1..Len(forwarded[d])  BY ZenonT(60), <4>1
        <4>3. entry[forwarded[d][i]] # "none" /\ conv[forwarded[d][i]] = d
          BY ZenonT(60), <4>2 DEF NoOrphanReply
        <4> QED BY ZenonT(60), <4>1, <4>3
      <3> QED BY ZenonT(60), <3>1, <3>2
    <2>2. ASSUME NEW d \in Convs, NEW i \in 1..Len(replies'[d])
          PROVE  entry[replies'[d][i]] # "none" /\ conv[replies'[d][i]] = d
      <3>1. CASE d = c
        <4>1. CASE i = Len(r)  BY ZenonT(60), <3>1, <4>1, <1>5, <1>7, <1>0
        <4>2. CASE i \in 1..Len(replies[c])
          <5>1. replies'[d][i] = replies[c][i]  BY ZenonT(60), <3>1, <4>2, <1>5, <1>7
          <5> QED BY SMTT(60), <3>1, <4>2, <5>1 DEF NoOrphanReply
        <4>3. i \in 1..Len(r)  BY ZenonT(60), <3>1, <1>7
        <4> QED BY ZenonT(60), <4>1, <4>2, <4>3, <1>10
      <3>2. CASE d # c
        <4>1. replies'[d] = replies[d]  BY ZenonT(60), <3>2, <1>7
        <4>2. i \in 1..Len(replies[d])  BY ZenonT(60), <4>1
        <4>3. entry[replies[d][i]] # "none" /\ conv[replies[d][i]] = d
          BY ZenonT(60), <4>2 DEF NoOrphanReply
        <4> QED BY ZenonT(60), <4>1, <4>3
      <3> QED BY ZenonT(60), <3>1, <3>2
    <2> QED BY SMTT(60), <2>1, <2>2, <1>2 DEF NoOrphanReply
  <1> QED BY ZenonT(60), <1>9, <1>11, <1>12

(* A request takes the next id, which nothing refers to yet.               *)
LEMMA RequestStep == ASSUME TableInv, Request PROVE TableInv'
  <1> USE DEF TableInv
  <1> DEFINE c == Head(wire).conv
             f == Append(forwarded[c], nextOp)
  <1>1. wire \in Seq(Frame) /\ wire # <<>> /\ nextOp \in Ops
    BY SMTT(60), BoundsAssumption DEF Request, NextFrame, Typed, Ops
  <1>2. c \in Convs /\ wire' \in Seq(Frame)
    <2>1. Head(wire) \in Frame /\ Tail(wire) \in Seq(Frame)  BY SMTT(60), <1>1
    <2>2. wire' = Tail(wire)  BY ZenonT(60) DEF Request
    <2> QED BY ZenonT(60), <2>1, <2>2 DEF Frame
  <1>3. nextOp' = nextOp + 1 /\ conv' = [conv EXCEPT ![nextOp] = c]
        /\ replies' = replies /\ frames' = frames
    BY ZenonT(60) DEF Request
  <1>4. \/ entry' = entry /\ forwarded' = forwarded
        \/ /\ entry' = [entry EXCEPT ![nextOp] = "pending"]
           /\ forwarded' = [forwarded EXCEPT ![c] = f]
    BY ZenonT(60) DEF Request
  <1>5. entry[nextOp] = "none" /\ frames[nextOp] = <<>>
    BY SMTT(60), <1>1 DEF FreshIds, Ops
  <1>6. /\ f \in Seq(Ops) /\ Len(f) = Len(forwarded[c]) + 1 /\ f[Len(f)] = nextOp
        /\ Len(forwarded[c]) \in Nat
        /\ \A i \in 1..Len(forwarded[c]) : f[i] = forwarded[c][i]
    BY SMTT(60), <1>1, <1>2 DEF Typed
  <1>7. \A i \in 1..Len(f) : i = Len(f) \/ i \in 1..Len(forwarded[c])
    BY SMTT(60), <1>6
  <1>8. \A d \in Convs : /\ \A i \in 1..Len(forwarded[d]) :
                               forwarded[d][i] \in Ops /\ forwarded[d][i] # nextOp
                        /\ \A i \in 1..Len(replies[d]) :
                               replies[d][i] \in Ops /\ replies[d][i] # nextOp
    BY SMTT(60), <1>5 DEF Typed, NoOrphanReply
  <1>9. \A d \in Convs :
            \/ forwarded'[d] = forwarded[d]
            \/ d = c /\ forwarded'[d] = f /\ entry'[nextOp] = "pending"
    BY ZenonT(60), <1>1, <1>2, <1>4 DEF Typed
  <1>10. /\ \A o \in Ops : o # nextOp => entry'[o] = entry[o] /\ conv'[o] = conv[o]
         /\ conv'[nextOp] = c
         /\ entry' \in [Ops -> {"none", "pending", "tombstone"}]
         /\ conv' \in [Ops -> Convs \cup {NoConv}]
         /\ forwarded' \in [Convs -> Seq(Ops)]
    BY ZenonT(60), <1>1, <1>2, <1>3, <1>4, <1>6 DEF Typed
  <1> HIDE DEF f, c
  <1>11. Typed'
    BY SMTT(60), <1>2, <1>3, <1>10 DEF Typed
  <1>12. FreshIds' /\ PendingUnanswered' /\ AnsweredOnceByItsOwn'
    <2>1. FreshIds'
      BY SMTT(60), <1>1, <1>3, <1>10 DEF Typed, FreshIds, Ops
    <2>2. PendingUnanswered'
      BY ZenonT(60), <1>1, <1>3, <1>5, <1>10 DEF PendingUnanswered
    <2>3. AnsweredOnceByItsOwn'  BY ZenonT(60), <1>3 DEF AnsweredOnceByItsOwn
    <2> QED BY ZenonT(60), <2>1, <2>2, <2>3
  <1>13. QueuedOnce'
    <2>1. ASSUME NEW d \in Convs
          PROVE  /\ Distinct(forwarded'[d]) /\ Distinct(replies'[d])
                 /\ \A i \in 1..Len(forwarded'[d]), j \in 1..Len(replies'[d]) :
                       forwarded'[d][i] # replies'[d][j]
      <3>1. CASE forwarded'[d] = forwarded[d]  BY SMTT(60), <3>1, <1>3 DEF QueuedOnce
      <3>2. CASE d = c /\ forwarded'[d] = f
        <4>1. Distinct(forwarded[c])  BY ZenonT(60), <1>2 DEF QueuedOnce
        <4>2. Distinct(f)  BY ZenonT(60), <4>1, <1>2, <1>6, <1>7, <1>8 DEF Distinct
        <4>3. \A i \in 1..Len(f), j \in 1..Len(replies[c]) : f[i] # replies[c][j]
          BY ZenonT(60), <1>2, <1>6, <1>7, <1>8 DEF QueuedOnce
        <4> QED BY ZenonT(60), <3>2, <4>2, <4>3, <1>3 DEF QueuedOnce
      <3> QED BY ZenonT(60), <3>1, <3>2, <1>9
    <2> QED BY ZenonT(60), <2>1 DEF QueuedOnce, Distinct
  <1>14. NoOrphanReply'
    <2>a. \A o \in Ops : o # nextOp => entry'[o] = entry[o] /\ conv'[o] = conv[o]
      BY ZenonT(60), <1>10
    <2>b. ASSUME NEW d \in Convs, NEW i \in 1..Len(forwarded[d])
          PROVE  entry'[forwarded[d][i]] # "none" /\ conv'[forwarded[d][i]] = d
      <3>1. entry[forwarded[d][i]] # "none" /\ conv[forwarded[d][i]] = d
        BY ZenonT(60) DEF NoOrphanReply
      <3>2. forwarded[d][i] \in Ops /\ forwarded[d][i] # nextOp  BY ZenonT(60), <1>8
      <3> QED BY ZenonT(60), <3>1, <3>2, <2>a
    <2>c. ASSUME NEW d \in Convs, NEW i \in 1..Len(replies[d])
          PROVE  entry'[replies[d][i]] # "none" /\ conv'[replies[d][i]] = d
      <3>1. entry[replies[d][i]] # "none" /\ conv[replies[d][i]] = d
        BY ZenonT(60) DEF NoOrphanReply
      <3>2. replies[d][i] \in Ops /\ replies[d][i] # nextOp  BY ZenonT(60), <1>8
      <3> QED BY ZenonT(60), <3>1, <3>2, <2>a
    <2>1. ASSUME NEW d \in Convs, NEW i \in 1..Len(forwarded'[d])
          PROVE  entry'[forwarded'[d][i]] # "none" /\ conv'[forwarded'[d][i]] = d
      <3>1. CASE forwarded'[d] = forwarded[d]  BY ZenonT(60), <3>1, <2>b
      <3>2. CASE d = c /\ forwarded'[d] = f /\ entry'[nextOp] = "pending"
        <4>1. CASE i = Len(f)
          <5>1. forwarded'[d][i] = nextOp  BY ZenonT(60), <3>2, <4>1, <1>6
          <5> QED BY ZenonT(60), <5>1, <3>2, <1>10
        <4>2. CASE i \in 1..Len(forwarded[c])
          <5>1. forwarded'[d][i] = forwarded[d][i]  BY ZenonT(60), <3>2, <4>2, <1>6
          <5> QED BY ZenonT(60), <5>1, <3>2, <4>2, <2>b
        <4>3. i \in 1..Len(f)  BY ZenonT(60), <3>2
        <4> QED BY ZenonT(60), <4>1, <4>2, <4>3, <1>7
      <3> QED BY ZenonT(60), <3>1, <3>2, <1>9
    <2>2. ASSUME NEW d \in Convs, NEW i \in 1..Len(replies'[d])
          PROVE  entry'[replies'[d][i]] # "none" /\ conv'[replies'[d][i]] = d
      <3>1. replies' = replies  BY ZenonT(60), <1>3
      <3> QED BY ZenonT(60), <3>1, <2>c
    <2> QED BY ZenonT(60), <2>1, <2>2 DEF NoOrphanReply
  <1> QED BY ZenonT(60), <1>11, <1>12, <1>13, <1>14

(* Closing a conversation frees its entries and empties its queues.        *)
LEMMA CloseStep == ASSUME TableInv, ConversationClose PROVE TableInv'
  <1> USE DEF TableInv
  <1> DEFINE c == Head(wire).conv
  <1>1. /\ entry' = [o \in Ops |-> IF c \in open /\ conv[o] = c THEN "none" ELSE entry[o]]
        /\ forwarded' = [forwarded EXCEPT ![c] = <<>>]
        /\ replies' = [replies EXCEPT ![c] = <<>>]
        /\ wire' = Tail(wire) /\ wire # <<>>
        /\ UNCHANGED <<conv, nextOp, frames>>
    BY ZenonT(60) DEF ConversationClose, NextFrame
  <1>2. /\ \A o \in Ops : entry'[o] = entry[o] \/ (entry'[o] = "none" /\ conv[o] = c)
        /\ entry' \in [Ops -> {"none", "pending", "tombstone"}]
    <2>1. ASSUME NEW o \in Ops
          PROVE  /\ entry'[o] = entry[o] \/ (entry'[o] = "none" /\ conv[o] = c)
                 /\ entry'[o] \in {"none", "pending", "tombstone"}
      <3>1. entry'[o] = IF c \in open /\ conv[o] = c THEN "none" ELSE entry[o]  BY ZenonT(60), <1>1
      <3>2. entry[o] \in {"none", "pending", "tombstone"}  BY ZenonT(60) DEF Typed
      <3> HIDE DEF c
      <3> QED BY ZenonT(60), <3>1, <3>2
    <2>2. entry' = [o \in Ops |-> entry'[o]]  BY ZenonT(60), <1>1
    <2> HIDE DEF c
    <2> QED BY ZenonT(60), <2>1, <2>2
  <1>3. /\ \A d \in Convs : d # c => forwarded'[d] = forwarded[d] /\ replies'[d] = replies[d]
        /\ c \in Convs => forwarded'[c] = <<>> /\ replies'[c] = <<>>
        /\ forwarded' \in [Convs -> Seq(Ops)] /\ replies' \in [Convs -> Seq(Ops)]
    <2>1. forwarded \in [Convs -> Seq(Ops)] /\ replies \in [Convs -> Seq(Ops)]  BY ZenonT(60) DEF Typed
    <2>2. <<>> \in Seq(Ops)  BY SMTT(60)
    <2> HIDE DEF c
    <2>3. forwarded' \in [Convs -> Seq(Ops)] /\ replies' \in [Convs -> Seq(Ops)]
      BY ZenonT(60), <1>1, <2>1, <2>2
    <2> QED BY ZenonT(60), <1>1, <2>1, <2>3
  <1>4. wire' \in Seq(Frame)  BY SMTT(60), <1>1 DEF Typed
  <1> HIDE DEF c
  <1>5. Typed'  BY ZenonT(60), <1>1, <1>2, <1>3, <1>4 DEF Typed
  <1>6. FreshIds' /\ PendingUnanswered' /\ AnsweredOnceByItsOwn'
    BY ZenonT(60), <1>1, <1>2 DEF FreshIds, PendingUnanswered, AnsweredOnceByItsOwn
  <1>7. QueuedOnce'
    <2>1. ASSUME NEW d \in Convs
          PROVE  /\ Distinct(forwarded'[d]) /\ Distinct(replies'[d])
                 /\ \A i \in 1..Len(forwarded'[d]), j \in 1..Len(replies'[d]) :
                       forwarded'[d][i] # replies'[d][j]
      <3>1. CASE d # c
        <4>1. forwarded'[d] = forwarded[d] /\ replies'[d] = replies[d]  BY ZenonT(60), <3>1, <1>3
        <4> QED BY ZenonT(60), <4>1 DEF QueuedOnce
      <3>2. CASE d = c  BY SMTT(60), <3>2, <1>3 DEF Distinct
      <3> QED BY ZenonT(60), <3>1, <3>2
    <2> QED BY ZenonT(60), <2>1 DEF QueuedOnce, Distinct
  <1>8. NoOrphanReply'
    <2>1. ASSUME NEW d \in Convs
          PROVE  /\ \A i \in 1..Len(replies'[d]) :
                       entry'[replies'[d][i]] # "none" /\ conv[replies'[d][i]] = d
                 /\ \A i \in 1..Len(forwarded'[d]) :
                       entry'[forwarded'[d][i]] # "none" /\ conv[forwarded'[d][i]] = d
      <3>1. CASE d # c
        <4>1. forwarded'[d] = forwarded[d] /\ replies'[d] = replies[d]  BY ZenonT(60), <3>1, <1>3
        <4>2. \A i \in 1..Len(replies[d]) : replies[d][i] \in Ops  BY SMTT(60) DEF Typed
        <4>3. \A i \in 1..Len(forwarded[d]) : forwarded[d][i] \in Ops  BY SMTT(60) DEF Typed
        <4> QED BY SMTT(60), <3>1, <4>1, <4>2, <4>3, <1>2 DEF NoOrphanReply
      <3>2. CASE d = c  BY SMTT(60), <3>2, <1>3
      <3> QED BY ZenonT(60), <3>1, <3>2
    <2> QED BY ZenonT(60), <2>1, <1>1 DEF NoOrphanReply
  <1> QED BY ZenonT(60), <1>5, <1>6, <1>7, <1>8

(* A due entry is pending, so it has no answer before its timeout.         *)
LEMMA ExpireStep == ASSUME TableInv, ExpireDue PROVE TableInv'
  <1> USE DEF TableInv
  <1> DEFINE late(o) == entry[o] = "pending" /\ o \in due
             a(o) == [kind |-> "timeout", of |-> o]
  <1>1. /\ \A o \in Ops : late(o) => entry'[o] = "tombstone" /\ frames'[o] = Append(frames[o], a(o))
        /\ \A o \in Ops : ~late(o) => entry'[o] = entry[o] /\ frames'[o] = frames[o]
        /\ entry' = [o \in Ops |-> entry'[o]] /\ frames' = [o \in Ops |-> frames'[o]]
    BY ZenonT(60) DEF ExpireDue, Pending
  <1>2. UNCHANGED <<conv, nextOp, forwarded, replies, wire>>
    BY ZenonT(60) DEF ExpireDue, other
  <1>3. ASSUME NEW o \in Ops, late(o)
        PROVE  frames'[o] = <<a(o)>> /\ a(o) \in Answer /\ frames'[o] \in Seq(Answer)
    <2>1. frames[o] = <<>>  BY ZenonT(60), <1>3 DEF PendingUnanswered
    <2>2. a(o) \in Answer  BY ZenonT(60) DEF Answer
    <2>3. frames'[o] = Append(<<>>, a(o))  BY ZenonT(60), <1>1, <1>3, <2>1
    <2> HIDE DEF a
    <2> QED BY SMTT(60), <2>2, <2>3
  <1>4. Typed'
    <2>1. \A o \in Ops : entry'[o] \in {"none", "pending", "tombstone"} /\ frames'[o] \in Seq(Answer)
      BY ZenonT(60), <1>1, <1>3 DEF Typed
    <2> QED BY ZenonT(60), <1>1, <1>2, <2>1 DEF Typed
  <1>5. FreshIds' /\ PendingUnanswered'
    BY ZenonT(60), <1>1, <1>2 DEF FreshIds, PendingUnanswered
  <1>6. QueuedOnce'  BY ZenonT(60), <1>2 DEF QueuedOnce, Distinct
  <1>7. AnsweredOnceByItsOwn'
    <2>1. ASSUME NEW o \in Ops
          PROVE  Len(frames'[o]) <= 1 /\ \A i \in 1..Len(frames'[o]) : frames'[o][i].of = o
      <3>1. CASE late(o)
        <4>1. frames'[o] = <<a(o)>> /\ a(o).of = o  BY ZenonT(60), <3>1, <1>3
        <4> HIDE DEF a
        <4> QED BY SMTT(60), <4>1
      <3>2. CASE ~late(o)
        <4>1. frames'[o] = frames[o]  BY ZenonT(60), <3>2, <1>1
        <4> QED BY ZenonT(60), <4>1 DEF AnsweredOnceByItsOwn
      <3> QED BY ZenonT(60), <3>1, <3>2
    <2> QED BY ZenonT(60), <2>1 DEF AnsweredOnceByItsOwn
  <1>8. NoOrphanReply'
    <2>1. \A o \in Ops : entry[o] # "none" => entry'[o] # "none"  BY ZenonT(60), <1>1
    <2>2. \A d \in Convs : /\ \A i \in 1..Len(forwarded[d]) : forwarded[d][i] \in Ops
                          /\ \A i \in 1..Len(replies[d]) : replies[d][i] \in Ops
      BY SMTT(60) DEF Typed
    <2> QED BY ZenonT(60), <1>2, <2>1, <2>2 DEF NoOrphanReply
  <1> QED BY ZenonT(60), <1>4, <1>5, <1>6, <1>7, <1>8

(* The reply at the head of a queue meets its own entry, is the only copy  *)
(* of itself, and leaves with the entry.                                   *)
LEMMA MatchStep == ASSUME TableInv, NEW c \in Convs, DrainReply(c) PROVE TableInv'
  <1> USE DEF TableInv
  <1> DEFINE o == Head(replies[c])
             t == Tail(replies[c])
             a == [kind |-> "reply", of |-> o]
  <1>1. replies[c] \in Seq(Ops) /\ replies[c] # <<>> /\ Distinct(replies[c])
    BY ZenonT(60) DEF Typed, QueuedOnce, DrainReply
  <1>2. UNCHANGED <<conv, nextOp, forwarded, wire>> /\ replies' = [replies EXCEPT ![c] = t]
    BY ZenonT(60) DEF DrainReply
  <1>3. /\ t \in Seq(Ops) /\ Distinct(t) /\ o \in Ops /\ o = replies[c][1]
        /\ 1 \in 1..Len(replies[c])
        /\ \A i \in 1..Len(t) : /\ t[i] = replies[c][i + 1] /\ i + 1 \in 1..Len(replies[c])
                               /\ t[i] # o
    BY SMTT(60), <1>1, TailOfDistinct
  <1>4. entry[o] # "none" /\ conv[o] = c
    BY SMTT(60), <1>3 DEF NoOrphanReply
  <1>5. /\ entry' = [entry EXCEPT ![o] = "none"]
        /\ frames' = IF entry[o] = "pending" THEN [frames EXCEPT ![o] = Append(@, a)] ELSE frames
    BY ZenonT(60), <1>4 DEF DrainReply, MatchReply
  <1>6. /\ replies' \in [Convs -> Seq(Ops)] /\ replies'[c] = t
        /\ \A d \in Convs : d # c => replies'[d] = replies[d]
    BY ZenonT(60), <1>2, <1>3 DEF Typed
  <1>7. /\ entry' \in [Ops -> {"none", "pending", "tombstone"}] /\ entry'[o] = "none"
        /\ \A p \in Ops : p # o => entry'[p] = entry[p]
    BY ZenonT(60), <1>3, <1>5 DEF Typed
  <1>8. a \in Answer /\ a.of = o  BY ZenonT(60), <1>3 DEF Answer
  <1>9. /\ frames' \in [Ops -> Seq(Answer)]
        /\ \A p \in Ops : p # o => frames'[p] = frames[p]
        /\ frames'[o] = frames[o] \/ frames'[o] = <<a>>
    <2>1. frames \in [Ops -> Seq(Answer)]  BY ZenonT(60) DEF Typed
    <2>2. CASE entry[o] = "pending"
      <3>1. frames[o] = <<>>  BY ZenonT(60), <1>3, <2>2 DEF PendingUnanswered
      <3>2. frames' = [frames EXCEPT ![o] = <<a>>]
        <4> HIDE DEF a
        <4> QED BY SMTT(60), <1>3, <1>5, <1>8, <2>1, <2>2, <3>1
      <3>3. <<a>> \in Seq(Answer)
        <4> HIDE DEF a
        <4> QED BY SMTT(60), <1>8
      <3> HIDE DEF a, o
      <3> QED BY ZenonT(60), <1>3, <2>1, <3>2, <3>3
    <2>3. CASE entry[o] # "pending"  BY ZenonT(60), <1>5, <2>1, <2>3
    <2> QED BY ZenonT(60), <2>2, <2>3
  <1> HIDE DEF o, t, a
  <1>10. Typed'  BY ZenonT(60), <1>2, <1>6, <1>7, <1>9 DEF Typed
  <1>11. FreshIds'  BY ZenonT(60), <1>2, <1>3, <1>4, <1>7, <1>9 DEF FreshIds
  <1>12. PendingUnanswered'  BY ZenonT(60), <1>3, <1>7, <1>9 DEF PendingUnanswered
  <1>13. AnsweredOnceByItsOwn'
    <2>1. ASSUME NEW p \in Ops
          PROVE  Len(frames'[p]) <= 1 /\ \A i \in 1..Len(frames'[p]) : frames'[p][i].of = p
      <3>1. CASE frames'[p] = frames[p]  BY ZenonT(60), <3>1 DEF AnsweredOnceByItsOwn
      <3>2. CASE p = o /\ frames'[p] = <<a>>  BY SMTT(60), <3>2, <1>8
      <3> QED BY ZenonT(60), <3>1, <3>2, <1>9
    <2> QED BY ZenonT(60), <2>1 DEF AnsweredOnceByItsOwn
  <1>14. QueuedOnce'
    <2>1. ASSUME NEW d \in Convs
          PROVE  /\ Distinct(forwarded'[d]) /\ Distinct(replies'[d])
                 /\ \A i \in 1..Len(forwarded'[d]), j \in 1..Len(replies'[d]) :
                       forwarded'[d][i] # replies'[d][j]
      <3>1. CASE d = c
        <4>1. \A i \in 1..Len(forwarded[c]), j \in 1..Len(t) : forwarded[c][i] # t[j]
          BY SMTT(60), <1>3 DEF QueuedOnce
        <4> QED BY SMTT(60), <3>1, <4>1, <1>2, <1>3, <1>6 DEF QueuedOnce
      <3>2. CASE d # c
        <4>1. forwarded'[d] = forwarded[d] /\ replies'[d] = replies[d]  BY ZenonT(60), <3>2, <1>2, <1>6
        <4> QED BY ZenonT(60), <4>1 DEF QueuedOnce
      <3> QED BY ZenonT(60), <3>1, <3>2
    <2> QED BY ZenonT(60), <2>1 DEF QueuedOnce, Distinct
  <1>15. NoOrphanReply'
    <2>1. \A d \in Convs : /\ \A i \in 1..Len(forwarded[d]) :
                               forwarded[d][i] \in Ops /\ forwarded[d][i] # o
                          /\ \A i \in 1..Len(replies[d]) : replies[d][i] \in Ops
      <3>1. ASSUME NEW d \in Convs
            PROVE  /\ \A i \in 1..Len(forwarded[d]) : forwarded[d][i] \in Ops
                   /\ \A i \in 1..Len(replies[d]) : replies[d][i] \in Ops
        BY SMTT(60) DEF Typed
      <3>2. ASSUME NEW d \in Convs, NEW i \in 1..Len(forwarded[d])
            PROVE  forwarded[d][i] # o
        <4>1. CASE d = c  BY ZenonT(60), <4>1, <1>3 DEF QueuedOnce
        <4>2. CASE d # c  BY ZenonT(60), <4>2, <1>4 DEF NoOrphanReply
        <4> QED BY ZenonT(60), <4>1, <4>2
      <3> QED BY ZenonT(60), <3>1, <3>2
    <2>2. ASSUME NEW d \in Convs, NEW i \in 1..Len(forwarded'[d])
          PROVE  entry'[forwarded'[d][i]] # "none" /\ conv'[forwarded'[d][i]] = d
      BY SMTT(60), <1>2, <1>7, <2>1 DEF NoOrphanReply
    <2>3. ASSUME NEW d \in Convs, NEW i \in 1..Len(replies'[d])
          PROVE  entry'[replies'[d][i]] # "none" /\ conv'[replies'[d][i]] = d
      <3>1. CASE d = c  BY SMTT(60), <3>1, <1>2, <1>3, <1>6, <1>7, <2>1 DEF NoOrphanReply
      <3>2. CASE d # c
        <4>1. replies'[d] = replies[d]  BY ZenonT(60), <3>2, <1>6
        <4>2. replies[d][i] # o  BY SMTT(60), <3>2, <4>1, <1>4 DEF NoOrphanReply
        <4> QED BY SMTT(60), <4>1, <4>2, <1>2, <1>7, <2>1 DEF NoOrphanReply
      <3> QED BY ZenonT(60), <3>1, <3>2
    <2> QED BY ZenonT(60), <2>2, <2>3 DEF NoOrphanReply
  <1> QED BY ZenonT(60), <1>10, <1>11, <1>12, <1>13, <1>14, <1>15

(* The other steps leave the table, the queues and the answers alone.      *)
LEMMA QuietActions ==
    ASSUME TableInv,
           \/ Run \/ DrainMailbox \/ AcknowledgeReady \/ ConversationOpen \/ RequestRefused
           \/ SocketDrained \/ CollectConversations \/ AllDrained \/ SyncDeadlineTimers
           \/ FinalProbe \/ (\E c \in Convs : ConversationDrained(c))
           \/ (\E f \in Frame : FrameArrives(f))
           \/ (\E o \in Ops : DeadlinePasses(o) \/ TimerFires(o))
           \/ (\E c \in Convs : FireNotifier(c) \/ ParticipantDies(c))
           \/ UNCHANGED vars
    PROVE  TableInv'
  <1>0. wire \in Seq(Frame)  BY ZenonT(60) DEF TableInv, Typed
  <1>1. CASE Run \/ DrainMailbox \/ AcknowledgeReady \/ SocketDrained \/ CollectConversations
             \/ AllDrained \/ SyncDeadlineTimers \/ FinalProbe
    BY ZenonT(60), <1>0, <1>1, QuietStep DEF Run, DrainMailbox, AcknowledgeReady, SocketDrained,
       CollectConversations, AllDrained, SyncDeadlineTimers, FinalProbe, core, table, other
  <1>2. CASE ConversationOpen \/ RequestRefused
    <2>1. wire' = Tail(wire) /\ wire # <<>>
      BY ZenonT(60), <1>2 DEF ConversationOpen, RequestRefused, NextFrame
    <2>2. wire' \in Seq(Frame)  BY SMTT(60), <1>0, <2>1
    <2>3. UNCHANGED core
      BY ZenonT(60), <1>2 DEF ConversationOpen, RequestRefused, core, table, other
    <2> QED BY ZenonT(60), <2>2, <2>3, QuietStep
  <1>3. CASE \E f \in Frame : FrameArrives(f)
    <2>1. PICK f \in Frame : FrameArrives(f)  BY ZenonT(60), <1>3
    <2>2. wire' \in Seq(Frame)  BY SMTT(60), <1>0, <2>1 DEF FrameArrives
    <2>3. UNCHANGED core  BY ZenonT(60), <2>1 DEF FrameArrives, core, table, other
    <2> QED BY ZenonT(60), <2>2, <2>3, QuietStep
  <1>4. CASE (\E c \in Convs : ConversationDrained(c))
             \/ (\E c \in Convs : FireNotifier(c) \/ ParticipantDies(c))
             \/ (\E o \in Ops : DeadlinePasses(o) \/ TimerFires(o))
    BY ZenonT(60), <1>0, <1>4, QuietStep DEF ConversationDrained, FireNotifier, ParticipantDies,
       DeadlinePasses, TimerFires, core, table, other
  <1>5. CASE UNCHANGED vars
    BY ZenonT(60), <1>0, <1>5, QuietStep DEF vars, core, table, other
  <1> QED BY ZenonT(60), <1>1, <1>2, <1>3, <1>4, <1>5

LEMMA TableNext == TableInv /\ [Next]_vars => TableInv'
  <1> SUFFICES ASSUME TableInv, [Next]_vars PROVE TableInv'
    BY ZenonT(60)
  <1>1. CASE \E c \in Convs : ParticipantSilent(c)  BY ZenonT(60), <1>1, SilentStep
  <1>2. CASE \E c \in Convs : ParticipantReplies(c)  BY ZenonT(60), <1>2, ReplyStep
  <1>3. CASE Request  BY ZenonT(60), <1>3, RequestStep
  <1>4. CASE ConversationClose  BY ZenonT(60), <1>4, CloseStep
  <1>5. CASE ExpireDue  BY ZenonT(60), <1>5, ExpireStep
  <1>6. CASE \E c \in Convs : DrainReply(c)  BY ZenonT(60), <1>6, MatchStep
  <1> QED BY ZenonT(60), <1>1, <1>2, <1>3, <1>4, <1>5, <1>6, QuietActions DEF Next, ConnectionStep

(* The inductive invariant of the pending-reply table.                     *)
THEOREM TableInvariant == Spec => []TableInv
  BY TableInit, TableNext, PTL DEF Spec

(* An operation gets at most one answer, and only its own reply or its own *)
(* timeout, however admit, match_reply, expire_due and remove_conversation *)
(* interleave with the participants.                                       *)
THEOREM AnsweredOnce == Spec => []AnsweredOnceByItsOwn
  <1>1. TableInv => AnsweredOnceByItsOwn  BY ZenonT(60) DEF TableInv
  <1> QED BY <1>1, TableInvariant, PTL

(* A queued or owed reply always has the entry it belongs to: tombstones   *)
(* outlive the deadline exactly so that a late reply meets its own entry.  *)
THEOREM NoOrphans == Spec => []NoOrphanReply
  <1>1. TableInv => NoOrphanReply  BY ZenonT(60) DEF TableInv
  <1> QED BY <1>1, TableInvariant, PTL

(* The rest of TypeOK, with the two facts it needs: an entry names the     *)
(* conversation it was admitted on, and only an open conversation owes     *)
(* replies, so only an open one calls its notifier.                        *)
Bookkeeping ==
    /\ nextOp <= MaxOps + 1
    /\ due \subseteq Ops /\ timer \subseteq Ops /\ visit \subseteq Convs
    /\ open \subseteq Convs /\ dead \subseteq open /\ firing \subseteq open
    /\ mail \in BOOLEAN /\ readyPending \in BOOLEAN
    /\ pc \in Slice
    /\ sent \in Seq(Frame)
    /\ \A o \in Ops : entry[o] # "none" => conv[o] \in Convs
    /\ \A c \in Convs : forwarded[c] # <<>> => c \in open

LEMMA BookkeepingInit == Init => Bookkeeping
  <1> SUFFICES ASSUME Init PROVE Bookkeeping
    BY ZenonT(60)
  <1>1. MaxOps \in Nat  BY ZenonT(60), BoundsAssumption
  <1>2. nextOp <= MaxOps + 1  BY SMTT(60), <1>1 DEF Init
  <1>3. \A o \in Ops : entry[o] = "none"  BY ZenonT(60) DEF Init
  <1>4. \A c \in Convs : forwarded[c] = <<>>  BY ZenonT(60) DEF Init
  <1>5. sent \in Seq(Frame)  BY SMTT(60) DEF Init
  <1>6. pc \in Slice  BY ZenonT(60) DEF Init, Slice
  <1> QED BY ZenonT(60), <1>2, <1>3, <1>4, <1>5, <1>6 DEF Init, Bookkeeping

LEMMA BookkeepingNext == TableInv /\ Bookkeeping /\ [Next]_vars => Bookkeeping'
  <1> SUFFICES ASSUME TableInv, Bookkeeping, [Next]_vars PROVE Bookkeeping'
    BY ZenonT(60)
  <1>0. Typed  BY ZenonT(60) DEF TableInv
  <1> USE DEF Bookkeeping
  <1>1. CASE Run \/ DrainMailbox \/ AcknowledgeReady \/ SocketDrained \/ AllDrained \/ FinalProbe
    BY ZenonT(60), <1>1 DEF Run, DrainMailbox, AcknowledgeReady, SocketDrained, AllDrained, FinalProbe,
       table, other, wakes, Slice
  <1>2. CASE RequestRefused \/ UNCHANGED vars
    BY ZenonT(60), <1>2 DEF RequestRefused, vars, table, other, wakes
  <1>3. CASE ConversationOpen
    <2>1. Head(wire) \in Frame  BY SMTT(60), <1>0, <1>3 DEF Typed, ConversationOpen, NextFrame
    <2> QED BY ZenonT(60), <1>3, <2>1 DEF ConversationOpen, Frame, table, wakes
  <1>4. CASE ConversationClose
    <2> DEFINE c == Head(wire).conv
    <2>1. /\ open' = open \ {c} /\ dead' = dead \ {c} /\ firing' = firing \ {c}
          /\ forwarded' = [forwarded EXCEPT ![c] = <<>>]
          /\ entry' = [o \in Ops |-> IF c \in open /\ conv[o] = c THEN "none" ELSE entry[o]]
          /\ timer' \subseteq timer
          /\ UNCHANGED <<conv, nextOp, due, mail, readyPending, pc, visit, sent>>
      BY ZenonT(60), <1>4 DEF ConversationClose, wakes
    <2> HIDE DEF c
    <2>2. \A d \in Convs : forwarded'[d] = IF d = c THEN <<>> ELSE forwarded[d]
      BY ZenonT(60), <1>0, <2>1 DEF Typed
    <2>3. \A d \in Convs : forwarded'[d] # <<>> => d \in open'
      BY ZenonT(60), <2>1, <2>2
    <2>4. \A o \in Ops : entry'[o] # "none" => conv'[o] \in Convs
      BY ZenonT(60), <2>1
    <2> QED BY ZenonT(60), <2>1, <2>3, <2>4
  <1>5. CASE Request
    <2> DEFINE c == Head(wire).conv
    <2>1. /\ c \in open /\ nextOp <= MaxOps /\ nextOp' = nextOp + 1
          /\ conv' = [conv EXCEPT ![nextOp] = c]
          /\ UNCHANGED <<due, timer, open, dead, firing, mail, readyPending, pc, visit, sent>>
      BY ZenonT(60), <1>5 DEF Request, wakes
    <2>2. \/ UNCHANGED <<entry, forwarded>>
          \/ /\ entry' = [entry EXCEPT ![nextOp] = "pending"]
             /\ forwarded' = [forwarded EXCEPT ![c] = Append(@, nextOp)]
      BY ZenonT(60), <1>5 DEF Request
    <2> HIDE DEF c
    <2>3. nextOp \in Ops /\ nextOp' <= MaxOps + 1
      BY SMTT(60), <1>0, <2>1, BoundsAssumption DEF Typed, Ops
    <2>4. \A o \in Ops : entry'[o] # "none" => conv'[o] \in Convs
      BY ZenonT(60), <1>0, <2>1, <2>2, <2>3 DEF Typed
    <2>5. \A d \in Convs : forwarded'[d] # <<>> => d \in open'
      BY ZenonT(60), <1>0, <2>1, <2>2 DEF Typed
    <2> QED BY ZenonT(60), <2>1, <2>3, <2>4, <2>5
  <1>6. CASE ExpireDue
    <2>1. \A o \in Ops : entry'[o] # "none" => entry[o] # "none"
      BY ZenonT(60), <1>6 DEF ExpireDue, Pending
    <2> QED BY ZenonT(60), <1>6, <2>1 DEF ExpireDue, other, wakes, Slice
  <1>7. CASE CollectConversations
    BY ZenonT(60), <1>7 DEF CollectConversations, ConversationsWithEntries, table, other, wakes, Slice
  <1>8. ASSUME NEW c \in Convs, DrainReply(c) PROVE Bookkeeping'
    <2>1. \A o \in Ops : entry'[o] # "none" => entry[o] # "none"
      BY ZenonT(60), <1>0, <1>8 DEF DrainReply, MatchReply, Typed
    <2> QED BY ZenonT(60), <1>8, <2>1 DEF DrainReply, MatchReply, wakes
  <1>9. ASSUME NEW c \in Convs, ConversationDrained(c) PROVE Bookkeeping'
    BY ZenonT(60), <1>9 DEF ConversationDrained, table, other, wakes
  <1>10. CASE SyncDeadlineTimers
    BY ZenonT(60), <1>10 DEF SyncDeadlineTimers, TimersToArm, Pending, other, wakes, Slice
  <1>11. ASSUME NEW f \in Frame, FrameArrives(f) PROVE Bookkeeping'
    <2>1. sent' \in Seq(Frame)  BY SMTT(60), <1>11 DEF FrameArrives
    <2> QED BY ZenonT(60), <1>11, <2>1 DEF FrameArrives, table, other
  <1>12. ASSUME NEW o \in Ops, DeadlinePasses(o) \/ TimerFires(o) PROVE Bookkeeping'
    BY ZenonT(60), <1>12 DEF DeadlinePasses, TimerFires, table, other, wakes
  <1>13. ASSUME NEW c \in Convs, ParticipantSilent(c) \/ ParticipantReplies(c) PROVE Bookkeeping'
    <2>1. /\ c \in open
          /\ forwarded' = [forwarded EXCEPT ![c] = Tail(@)]
          /\ firing' \subseteq firing \cup {c}
          /\ UNCHANGED <<entry, conv, nextOp, due, timer, open, dead, mail, readyPending, pc,
                         visit, sent>>
      BY ZenonT(60), <1>13 DEF ParticipantSilent, ParticipantReplies, table, wakes
    <2>2. \A d \in Convs : d # c => forwarded'[d] = forwarded[d]
      BY ZenonT(60), <1>0, <2>1 DEF Typed
    <2> QED BY ZenonT(60), <2>1, <2>2
  <1>14. ASSUME NEW c \in Convs, FireNotifier(c) \/ ParticipantDies(c) PROVE Bookkeeping'
    BY ZenonT(60), <1>14 DEF FireNotifier, ParticipantDies, table, wakes
  <1> HIDE DEF Bookkeeping
  <1> QED
    BY ZenonT(60), <1>1, <1>2, <1>3, <1>4, <1>5, <1>6, <1>7, <1>8, <1>9, <1>10, <1>11, <1>12, <1>13, <1>14
    DEF Next, ConnectionStep

(* Type correctness of the table, the queues and the slice.                *)
THEOREM TableTyped == Spec => []TypeOK
  <1>1. Init => Bookkeeping  BY ZenonT(60), BookkeepingInit
  <1>2. TableInv /\ Bookkeeping /\ [Next]_vars => Bookkeeping'  BY ZenonT(60), BookkeepingNext
  <1>3. TableInv /\ Bookkeeping => TypeOK
    BY SMTT(60), BoundsAssumption DEF TableInv, Typed, Bookkeeping, TypeOK
  <1> QED BY <1>1, <1>2, <1>3, TableInvariant, PTL DEF Spec
=============================================================================
