---------------------------- MODULE OutboxProofs ----------------------------
(* Safety of Outbox for every number of threads, queue size, number of     *)
(* retries and number of items.                                            *)
EXTENDS Outbox, SequenceTheorems, TLAPS

(* Dropping one element of a list: what RemoveAt returns. *)
LEMMA RemoveAtProperties ==
  ASSUME NEW S, NEW s \in Seq(S), NEW k \in 1..Len(s)
  PROVE  /\ RemoveAt(s, k) \in Seq(S)
         /\ Len(RemoveAt(s, k)) = Len(s) - 1
         /\ \A j \in 1..(Len(s) - 1) :
              RemoveAt(s, k)[j] = IF j < k THEN s[j] ELSE s[j + 1]
<1> DEFINE left == SubSeq(s, 1, k - 1)
           right == SubSeq(s, k + 1, Len(s))
<1>1. Len(s) \in Nat /\ k \in Nat
  BY LenProperties
<1>2. left \in Seq(S) /\ Len(left) = k - 1 /\ \A j \in 1..(k - 1) : left[j] = s[j]
  BY <1>1, SMT
<1>3. right \in Seq(S) /\ Len(right) = Len(s) - k
        /\ \A j \in 1..(Len(s) - k) : right[j] = s[k + j]
  BY <1>1, SMT
<1>4. RemoveAt(s, k) = left \o right
  BY DEF RemoveAt
<1> HIDE DEF left, right
<1>5. left \o right \in Seq(S) /\ Len(left \o right) = Len(left) + Len(right)
  BY <1>2, <1>3, ConcatProperties
<1>6. ASSUME NEW j \in 1..(Len(s) - 1)
      PROVE  (left \o right)[j] = IF j < k THEN s[j] ELSE s[j + 1]
  <2>1. (left \o right)[j] = IF j <= Len(left) THEN left[j] ELSE right[j - Len(left)]
    BY <1>1, <1>2, <1>3, ConcatProperties
  <2>2. CASE j < k
    BY <2>1, <2>2, <1>1, <1>2
  <2>3. CASE ~(j < k)
    <3>1. j - Len(left) \in 1..(Len(s) - k) /\ ~(j <= Len(left)) /\ k + (j - Len(left)) = j + 1
      BY <2>3, <1>1, <1>2
    <3> QED
      BY <2>1, <2>3, <3>1, <1>1, <1>3
  <2> QED
    BY <2>2, <2>3
<1> QED
  BY <1>1, <1>2, <1>3, <1>4, <1>5, <1>6

-----------------------------------------------------------------------------
(* Type correctness. *)

LEMMA ItemShapes ==
  /\ Blank \in Items
  /\ \A kind \in Kinds : Fresh(kind) \in Items
  /\ \A kind \in Kinds :
       [Blank EXCEPT !.kind = kind, !.fate = "refused"] \in Items
BY DEF Blank, Items, Kinds, Fates, Fresh

LEMMA ChangedShapes ==
  ASSUME NEW r \in Items
  PROVE  /\ [r EXCEPT !.sending = TRUE] \in Items
         /\ \A kind \in Kinds : [r EXCEPT !.kind = kind, !.fate = "refused"] \in Items
BY DEF Items, Fates

LEMMA SettledShape ==
  ASSUME TypeOK, NEW i \in Ids, NEW fate \in Fates
  PROVE  Settled(i, fate) \in Items
BY DEF TypeOK, Settled, Items, Blank, Kinds, Fates

LEMMA ReleasedShape ==
  ASSUME TypeOK, NEW i \in Ids
  PROVE  Released(i) \in Items
<1> DEFINE r == item[i]
<1>1. r \in Items
  BY DEF TypeOK
<1>2. Released(i) = [r EXCEPT !.sending = FALSE, !.attempts = r.attempts + 1,
                              !.due = FALSE]
  BY DEF Released
<1> HIDE DEF r
<1>3. r.attempts + 1 \in Nat
  BY <1>1 DEF Items
<1> QED
  BY <1>1, <1>2, <1>3 DEF Items

(* What any call of _enqueue_request leaves of the types. *)
LEMMA EnqueueTyped ==
  ASSUME TypeOK, NEW kind \in Kinds, Enqueue(kind)
  PROVE  /\ outbox' \in Seq(Ids)
         /\ item' \in [Ids -> Items]
         /\ next' \in 1..(MaxItems + 1)
<1>1. next \in Ids /\ next' \in 1..(MaxItems + 1)
  BY SizeAssumption DEF TypeOK, Enqueue, Ids
<1>2. CASE AppendNew(kind)
  BY <1>1, <1>2, ItemShapes, AppendProperties DEF TypeOK, AppendNew, Added
<1>3. ASSUME NEW k \in 1..Len(outbox), ReplaceVictim(kind, k)
      PROVE  outbox' \in Seq(Ids) /\ item' \in [Ids -> Items]
  <2>1. RemoveAt(outbox, k) \in Seq(Ids)
    BY RemoveAtProperties DEF TypeOK
  <2>2. outbox[k] \in Ids
    BY ElementOfSeq DEF TypeOK
  <2>3. Settled(outbox[k], "evicted") \in Items
    BY <2>2, SettledShape DEF Fates
  <2>4. outbox' = Append(RemoveAt(outbox, k), next)
    BY <1>3 DEF ReplaceVictim, Added
  <2>5. outbox' \in Seq(Ids)
    BY <1>1, <2>1, <2>4, AppendProperties
  <2>6. item' \in [Ids -> Items]
    BY <1>1, <1>3, <2>2, <2>3, ItemShapes DEF TypeOK, ReplaceVictim
  <2> QED
    BY <2>5, <2>6
<1>4. CASE Refuse(kind)
  <2>1. [item[next] EXCEPT !.kind = kind, !.fate = "refused"] \in Items
    BY <1>1, ChangedShapes DEF TypeOK
  <2> QED
    BY <1>1, <1>4, <2>1 DEF TypeOK, Refuse
<1> QED
  BY <1>1, <1>2, <1>3, <1>4 DEF Enqueue

(* A call of _enqueue_request that moves no thread. *)
LEMMA EnqueueTypeOK ==
  ASSUME TypeOK, NEW kind \in Kinds, Enqueue(kind),
         UNCHANGED <<online, pc, held, back>>
  PROVE  TypeOK'
BY EnqueueTyped DEF TypeOK

LEMMA EventTyped ==
  ASSUME TypeOK, EnqueueEvent \/ NoEnqueue
  PROVE  /\ outbox' \in Seq(Ids)
         /\ item' \in [Ids -> Items]
         /\ next' \in 1..(MaxItems + 1)
BY EnqueueTyped DEF EnqueueEvent, NoEnqueue, TypeOK, Kinds

(* What the completion of an attempt leaves of the types. *)
LEMMA LeavesTyped ==
  ASSUME TypeOK, NEW i \in Ids, NEW fate \in Fates, Leaves(i, fate)
  PROVE  outbox' \in Seq(Ids) /\ item' \in [Ids -> Items]
<1>1. Settled(i, fate) \in Items
  BY SettledShape
<1>2. item' \in [Ids -> Items]
  BY <1>1 DEF Leaves, TypeOK
<1>3. outbox' \in Seq(Ids)
  BY RemoveAtProperties DEF Leaves, TypeOK
<1> QED
  BY <1>2, <1>3

LEMMA StepTyped ==
  ASSUME TypeOK, [Next]_vars
  PROVE  TypeOK'
<1> USE DEF Holding, MainSteps, FlushSteps
<1>1. ASSUME NEW f \in Flushers, FlushCheck(f) PROVE TypeOK'
  BY <1>1 DEF TypeOK, FlushCheck, Go, Return, GoThen
<1>2. ASSUME NEW f \in Flushers, Claim(f) PROVE TypeOK'
  <2>1. CASE Claimable
    <3> DEFINE h == Head(outbox)
    <3>1. h \in Ids
      BY <2>1, HeadTailProperties DEF TypeOK, Claimable
    <3>2. /\ item' = [item EXCEPT ![h].sending = TRUE]
          /\ held' = [held EXCEPT ![f] = h]
          /\ pc' = [pc EXCEPT ![f] = "send"]
          /\ UNCHANGED <<outbox, next, online, back>>
      BY <1>2, <2>1 DEF Claim, Go
    <3> HIDE DEF h
    <3>3. item' \in [Ids -> Items]
      <4>1. [item[h] EXCEPT !.sending = TRUE] \in Items
        BY <3>1, ChangedShapes DEF TypeOK
      <4> QED
        BY <3>1, <3>2, <4>1 DEF TypeOK
    <3>4. held' \in [Flushers -> Ids \cup {NoItem}] /\ h # NoItem
      BY <3>1, <3>2 DEF TypeOK, Ids, NoItem
    <3>5. \A g \in Flushers : held'[g] # NoItem <=> pc'[g] \in Holding
      <4>1. held'[f] # NoItem /\ pc'[f] = "send"
        BY <3>2, <3>4 DEF TypeOK
      <4>2. \A g \in Flushers : g # f => held'[g] = held[g] /\ pc'[g] = pc[g]
        BY <3>2 DEF TypeOK
      <4> QED
        BY <4>1, <4>2 DEF TypeOK
    <3>6. pc' \in [Flushers -> MainSteps \cup FlushSteps \cup {"idle"}]
      BY <3>2 DEF TypeOK
    <3> QED
      BY <3>2, <3>3, <3>4, <3>5, <3>6 DEF TypeOK
  <2>2. CASE ~Claimable
    <3>1. UNCHANGED <<outbox, item, next, online, held>> /\ Return(f) /\ pc[f] = "claim"
      BY <1>2, <2>2 DEF Claim
    <3> QED
      BY <3>1 DEF TypeOK, Return, GoThen, Go
  <2> QED
    BY <2>1, <2>2
<1>3. ASSUME NEW f \in Flushers, Transmit(f) PROVE TypeOK'
  <2>1. held[f] \in Ids
    BY <1>3 DEF TypeOK, Transmit
  <2>2. item' \in [Ids -> Items]
    <3> DEFINE r == item[held[f]]
    <3>1. r \in Items
      BY <2>1 DEF TypeOK
    <3>2. [r EXCEPT !.frames = r.frames + 1] \in Items
      BY <3>1 DEF Items
    <3> QED
      BY <1>3, <2>1, <3>2 DEF TypeOK, Transmit
  <2> QED
    BY <1>3, <2>2 DEF TypeOK, Transmit, Go
<1>4. ASSUME NEW f \in Flushers, HandleFrame(f) PROVE TypeOK'
  BY <1>4, EnqueueTypeOK DEF HandleFrame, Kinds
<1>5. ASSUME NEW f \in Flushers, Answer(f) PROVE TypeOK'
  BY <1>5 DEF TypeOK, Answer, Go
<1>6. ASSUME NEW f \in Flushers, FinishSuccess(f) PROVE TypeOK'
  <2>1. outbox' \in Seq(Ids) /\ item' \in [Ids -> Items]
    BY <1>6, LeavesTyped DEF TypeOK, FinishSuccess, Fates
  <2> QED
    BY <1>6, <2>1 DEF TypeOK, FinishSuccess, LetGo, Return, GoThen, Go
<1>7. ASSUME NEW f \in Flushers, FinishFailure(f) PROVE TypeOK'
  <2>1. held[f] \in Ids
    BY <1>7 DEF TypeOK, FinishFailure
  <2>2. outbox' \in Seq(Ids) /\ item' \in [Ids -> Items]
    <3>1. CASE Leaves(held[f], "retired")
      BY <2>1, <3>1, LeavesTyped DEF Fates
    <3>2. CASE UNCHANGED <<outbox, item>>
      BY <3>2 DEF TypeOK
    <3>3. CASE UNCHANGED outbox /\ item' = [item EXCEPT ![held[f]] = Released(held[f])]
      BY <2>1, <3>3, ReleasedShape DEF TypeOK
    <3> QED
      BY <1>7, <3>1, <3>2, <3>3 DEF FinishFailure
  <2> QED
    BY <1>7, <2>2 DEF TypeOK, FinishFailure, LetGo, Return, GoThen, Go
<1>8. ASSUME NEW f \in Flushers, CloseNotify(f) PROVE TypeOK'
  BY <1>8, EventTyped DEF TypeOK, CloseNotify, Go
<1>9. ASSUME NEW f \in Flushers, CloseSocket(f) PROVE TypeOK'
  BY <1>9 DEF TypeOK, CloseSocket, Return, GoThen, Go
<1>10. ASSUME NEW f \in Flushers, StartFlush(f) PROVE TypeOK'
  BY <1>10 DEF TypeOK, StartFlush, GoThen, Go
<1>11. CASE Connected
  BY <1>11, MainAssumption DEF TypeOK, Connected, Go
<1>12. CASE Announce
  BY <1>12, EventTyped, MainAssumption DEF TypeOK, Announce, GoThen, Go
<1>13. CASE TickHeartbeat
  BY <1>13, EventTyped, MainAssumption DEF TypeOK, TickHeartbeat, Go
<1>14. CASE TickTelemetry
  BY <1>14, EventTyped, MainAssumption DEF TypeOK, TickTelemetry, GoThen, Go
<1>15. CASE SendResult
  BY <1>15, EnqueueTyped, MainAssumption DEF TypeOK, SendResult, GoThen, Go, Kinds
<1>16. CASE ReceiveFrame
  BY <1>16, EnqueueTypeOK DEF ReceiveFrame, Kinds
<1>17. CASE EndIteration
  BY <1>17, MainAssumption DEF TypeOK, EndIteration, GoThen, Go
<1>18. CASE EmitAlert
  BY <1>18, EnqueueTypeOK DEF EmitAlert, Kinds
<1>19. ASSUME NEW i \in Ids, RetryDue(i) PROVE TypeOK'
  BY <1>19 DEF TypeOK, RetryDue, Items
<1>20. CASE UNCHANGED vars
  BY <1>20 DEF TypeOK, vars
<1> QED
  BY <1>1, <1>2, <1>3, <1>4, <1>5, <1>6, <1>7, <1>8, <1>9, <1>10, <1>11, <1>12,
     <1>13, <1>14, <1>15, <1>16, <1>17, <1>18, <1>19, <1>20
  DEF Next, FlushStep, MainStep

(* Every variable keeps its type, and a thread refers to an item exactly   *)
(* from its claim (_claim_outbox_item) to the completion of the attempt.   *)
THEOREM Typing == Spec => []TypeOK
<1>1. ASSUME Init PROVE TypeOK
  <2>1. outbox \in Seq(Ids)
    BY <1>1, EmptySeq DEF Init
  <2>2. item \in [Ids -> Items]
    BY <1>1, ItemShapes DEF Init
  <2>3. next \in 1..(MaxItems + 1)
    BY <1>1, SizeAssumption DEF Init
  <2> QED
    BY <1>1, <2>1, <2>2, <2>3 DEF Init, TypeOK, Holding, MainSteps, FlushSteps, NoItem
<1> QED
  BY <1>1, StepTyped, PTL DEF Spec

-----------------------------------------------------------------------------
(* The inductive invariant behind the safety properties.  The list holds   *)
(* exactly the items that are neither settled nor dropped, in the order of *)
(* their creation, and the sending flags tell who holds what.              *)

QueueShape ==
  /\ \A k \in 1..Len(outbox) :
       outbox[k] < next /\ item[outbox[k]].fate = "queued"
  /\ \A j, k \in 1..Len(outbox) : j < k => outbox[j] < outbox[k]
  /\ \A i \in Ids : i >= next => item[i].fate = "none"
  /\ \A i \in Ids : item[i].fate = "queued" =>
       \E k \in 1..Len(outbox) : outbox[k] = i

ClaimShape ==
  /\ ExclusiveClaim
  /\ \A f \in Flushers : held[f] # NoItem => item[held[f]].sending
  /\ NoLeakedClaim

Shape == QueueShape /\ ClaimShape /\ BoundedOutbox /\ NoOvertaking

IInv == TypeOK /\ Shape

(* The invariant reads the list, the flags and the fates only. *)
LEMMA ShapeKept ==
  ASSUME IInv, UNCHANGED <<outbox, next, held>>,
         \A i \in Ids : item'[i].fate = item[i].fate /\ item'[i].sending = item[i].sending
  PROVE  Shape'
<1>1. \A k \in 1..Len(outbox) : outbox[k] \in Ids
  BY ElementOfSeq DEF IInv, TypeOK
<1>2. QueueShape'
  BY <1>1 DEF IInv, Shape, QueueShape
<1>3. ClaimShape'
  BY <1>1 DEF IInv, TypeOK, Shape, ClaimShape, ExclusiveClaim, NoLeakedClaim, NoItem
<1>4. BoundedOutbox' /\ NoOvertaking'
  BY DEF IInv, Shape, BoundedOutbox, NoOvertaking
<1> QED
  BY <1>2, <1>3, <1>4 DEF Shape

(* All the flags that are set belong to the head: the queue can only lack  *)
(* a victim when it has at most one element.                               *)
LEMMA OnlyHeadSending ==
  ASSUME IInv, NEW k \in 1..Len(outbox), item[outbox[k]].sending
  PROVE  k = 1
<1>1. PICK f \in Flushers : held[f] = outbox[k]
  BY DEF IInv, Shape, ClaimShape, NoLeakedClaim
<1>2. outbox[k] \in Ids /\ Len(outbox) \in Nat
  BY ElementOfSeq, LenProperties DEF IInv, TypeOK
<1>3. outbox[k] # NoItem
  BY <1>2 DEF Ids, NoItem
<1>4. outbox[k] = outbox[1]
  BY <1>1, <1>3 DEF IInv, Shape, ClaimShape, ExclusiveClaim
<1>5. 1 < k => outbox[1] < outbox[k]
  BY <1>2 DEF IInv, Shape, QueueShape
<1> QED
  BY <1>2, <1>4, <1>5 DEF Ids

LEMMA FreshFields ==
  ASSUME NEW kind
  PROVE  Fresh(kind).fate = "queued" /\ Fresh(kind).sending = FALSE
BY DEF Fresh, Blank

LEMMA SettledFields ==
  ASSUME NEW i, NEW fate
  PROVE  Settled(i, fate).fate = fate /\ Settled(i, fate).sending = FALSE
BY DEF Settled, Blank

(* Appending a new item to a list keeps the shape. *)
LEMMA AppendSafe ==
  ASSUME IInv, NEW kind \in Kinds, next <= MaxItems, next' = next + 1,
         AppendNew(kind), UNCHANGED held
  PROVE  Shape'
<1> DEFINE n == Len(outbox)
<1>1. n \in Nat /\ next \in Ids /\ \A k \in 1..n : outbox[k] \in Ids
  BY ElementOfSeq, LenProperties, SizeAssumption DEF IInv, TypeOK, Ids
<1>2. /\ Len(outbox') = n + 1
      /\ outbox'[n + 1] = next
      /\ \A k \in 1..n : outbox'[k] = outbox[k]
  BY <1>1, AppendProperties DEF AppendNew, Added, IInv, TypeOK
<1>3. /\ item'[next].fate = "queued" /\ item'[next].sending = FALSE
      /\ \A i \in Ids : i # next => item'[i] = item[i]
  <2>1. item' = [item EXCEPT ![next] = Fresh(kind)] /\ DOMAIN item = Ids
    BY DEF AppendNew, IInv, TypeOK
  <2>2. item'[next] = Fresh(kind) /\ \A i \in Ids : i # next => item'[i] = item[i]
    BY <1>1, <2>1
  <2>3. Fresh(kind).fate = "queued" /\ Fresh(kind).sending = FALSE
    BY FreshFields
  <2> QED
    BY <2>2, <2>3
<1>4. \A k \in 1..n : outbox[k] < next /\ outbox[k] # next
  BY <1>1 DEF IInv, Shape, QueueShape, Ids
<1>5. QueueShape'
  <2> DEFINE q == outbox'
  <2> HIDE DEF q
  <2>0. /\ Len(q) = n + 1 /\ q[n + 1] = next
        /\ \A k \in 1..n : q[k] = outbox[k]
    BY <1>2 DEF q
  <2>1. \A k \in 1..Len(outbox') : outbox'[k] < next' /\ item'[outbox'[k]].fate = "queued"
    <3>1. ASSUME NEW k \in 1..Len(q) PROVE q[k] < next + 1 /\ item'[q[k]].fate = "queued"
      <4>1. CASE k = n + 1
        BY <1>1, <1>3, <2>0, <4>1 DEF Ids
      <4>2. CASE k # n + 1
        <5>1. k \in 1..n /\ q[k] = outbox[k]
          BY <1>1, <2>0, <4>2
        <5>2. q[k] \in Ids /\ q[k] < next /\ item'[q[k]] = item[outbox[k]]
          BY <1>1, <1>3, <1>4, <5>1
        <5>3. item[outbox[k]].fate = "queued"
          BY <5>1 DEF IInv, Shape, QueueShape
        <5> QED
          BY <1>1, <5>2, <5>3 DEF Ids
      <4> QED
        BY <4>1, <4>2
    <3> QED
      BY <3>1 DEF q
  <2>2. \A j, k \in 1..Len(outbox') : j < k => outbox'[j] < outbox'[k]
    <3>1. ASSUME NEW j \in 1..Len(q), NEW k \in 1..Len(q), j < k PROVE q[j] < q[k]
      <4>1. j \in 1..n /\ q[j] = outbox[j]
        BY <1>1, <2>0, <3>1
      <4>2. CASE k = n + 1
        BY <1>4, <2>0, <4>1, <4>2
      <4>3. CASE k # n + 1
        <5>1. k \in 1..n /\ q[k] = outbox[k]
          BY <1>1, <2>0, <4>3
        <5> QED
          BY <3>1, <4>1, <5>1 DEF IInv, Shape, QueueShape
      <4> QED
        BY <4>2, <4>3
    <3> QED
      BY <3>1 DEF q
  <2>3. \A i \in Ids : i >= next' => item'[i].fate = "none"
    BY <1>1, <1>3 DEF IInv, Shape, QueueShape, Ids
  <2>4. \A i \in Ids : item'[i].fate = "queued" =>
          \E k \in 1..Len(outbox') : outbox'[k] = i
    BY <1>1, <1>2, <1>3 DEF IInv, Shape, QueueShape
  <2> QED
    BY <2>1, <2>2, <2>3, <2>4 DEF QueueShape
<1>6. ClaimShape'
  <2>1. ExclusiveClaim'
    BY <1>1, <1>2 DEF IInv, Shape, ClaimShape, ExclusiveClaim
  <2>2. ASSUME NEW f \in Flushers, held'[f] # NoItem PROVE item'[held'[f]].sending
    BY <2>2, <1>1, <1>3, <1>4 DEF IInv, Shape, ClaimShape, ExclusiveClaim
  <2>3. NoLeakedClaim'
    BY <1>1, <1>2, <1>3, <1>4 DEF IInv, Shape, ClaimShape, NoLeakedClaim
  <2> QED
    BY <2>1, <2>2, <2>3 DEF ClaimShape
<1>7. BoundedOutbox'
  <2>1. CASE HasRoom
    BY <1>1, <1>2, <2>1, SizeAssumption DEF HasRoom, BoundedOutbox
  <2>2. CASE ~HasRoom
    <3>1. \A k \in 1..n : item[outbox[k]].sending
      BY <2>2 DEF AppendNew, NoneDroppable, Droppable
    <3>2. n <= 1
      BY <1>1, <3>1, OnlyHeadSending
    <3> QED
      BY <1>1, <1>2, <2>2, <3>2, SizeAssumption DEF HasRoom, BoundedOutbox
  <2> QED
    BY <2>1, <2>2
<1>8. NoOvertaking'
  <2> SUFFICES ASSUME NEW i \in Ids, NEW j \in Ids, i < j,
                      item'[j].fate \in {"acked", "retired"}, item'[i].fate = "queued"
               PROVE  FALSE
    BY DEF NoOvertaking
  <2>1. j # next /\ item[j].fate \in {"acked", "retired"}
    BY <1>3
  <2>2. CASE i = next
    <3>1. item[j].fate = "none"
      BY <1>1, <2>2 DEF IInv, Shape, QueueShape, Ids
    <3> QED
      BY <2>1, <3>1
  <2>3. CASE i # next
    BY <1>3, <2>1, <2>3 DEF IInv, Shape, NoOvertaking
  <2> QED
    BY <2>2, <2>3
<1> QED
  BY <1>5, <1>6, <1>7, <1>8 DEF Shape

(* So does replacing a victim, which is never the item being sent. *)
LEMMA ReplaceSafe ==
  ASSUME IInv, NEW kind \in Kinds, next <= MaxItems, next' = next + 1,
         NEW v \in 1..Len(outbox), ReplaceVictim(kind, v), UNCHANGED held
  PROVE  Shape'
<1> DEFINE n == Len(outbox)
           short == RemoveAt(outbox, v)
<1>1. n \in Nat /\ next \in Ids /\ \A k \in 1..n : outbox[k] \in Ids
  BY ElementOfSeq, LenProperties, SizeAssumption DEF IInv, TypeOK, Ids
<1>2. /\ short \in Seq(Ids) /\ Len(short) = n - 1
      /\ \A k \in 1..(n - 1) : short[k] = IF k < v THEN outbox[k] ELSE outbox[k + 1]
  BY RemoveAtProperties DEF IInv, TypeOK
<1>3. outbox' = Append(short, next)
  BY DEF ReplaceVictim, Added
<1> HIDE DEF short
<1>4. /\ Len(outbox') = n
      /\ outbox'[n] = next
      /\ \A k \in 1..(n - 1) : outbox'[k] = IF k < v THEN outbox[k] ELSE outbox[k + 1]
  BY <1>1, <1>2, <1>3, AppendProperties
<1>5. \A k \in 1..n : outbox[k] < next /\ outbox[k] # next
  BY <1>1 DEF IInv, Shape, QueueShape, Ids
<1>6. ~item[outbox[v]].sending
  BY DEF ReplaceVictim, Victim, FirstDroppable, Droppable
<1>7. /\ item'[next].fate = "queued" /\ item'[next].sending = FALSE
      /\ item'[outbox[v]].fate = "evicted" /\ item'[outbox[v]].sending = FALSE
      /\ \A i \in Ids : i # next /\ i # outbox[v] => item'[i] = item[i]
  BY <1>1, <1>5, FreshFields, SettledFields DEF ReplaceVictim, IInv, TypeOK
<1>8. \A k \in 1..n : k # v => outbox[k] # outbox[v]
  BY <1>1 DEF IInv, Shape, QueueShape, Ids
<1>9. \A k \in 1..(n - 1) : /\ outbox'[k] \in Ids /\ outbox'[k] < next
                           /\ outbox'[k] # outbox[v]
                           /\ item'[outbox'[k]] = item[outbox'[k]]
                           /\ \E j \in 1..n : outbox'[k] = outbox[j]
  <2> SUFFICES ASSUME NEW k \in 1..(n - 1)
               PROVE  /\ outbox'[k] \in Ids /\ outbox'[k] < next
                      /\ outbox'[k] # outbox[v]
                      /\ item'[outbox'[k]] = item[outbox'[k]]
                      /\ \E j \in 1..n : outbox'[k] = outbox[j]
    OBVIOUS
  <2>1. PICK j \in 1..n : outbox'[k] = outbox[j] /\ j # v
    BY <1>1, <1>4
  <2>2. outbox[j] \in Ids /\ outbox[j] < next /\ outbox[j] # next /\ outbox[j] # outbox[v]
    BY <1>1, <1>5, <1>8, <2>1
  <2> QED
    BY <1>7, <2>1, <2>2
<1>10. QueueShape'
  <2>1. ASSUME NEW k \in 1..Len(outbox')
        PROVE  outbox'[k] < next' /\ item'[outbox'[k]].fate = "queued"
    <3>1. CASE k = n
      BY <1>1, <1>4, <1>7, <3>1 DEF Ids
    <3>2. CASE k # n
      <4>1. k \in 1..(n - 1)
        BY <1>1, <1>4, <3>2
      <4>2. PICK j \in 1..n : outbox'[k] = outbox[j]
        BY <4>1, <1>9
      <4>3. outbox[j] < next /\ item[outbox[j]].fate = "queued"
        BY <4>2 DEF IInv, Shape, QueueShape
      <4>4. outbox'[k] < next /\ outbox'[k] \in Nat /\ next \in Nat
        BY <1>1, <1>9, <4>1 DEF Ids
      <4>5. outbox'[k] < next'
        BY <4>4
      <4>6. item'[outbox'[k]] = item[outbox[j]]
        BY <1>9, <4>1, <4>2
      <4> QED
        BY <4>3, <4>5, <4>6
    <3> QED
      BY <3>1, <3>2
  <2>2. ASSUME NEW j \in 1..Len(outbox'), NEW k \in 1..Len(outbox'), j < k
        PROVE  outbox'[j] < outbox'[k]
    <3>1. j \in 1..(n - 1)
      BY <1>1, <1>4, <2>2
    <3>2. CASE k = n
      BY <1>4, <1>9, <3>1, <3>2
    <3>3. CASE k # n
      <4>1. k \in 1..(n - 1)
        BY <1>1, <1>4, <3>3
      <4>2. PICK p \in 1..n, q \in 1..n :
              p < q /\ outbox'[j] = outbox[p] /\ outbox'[k] = outbox[q]
        <5>1. CASE k < v
          BY <1>1, <1>4, <2>2, <3>1, <4>1, <5>1
        <5>2. CASE j < v /\ ~(k < v)
          BY <1>1, <1>4, <2>2, <3>1, <4>1, <5>2
        <5>3. CASE ~(j < v)
          BY <1>1, <1>4, <2>2, <3>1, <4>1, <5>3
        <5> QED
          BY <1>1, <2>2, <5>1, <5>2, <5>3
      <4> QED
        BY <4>2 DEF IInv, Shape, QueueShape
    <3> QED
      BY <3>2, <3>3
  <2>3. \A i \in Ids : i >= next' => item'[i].fate = "none"
    BY <1>1, <1>5, <1>7 DEF IInv, Shape, QueueShape, Ids
  <2>4. ASSUME NEW i \in Ids, item'[i].fate = "queued"
        PROVE  \E k \in 1..Len(outbox') : outbox'[k] = i
    <3>1. CASE i = next
      BY <1>1, <1>4, <3>1
    <3>2. CASE i # next
      <4>1. item[i].fate = "queued" /\ i # outbox[v]
        BY <2>4, <1>7, <3>2
      <4>2. PICK j \in 1..n : outbox[j] = i /\ j # v
        BY <4>1 DEF IInv, Shape, QueueShape
      <4>3. CASE j < v
        BY <1>1, <1>4, <4>2, <4>3
      <4>4. CASE j > v
        <5>1. j - 1 \in 1..(n - 1) /\ ~(j - 1 < v) /\ (j - 1) + 1 = j
          BY <1>1, <4>4
        <5>2. outbox'[j - 1] = i
          BY <1>4, <4>2, <5>1
        <5> QED
          BY <1>1, <1>4, <5>1, <5>2
      <4> QED
        BY <1>1, <4>2, <4>3, <4>4
    <3> QED
      BY <3>1, <3>2
  <2> QED
    BY <2>1, <2>2, <2>3, <2>4 DEF QueueShape
<1>11. ClaimShape'
  <2>1. ASSUME NEW f \in Flushers, held[f] # NoItem
        PROVE  held[f] = outbox'[1] /\ held[f] # outbox[v] /\ v # 1 /\ item[held[f]].sending
    BY <2>1, <1>1, <1>4, <1>6 DEF IInv, Shape, ClaimShape, ExclusiveClaim
  <2>2. ExclusiveClaim'
    BY <1>1, <1>4, <2>1 DEF IInv, Shape, ClaimShape, ExclusiveClaim
  <2>3. ASSUME NEW f \in Flushers, held'[f] # NoItem PROVE item'[held'[f]].sending
    <3>1. held[f] \in Ids /\ held[f] # next
      BY <2>1, <2>3, <1>1, <1>5 DEF IInv, Shape, ClaimShape, ExclusiveClaim
    <3> QED
      BY <2>1, <2>3, <3>1, <1>7
  <2>4. NoLeakedClaim'
    BY <1>1, <1>4, <1>7, <1>9, SMTT(20) DEF IInv, Shape, ClaimShape, NoLeakedClaim
  <2> QED
    BY <2>2, <2>3, <2>4 DEF ClaimShape
<1>12. BoundedOutbox'
  BY <1>4 DEF IInv, Shape, BoundedOutbox
<1>13. NoOvertaking'
  BY <1>1, <1>5, <1>7 DEF IInv, Shape, QueueShape, NoOvertaking, Ids
<1> QED
  BY <1>10, <1>11, <1>12, <1>13 DEF Shape

LEMMA EnqueueSafe ==
  ASSUME IInv, NEW kind \in Kinds, Enqueue(kind), UNCHANGED held
  PROVE  Shape'
<1>1. next <= MaxItems /\ next' = next + 1
  BY DEF Enqueue
<1>2. CASE AppendNew(kind)
  BY <1>1, <1>2, AppendSafe
<1>3. CASE \E k \in 1..Len(outbox) : ReplaceVictim(kind, k)
  BY <1>1, <1>3, ReplaceSafe
<1>4. CASE Refuse(kind)
  <2>1. next \in Ids
    BY <1>1, SizeAssumption DEF IInv, TypeOK, Ids
  <2>2. UNCHANGED outbox
    BY <1>4 DEF Refuse
  <2>3. /\ item'[next].fate = "refused" /\ item'[next].sending = item[next].sending
        /\ \A i \in Ids : i # next => item'[i] = item[i]
    <3> DEFINE r == item[next]
    <3>1. item' = [item EXCEPT ![next] = [r EXCEPT !.kind = kind, !.fate = "refused"]]
      BY <1>4 DEF Refuse
    <3>2. r \in Items
      BY <2>1 DEF IInv, TypeOK
    <3> HIDE DEF r
    <3>3. /\ [r EXCEPT !.kind = kind, !.fate = "refused"].fate = "refused"
          /\ [r EXCEPT !.kind = kind, !.fate = "refused"].sending = r.sending
      BY <3>2 DEF Items
    <3> QED
      BY <2>1, <3>1, <3>3 DEF IInv, TypeOK, r
  <2>4. item[next].fate = "none" /\ \A k \in 1..Len(outbox) : outbox[k] \in Ids /\ outbox[k] # next
    <3>1. \A k \in 1..Len(outbox) : outbox[k] \in Ids
      BY ElementOfSeq DEF IInv, TypeOK
    <3>2. next >= next
      BY <2>1 DEF Ids
    <3> QED
      BY <2>1, <3>1, <3>2 DEF IInv, Shape, QueueShape, Ids
  <2>5. QueueShape'
    BY <1>1, <2>1, <2>2, <2>3, <2>4 DEF IInv, Shape, QueueShape, Ids
  <2>6. ClaimShape'
    BY <2>2, <2>3, <2>4 DEF IInv, Shape, ClaimShape, ExclusiveClaim, NoLeakedClaim
  <2>7. BoundedOutbox' /\ NoOvertaking'
    BY <2>1, <2>2, <2>3 DEF IInv, Shape, BoundedOutbox, NoOvertaking
  <2> QED
    BY <2>5, <2>6, <2>7 DEF Shape
<1> QED
  BY <1>2, <1>3, <1>4 DEF Enqueue

(* A completed attempt takes its item, the head, out of the list. *)
LEMMA SettleSafe ==
  ASSUME IInv, NEW f \in Flushers, held[f] # NoItem,
         NEW fate \in {"acked", "retired"}, Leaves(held[f], fate), LetGo(f),
         UNCHANGED next
  PROVE  Shape'
<1> DEFINE n == Len(outbox)
           h == held[f]
<1>1. n \in Nat /\ next \in Nat /\ \A k \in 1..n : outbox[k] \in Ids
  BY ElementOfSeq, LenProperties DEF IInv, TypeOK
<1>2. /\ n > 0 /\ h = outbox[1] /\ h \in Ids
      /\ \A g \in Flushers : g # f => held[g] = NoItem
  BY <1>1 DEF IInv, Shape, ClaimShape, ExclusiveClaim
<1>3. \A k \in 1..n : k # 1 => outbox[k] # h /\ h < outbox[k]
  BY <1>1, <1>2 DEF IInv, Shape, QueueShape, Ids
<1>4. outbox' = RemoveAt(outbox, 1)
  <2>1. h \in Range(outbox)
    BY <1>1, <1>2 DEF Range
  <2>2. PICK k \in 1..n : outbox[k] = h /\ outbox' = RemoveAt(outbox, k)
    BY <2>1 DEF Leaves
  <2> QED
    BY <2>2, <1>3
<1>5. Len(outbox') = n - 1 /\ \A k \in 1..(n - 1) : outbox'[k] = outbox[k + 1]
  <2>1. 1 \in 1..n /\ outbox \in Seq(Ids)
    BY <1>1, <1>2 DEF IInv, TypeOK
  <2>2. /\ Len(RemoveAt(outbox, 1)) = n - 1
        /\ \A k \in 1..(n - 1) :
             RemoveAt(outbox, 1)[k] = IF k < 1 THEN outbox[k] ELSE outbox[k + 1]
    BY <2>1, RemoveAtProperties
  <2> QED
    BY <1>1, <1>4, <2>2
<1>6. /\ item'[h].fate = fate /\ item'[h].sending = FALSE
      /\ \A i \in Ids : i # h => item'[i] = item[i]
  <2>1. item' = [item EXCEPT ![h] = Settled(h, fate)] /\ DOMAIN item = Ids
    BY DEF Leaves, IInv, TypeOK
  <2> HIDE DEF h
  <2>2. item'[h] = Settled(h, fate) /\ \A i \in Ids : i # h => item'[i] = item[i]
    BY <1>2, <2>1
  <2>3. Settled(h, fate).fate = fate /\ Settled(h, fate).sending = FALSE
    BY SettledFields
  <2> QED
    BY <2>2, <2>3
<1>7. \A g \in Flushers : held'[g] = NoItem
  BY <1>2 DEF LetGo, IInv, TypeOK
<1>8. \A k \in 1..(n - 1) : /\ k + 1 \in 1..n /\ outbox'[k] \in Ids
                           /\ item'[outbox'[k]] = item[outbox[k + 1]]
  BY <1>1, <1>3, <1>5, <1>6
<1> HIDE DEF h
<1>9. QueueShape'
  <2>1. ASSUME NEW k \in 1..Len(outbox')
        PROVE  outbox'[k] < next' /\ item'[outbox'[k]].fate = "queued"
    <3>1. k \in 1..(n - 1) /\ k + 1 \in 1..n
      BY <1>1, <1>5
    <3>2. outbox[k + 1] < next /\ item[outbox[k + 1]].fate = "queued"
      BY <3>1 DEF IInv, Shape, QueueShape
    <3> QED
      BY <1>5, <1>8, <3>1, <3>2
  <2>2. ASSUME NEW j \in 1..Len(outbox'), NEW k \in 1..Len(outbox'), j < k
        PROVE  outbox'[j] < outbox'[k]
    <3>1. j + 1 \in 1..n /\ k + 1 \in 1..n /\ j + 1 < k + 1
      BY <1>1, <1>5, <2>2
    <3> QED
      BY <1>5, <2>2, <3>1 DEF IInv, Shape, QueueShape
  <2>3. \A i \in Ids : i >= next' => item'[i].fate = "none"
    <3>1. h < next
      BY <1>1, <1>2 DEF IInv, Shape, QueueShape
    <3> QED
      BY <1>1, <1>2, <1>6, <3>1 DEF IInv, Shape, QueueShape, Ids
  <2>4. ASSUME NEW i \in Ids, item'[i].fate = "queued"
        PROVE  \E k \in 1..Len(outbox') : outbox'[k] = i
    <3>1. i # h /\ item[i].fate = "queued"
      BY <1>2, <1>6, <2>4
    <3>2. PICK j \in 1..n : outbox[j] = i
      BY <3>1 DEF IInv, Shape, QueueShape
    <3>3. j - 1 \in 1..(n - 1) /\ (j - 1) + 1 = j
      BY <1>1, <1>2, <3>1, <3>2
    <3>4. outbox'[j - 1] = i
      BY <1>5, <3>2, <3>3
    <3> QED
      BY <1>5, <3>3, <3>4
  <2> QED
    BY <2>1, <2>2, <2>3, <2>4 DEF QueueShape
<1>10. ClaimShape'
  <2>1. \A k \in 1..Len(outbox') : ~item'[outbox'[k]].sending
    <3> SUFFICES ASSUME NEW k \in 1..Len(outbox'), item'[outbox'[k]].sending
                 PROVE  FALSE
      BY DEF IInv
    <3>1. k + 1 \in 1..n /\ item[outbox[k + 1]].sending
      BY <1>1, <1>5, <1>8
    <3>2. k + 1 = 1
      BY <3>1, OnlyHeadSending
    <3> QED
      BY <3>1, <3>2, <1>1, <1>5
  <2> QED
    BY <2>1, <1>7 DEF ClaimShape, ExclusiveClaim, NoLeakedClaim
<1>11. BoundedOutbox'
  BY <1>1, <1>5, SizeAssumption DEF IInv, Shape, BoundedOutbox
<1>12. NoOvertaking'
  <2> SUFFICES ASSUME NEW i \in Ids, NEW j \in Ids, i < j,
                      item'[j].fate \in {"acked", "retired"}, item'[i].fate = "queued"
               PROVE  FALSE
    BY DEF NoOvertaking
  <2>1. i # h /\ item[i].fate = "queued"
    BY <1>2, <1>6
  <2>2. CASE j = h
    <3>1. PICK k \in 1..n : outbox[k] = i
      BY <2>1 DEF IInv, Shape, QueueShape
    <3> QED
      BY <1>2, <1>3, <2>1, <2>2, <3>1 DEF Ids
  <2>3. CASE j # h
    BY <1>6, <2>1, <2>3 DEF IInv, Shape, NoOvertaking
  <2> QED
    BY <2>2, <2>3
<1> QED
  BY <1>9, <1>10, <1>11, <1>12 DEF Shape

(* A claim marks the head, which no thread held before. *)
LEMMA ClaimSafe ==
  ASSUME IInv, NEW f \in Flushers, Claim(f), Claimable
  PROVE  Shape'
<1> DEFINE h == outbox[1]
<1>1. Len(outbox) \in Nat /\ Len(outbox) > 0 /\ \A k \in 1..Len(outbox) : outbox[k] \in Ids
  BY ElementOfSeq, LenProperties, EmptySeq DEF IInv, TypeOK, Claimable
<1>2. Head(outbox) = h /\ h \in Ids
  BY <1>1, HeadTailProperties DEF IInv, TypeOK, Claimable
<1>3. \A g \in Flushers : held[g] = NoItem
  BY <1>2 DEF IInv, Shape, ClaimShape, ExclusiveClaim, Claimable
<1>4. UNCHANGED <<outbox, next>> /\ held' = [held EXCEPT ![f] = h]
  BY <1>2 DEF Claim
<1>5. /\ item'[h].sending
      /\ \A i \in Ids : item'[i].fate = item[i].fate
      /\ \A i \in Ids : i # h => item'[i].sending = item[i].sending
  <2> DEFINE r == item[h]
  <2>1. item' = [item EXCEPT ![h] = [r EXCEPT !.sending = TRUE]]
    BY <1>2 DEF Claim
  <2>2. r \in Items
    BY <1>2 DEF IInv, TypeOK
  <2>3. [r EXCEPT !.sending = TRUE].sending = TRUE /\ [r EXCEPT !.sending = TRUE].fate = r.fate
    BY <2>2 DEF Items
  <2> QED
    BY <1>2, <2>1, <2>3 DEF IInv, TypeOK
<1>6. \A k \in 1..Len(outbox) : outbox[k] # h => ~item[outbox[k]].sending
  BY <1>1, OnlyHeadSending
<1> HIDE DEF h
<1>7. QueueShape'
  BY <1>1, <1>4, <1>5 DEF IInv, Shape, QueueShape
<1>8. ClaimShape'
  <2>1. held'[f] = h /\ h # NoItem /\ \A g \in Flushers : g # f => held'[g] = NoItem
    BY <1>2, <1>3, <1>4 DEF IInv, TypeOK, Ids, NoItem
  <2>2. ExclusiveClaim'
    BY <1>1, <1>4, <2>1 DEF ExclusiveClaim, h
  <2>3. \A g \in Flushers : held'[g] # NoItem => item'[held'[g]].sending
    BY <1>5, <2>1
  <2>4. NoLeakedClaim'
    BY <1>1, <1>4, <1>5, <1>6, <2>1 DEF NoLeakedClaim
  <2> QED
    BY <2>2, <2>3, <2>4 DEF ClaimShape
<1>9. BoundedOutbox' /\ NoOvertaking'
  BY <1>4, <1>5 DEF IInv, Shape, BoundedOutbox, NoOvertaking
<1> QED
  BY <1>7, <1>8, <1>9 DEF Shape

(* A failed attempt that is retried clears the flag of the head. *)
LEMMA HeadReleased ==
  ASSUME IInv, UNCHANGED <<outbox, next>>,
         NEW h \in Ids, h = outbox[1], item'[h].sending = FALSE,
         \A i \in Ids : item'[i].fate = item[i].fate /\ (i # h => item'[i] = item[i]),
         \A g \in Flushers : held'[g] = NoItem
  PROVE  Shape'
<1>1. \A k \in 1..Len(outbox) : outbox[k] \in Ids
  BY ElementOfSeq DEF IInv, TypeOK
<1>2. \A k \in 1..Len(outbox) : outbox[k] # h => ~item[outbox[k]].sending
  BY OnlyHeadSending
<1>3. QueueShape'
  BY <1>1 DEF IInv, Shape, QueueShape
<1>4. ClaimShape'
  BY <1>1, <1>2 DEF ClaimShape, ExclusiveClaim, NoLeakedClaim
<1>5. BoundedOutbox' /\ NoOvertaking'
  BY DEF IInv, Shape, BoundedOutbox, NoOvertaking
<1> QED
  BY <1>3, <1>4, <1>5 DEF Shape

LEMMA ReleaseSafe ==
  ASSUME IInv, NEW f \in Flushers, held[f] # NoItem, LetGo(f),
         UNCHANGED <<outbox, next>>,
         item' = [item EXCEPT ![held[f]] = Released(held[f])]
  PROVE  Shape'
<1> DEFINE h == held[f]
<1>1. \A k \in 1..Len(outbox) : outbox[k] \in Ids
  BY ElementOfSeq DEF IInv, TypeOK
<1>2. /\ h = outbox[1] /\ h \in Ids
      /\ \A g \in Flushers : g # f => held[g] = NoItem
  BY <1>1, LenProperties DEF IInv, TypeOK, Shape, ClaimShape, ExclusiveClaim
<1>3. Released(h).sending = FALSE /\ Released(h).fate = item[h].fate
  <2> DEFINE r == item[h]
  <2>1. r \in Items
    BY <1>2 DEF IInv, TypeOK
  <2> QED
    BY <2>1 DEF Released, Items
<1>4. /\ item'[h].sending = FALSE
      /\ \A i \in Ids : item'[i].fate = item[i].fate /\ (i # h => item'[i] = item[i])
  BY <1>2, <1>3 DEF IInv, TypeOK
<1>5. \A g \in Flushers : held'[g] = NoItem
  BY <1>2 DEF LetGo, IInv, TypeOK
<1> QED
  BY <1>2, <1>4, <1>5, HeadReleased

LEMMA EventSafe ==
  ASSUME IInv, EnqueueEvent \/ NoEnqueue, UNCHANGED held
  PROVE  Shape'
BY EnqueueSafe, ShapeKept DEF EnqueueEvent, NoEnqueue, Kinds

LEMMA ShapeStep ==
  ASSUME IInv, [Next]_vars
  PROVE  Shape'
<1>1. ASSUME NEW f \in Flushers, Claim(f) PROVE Shape'
  <2>1. CASE Claimable
    BY <1>1, <2>1, ClaimSafe
  <2>2. CASE ~Claimable
    BY <1>1, <2>2, ShapeKept DEF Claim
  <2> QED
    BY <2>1, <2>2
<1>2. ASSUME NEW f \in Flushers, Transmit(f) PROVE Shape'
  <2>1. CASE UNCHANGED item
    BY <1>2, <2>1, ShapeKept DEF Transmit
  <2>2. CASE item' = [item EXCEPT ![held[f]].frames = @ + 1]
    <3> DEFINE r == item[held[f]]
    <3>1. held[f] \in Ids
      BY <1>2 DEF Transmit, IInv, TypeOK, Holding
    <3>2. r \in Items
      BY <3>1 DEF IInv, TypeOK
    <3>3. /\ [r EXCEPT !.frames = r.frames + 1].fate = r.fate
          /\ [r EXCEPT !.frames = r.frames + 1].sending = r.sending
      BY <3>2 DEF Items
    <3>4. \A i \in Ids : item'[i].fate = item[i].fate /\ item'[i].sending = item[i].sending
      BY <2>2, <3>1, <3>3 DEF IInv, TypeOK
    <3> QED
      BY <1>2, <3>4, ShapeKept DEF Transmit
  <2> QED
    BY <1>2, <2>1, <2>2 DEF Transmit
<1>3. ASSUME NEW f \in Flushers, FinishSuccess(f) PROVE Shape'
  <2>1. held[f] # NoItem
    BY <1>3 DEF FinishSuccess, IInv, TypeOK, Holding
  <2> QED
    BY <1>3, <2>1, SettleSafe DEF FinishSuccess
<1>4. ASSUME NEW f \in Flushers, FinishFailure(f) PROVE Shape'
  <2>1. held[f] # NoItem
    BY <1>4 DEF FinishFailure, IInv, TypeOK, Holding
  <2>2. held[f] \in Range(outbox)
    BY <2>1, LenProperties DEF IInv, TypeOK, Shape, ClaimShape, ExclusiveClaim, Range
  <2>3. CASE Leaves(held[f], "retired")
    BY <1>4, <2>1, <2>3, SettleSafe DEF FinishFailure
  <2>4. CASE UNCHANGED outbox /\ item' = [item EXCEPT ![held[f]] = Released(held[f])]
    BY <1>4, <2>1, <2>4, ReleaseSafe DEF FinishFailure
  <2> QED
    BY <1>4, <2>2, <2>3, <2>4 DEF FinishFailure
<1>5. ASSUME NEW i \in Ids, RetryDue(i) PROVE Shape'
  <2> DEFINE r == item[i]
  <2>1. r \in Items
    BY DEF IInv, TypeOK
  <2>2. [r EXCEPT !.due = TRUE].fate = r.fate /\ [r EXCEPT !.due = TRUE].sending = r.sending
    BY <2>1 DEF Items
  <2>3. \A j \in Ids : item'[j].fate = item[j].fate /\ item'[j].sending = item[j].sending
    BY <1>5, <2>2 DEF RetryDue, IInv, TypeOK
  <2> QED
    BY <1>5, <2>3, ShapeKept DEF RetryDue
<1>6. ASSUME NEW f \in Flushers, CloseNotify(f) PROVE Shape'
  BY <1>6, EventSafe DEF CloseNotify
<1>7. CASE Announce \/ TickHeartbeat \/ TickTelemetry
  BY <1>7, EventSafe DEF Announce, TickHeartbeat, TickTelemetry
<1>8. CASE SendResult \/ ReceiveFrame \/ EmitAlert \/ \E f \in Flushers : HandleFrame(f)
  BY <1>8, EnqueueSafe DEF SendResult, ReceiveFrame, EmitAlert, HandleFrame, Kinds
<1>9. ASSUME NEW f \in Flushers,
             FlushCheck(f) \/ Answer(f) \/ CloseSocket(f) \/ StartFlush(f)
      PROVE  Shape'
  BY <1>9, ShapeKept DEF FlushCheck, Answer, CloseSocket, StartFlush
<1>10. CASE Connected \/ EndIteration
  BY <1>10, ShapeKept DEF Connected, EndIteration
<1>11. CASE UNCHANGED vars
  BY <1>11, ShapeKept DEF vars
<1> QED
  BY <1>1, <1>2, <1>3, <1>4, <1>5, <1>6, <1>7, <1>8, <1>9, <1>10, <1>11
  DEF Next, FlushStep, MainStep

THEOREM Inductive == Spec => []IInv
<1>1. ASSUME Init PROVE Shape
  <2>1. Len(outbox) = 0
    BY <1>1 DEF Init
  <2>2. \A i \in Ids : item[i].fate = "none" /\ item[i].sending = FALSE
    BY <1>1 DEF Init, Blank
  <2>3. \A f \in Flushers : held[f] = NoItem
    BY <1>1 DEF Init
  <2> QED
    BY <2>1, <2>2, <2>3, SizeAssumption
    DEF Shape, QueueShape, ClaimShape, ExclusiveClaim, NoLeakedClaim, BoundedOutbox,
        NoOvertaking
<1>2. Shape /\ TypeOK /\ [Next]_vars => Shape'
  BY ShapeStep DEF IInv
<1> QED
  BY <1>1, <1>2, Typing, PTL DEF Spec, IInv

(* However many threads flush, at most one has a request under way, and it *)
(* is for the head of the queue (flush_outbox holds no lock meanwhile).    *)
THEOREM ClaimsAreExclusive == Spec => []ExclusiveClaim
BY Inductive, PTL DEF IInv, Shape, ClaimShape

(* No sending flag is ever left without a thread that clears it.           *)
THEOREM ClaimsAreReleased == Spec => []NoLeakedClaim
BY Inductive, PTL DEF IInv, Shape, ClaimShape

(* The protocol of the sending flag, both ways.                            *)
THEOREM ClaimsAreSound == Spec => []ClaimsSound
BY ClaimsAreExclusive, ClaimsAreReleased, PTL DEF ClaimsSound

(* _outbox never holds more than OUTBOX_MAX items (2 if that is smaller),  *)
(* although _enqueue_request appends a critical item when nothing can go.  *)
THEOREM OutboxIsBounded == Spec => []BoundedOutbox
BY Inductive, PTL DEF IInv, Shape

(* Uplinks are acknowledged or given up in the order they were queued.     *)
THEOREM SettlesInOrder == Spec => []NoOvertaking
BY Inductive, PTL DEF IInv, Shape

-----------------------------------------------------------------------------
(* How often an item has left the node.  A queued item has left at most    *)
(* once for each attempt, the one under way included.                      *)
Sent(i) == \E f \in Flushers : /\ held[f] = i
                               /\ pc[f] \in {"await", "acked", "failed", "broken"}
Copies ==
  \A i \in Ids :
    /\ item[i].frames <= MAX_RETRY + 1
    /\ item[i].fate = "queued" =>
         /\ item[i].attempts <= MAX_RETRY
         /\ item[i].frames <= item[i].attempts + (IF Sent(i) THEN 1 ELSE 0)

(* A thread that holds an item stays where it is.                          *)
LEMMA SentKept ==
  ASSUME IInv, UNCHANGED held, \A g \in Flushers : pc[g] \in Holding => pc'[g] = pc[g]
  PROVE  \A i \in Ids : Sent(i) => Sent(i)'
<1> SUFFICES ASSUME NEW i \in Ids, Sent(i) PROVE Sent(i)'
  OBVIOUS
<1>1. PICK f \in Flushers : held[f] = i /\ pc[f] \in {"await", "acked", "failed", "broken"}
  BY DEF Sent
<1>2. pc'[f] = pc[f]
  BY <1>1 DEF Holding
<1> QED
  BY <1>1, <1>2 DEF Sent

LEMMA CopiesKept ==
  ASSUME IInv, Copies, \A i \in Ids : Sent(i) => Sent(i)',
         \A i \in Ids : /\ item'[i].frames = item[i].frames
                        /\ item'[i].fate = "queued" =>
                             /\ item[i].fate = "queued"
                             /\ item'[i].attempts = item[i].attempts
  PROVE  Copies'
<1> SUFFICES ASSUME NEW i \in Ids
             PROVE  /\ item'[i].frames <= MAX_RETRY + 1
                    /\ item'[i].fate = "queued" =>
                         /\ item'[i].attempts <= MAX_RETRY
                         /\ item'[i].frames <= item'[i].attempts
                                                 + (IF Sent(i)' THEN 1 ELSE 0)
  BY DEF Copies
<1>1. item[i].attempts \in Nat /\ item[i].frames \in Nat
  BY DEF IInv, TypeOK, Items
<1> QED
  BY <1>1 DEF Copies

(* A thread without an item goes on, and no item changes.                  *)
LEMMA ThreadMoves ==
  ASSUME IInv, Copies, UNCHANGED <<item, held>>, NEW f \in Flushers,
         pc[f] \notin Holding, \A g \in Flushers : g # f => pc'[g] = pc[g]
  PROVE  Copies'
<1>1. \A g \in Flushers : pc[g] \in Holding => pc'[g] = pc[g]
  OBVIOUS
<1> QED
  BY <1>1, SentKept, CopiesKept

LEMMA EnqueueCopies ==
  ASSUME IInv, Copies, NEW kind \in Kinds, Enqueue(kind),
         \A i \in Ids : Sent(i) => Sent(i)'
  PROVE  Copies'
<1>1. next \in Ids /\ next >= next
  BY SizeAssumption DEF Enqueue, IInv, TypeOK, Ids
<1>2. ASSUME item'[next] = Fresh(kind),
             \A i \in Ids : i # next => /\ item'[i].frames = item[i].frames
                                        /\ item'[i].fate = "queued" => item'[i] = item[i]
      PROVE  Copies'
  <2>1. Fresh(kind).frames = 0 /\ Fresh(kind).attempts = 0
    BY DEF Fresh, Blank
  <2>2. ASSUME NEW i \in Ids
        PROVE  /\ item'[i].frames <= MAX_RETRY + 1
               /\ item'[i].fate = "queued" =>
                    /\ item'[i].attempts <= MAX_RETRY
                    /\ item'[i].frames <= item'[i].attempts + (IF Sent(i)' THEN 1 ELSE 0)
    <3>1. CASE i = next
      BY <1>2, <2>1, <3>1, SizeAssumption
    <3>2. CASE i # next
      <4>1. item[i].attempts \in Nat /\ item[i].frames \in Nat
        BY DEF IInv, TypeOK, Items
      <4> QED
        BY <1>2, <3>2, <4>1 DEF Copies
    <3> QED
      BY <3>1, <3>2
  <2> QED
    BY <2>2 DEF Copies
<1>3. CASE AppendNew(kind)
  BY <1>1, <1>2, <1>3 DEF AppendNew, IInv, TypeOK
<1>4. ASSUME NEW k \in 1..Len(outbox), ReplaceVictim(kind, k) PROVE Copies'
  <2> DEFINE v == outbox[k]
  <2>1. v \in Ids /\ v < next
    BY ElementOfSeq DEF IInv, TypeOK, Shape, QueueShape
  <2>2. item' = [item EXCEPT ![next] = Fresh(kind), ![v] = Settled(v, "evicted")]
    BY <1>4 DEF ReplaceVictim
  <2> HIDE DEF v
  <2>3. v # next
    BY <1>1, <2>1 DEF Ids
  <2>4. /\ item'[next] = Fresh(kind) /\ item'[v] = Settled(v, "evicted")
        /\ \A i \in Ids : i # next /\ i # v => item'[i] = item[i]
    BY <1>1, <2>1, <2>2, <2>3 DEF IInv, TypeOK
  <2>5. Settled(v, "evicted").frames = item[v].frames
        /\ Settled(v, "evicted").fate = "evicted"
    BY DEF Settled, Blank
  <2> QED
    BY <1>2, <2>4, <2>5
<1>5. CASE Refuse(kind)
  <2> DEFINE r == item[next]
  <2>1. r \in Items
    BY <1>1 DEF IInv, TypeOK
  <2>2. item' = [item EXCEPT ![next] = [r EXCEPT !.kind = kind, !.fate = "refused"]]
    BY <1>5 DEF Refuse
  <2>3. /\ [r EXCEPT !.kind = kind, !.fate = "refused"].frames = r.frames
        /\ [r EXCEPT !.kind = kind, !.fate = "refused"].fate = "refused"
    BY <2>1 DEF Items
  <2> HIDE DEF r
  <2>4. /\ item'[next].frames = r.frames /\ item'[next].fate = "refused"
        /\ \A i \in Ids : i # next => item'[i] = item[i]
    BY <1>1, <2>2, <2>3 DEF IInv, TypeOK
  <2> QED
    BY <2>4, CopiesKept DEF r
<1> QED
  BY <1>3, <1>4, <1>5 DEF Enqueue

LEMMA EventCopies ==
  ASSUME IInv, Copies, EnqueueEvent \/ NoEnqueue, UNCHANGED held, NEW f \in Flushers,
         pc[f] \notin Holding, \A g \in Flushers : g # f => pc'[g] = pc[g]
  PROVE  Copies'
<1>1. \A g \in Flushers : pc[g] \in Holding => pc'[g] = pc[g]
  OBVIOUS
<1>2. \A i \in Ids : Sent(i) => Sent(i)'
  BY <1>1, SentKept
<1>3. CASE Enqueue("event")
  BY <1>2, <1>3, EnqueueCopies DEF Kinds
<1>4. CASE UNCHANGED item
  BY <1>4, ThreadMoves
<1> QED
  BY <1>3, <1>4 DEF EnqueueEvent, NoEnqueue

(* The item that a thread holds is queued, and only this thread holds it.  *)
LEMMA HeldItem ==
  ASSUME IInv, NEW f \in Flushers, pc[f] \in Holding
  PROVE  /\ held[f] \in Ids /\ held[f] # NoItem /\ item[held[f]].fate = "queued"
         /\ held[f] \in Range(outbox)
         /\ \A g \in Flushers : g # f => held[g] = NoItem
<1>1. held[f] # NoItem /\ held[f] \in Ids
  BY DEF IInv, TypeOK
<1>2. /\ Len(outbox) > 0 /\ held[f] = outbox[1]
      /\ \A g \in Flushers : g # f => held[g] = NoItem
  BY <1>1 DEF IInv, Shape, ClaimShape, ExclusiveClaim
<1>3. 1 \in 1..Len(outbox)
  BY <1>2, LenProperties DEF IInv, TypeOK
<1>4. item[held[f]].fate = "queued"
  BY <1>2, <1>3 DEF IInv, Shape, QueueShape
<1> QED
  BY <1>1, <1>2, <1>3, <1>4 DEF Range

LEMMA TransmitCopies ==
  ASSUME IInv, Copies, NEW f \in Flushers, Transmit(f)
  PROVE  Copies'
<1> DEFINE h == held[f]
<1>1. /\ pc[f] = "send" /\ UNCHANGED held /\ h \in Ids /\ h # NoItem
      /\ item[h].fate = "queued" /\ \A g \in Flushers : g # f => held[g] = NoItem
  BY HeldItem DEF Transmit, Holding
<1>2. ~Sent(h)
  BY <1>1 DEF Sent
<1>3. \A i \in Ids : Sent(i) => i = h
  BY <1>1 DEF Sent, Ids, NoItem
<1>4. CASE UNCHANGED item
  BY <1>2, <1>3, <1>4, CopiesKept
<1>5. CASE item' = [item EXCEPT ![held[f]].frames = @ + 1] /\ Go(f, "await")
  <2> DEFINE r == item[h]
  <2>1. r \in Items
    BY <1>1 DEF IInv, TypeOK
  <2>2. item' = [item EXCEPT ![h] = [r EXCEPT !.frames = r.frames + 1]]
    BY <1>5
  <2>3. /\ [r EXCEPT !.frames = r.frames + 1].frames = r.frames + 1
        /\ [r EXCEPT !.frames = r.frames + 1].attempts = r.attempts
        /\ r.frames \in Nat /\ r.attempts \in Nat
    BY <2>1 DEF Items
  <2>4. r.attempts <= MAX_RETRY /\ r.frames <= r.attempts
    BY <1>1, <1>2, <2>3 DEF Copies
  <2>5. pc'[f] = "await" /\ held'[f] = h
    BY <1>1, <1>5 DEF Go, IInv, TypeOK
  <2> HIDE DEF r, h
  <2>6. /\ item'[h].frames = r.frames + 1 /\ item'[h].attempts = r.attempts
        /\ \A i \in Ids : i # h => item'[i] = item[i]
    BY <1>1, <2>2, <2>3 DEF IInv, TypeOK
  <2>7. ASSUME NEW i \in Ids
        PROVE  /\ item'[i].frames <= MAX_RETRY + 1
               /\ item'[i].fate = "queued" =>
                    /\ item'[i].attempts <= MAX_RETRY
                    /\ item'[i].frames <= item'[i].attempts + (IF Sent(i)' THEN 1 ELSE 0)
    <3>1. CASE i = h
      <4>1. Sent(i)'
        BY <2>5, <3>1 DEF Sent
      <4>2. item'[i].frames = r.frames + 1 /\ item'[i].attempts = r.attempts
        BY <2>6, <3>1
      <4>3. r.frames \in Nat /\ r.attempts \in Nat
        BY <2>3 DEF r
      <4> QED
        BY <2>4, <4>1, <4>2, <4>3, SizeAssumption
    <3>2. CASE i # h
      <4>1. item[i].attempts \in Nat /\ item[i].frames \in Nat
        BY DEF IInv, TypeOK, Items
      <4> QED
        BY <1>3, <2>6, <3>2, <4>1 DEF Copies
    <3> QED
      BY <3>1, <3>2
  <2> QED
    BY <2>7 DEF Copies
<1> QED
  BY <1>4, <1>5 DEF Transmit

(* Once an attempt is over nothing is on the way.                          *)
LEMMA OverCopies ==
  ASSUME IInv, Copies, NEW f \in Flushers, pc[f] \in Holding,
         item'[held[f]].frames = item[held[f]].frames,
         item'[held[f]].fate = "queued" =>
            /\ item'[held[f]].attempts = item[held[f]].attempts + 1
            /\ item'[held[f]].attempts <= MAX_RETRY,
         \A i \in Ids : i # held[f] => item'[i] = item[i]
  PROVE  Copies'
<1> DEFINE h == held[f]
<1>1. /\ h \in Ids /\ item[h].fate = "queued"
      /\ \A i \in Ids : Sent(i) => i = h
  BY HeldItem DEF Sent, Ids, NoItem
<1>2. \A i \in Ids : item[i].attempts \in Nat /\ item[i].frames \in Nat
  BY DEF IInv, TypeOK, Items
<1>3. item[h].frames <= MAX_RETRY + 1 /\ item[h].frames <= item[h].attempts + 1
  BY <1>1, <1>2 DEF Copies
<1> HIDE DEF h
<1>4. ASSUME NEW i \in Ids
      PROVE  /\ item'[i].frames <= MAX_RETRY + 1
             /\ item'[i].fate = "queued" =>
                  /\ item'[i].attempts <= MAX_RETRY
                  /\ item'[i].frames <= item'[i].attempts + (IF Sent(i)' THEN 1 ELSE 0)
  <2>1. CASE i = h
    <3>1. /\ item'[i].frames = item[h].frames
          /\ item'[i].fate = "queued" => /\ item'[i].attempts = item[h].attempts + 1
                                         /\ item'[i].attempts <= MAX_RETRY
      BY <2>1 DEF h
    <3> QED
      BY <1>1, <1>2, <1>3, <3>1
  <2>2. CASE i # h
    <3>1. item'[i] = item[i] /\ ~Sent(i)
      BY <1>1, <2>2 DEF h
    <3> QED
      BY <1>2, <3>1 DEF Copies
  <2> QED
    BY <2>1, <2>2
<1> QED
  BY <1>4 DEF Copies

LEMMA LeavesCopies ==
  ASSUME IInv, Copies, NEW f \in Flushers, pc[f] \in Holding,
         NEW fate \in {"acked", "retired"}, Leaves(held[f], fate)
  PROVE  Copies'
<1> DEFINE h == held[f]
<1>1. h \in Ids
  BY HeldItem
<1>2. item' = [item EXCEPT ![h] = Settled(h, fate)]
  BY DEF Leaves
<1>3. Settled(h, fate).frames = item[h].frames /\ Settled(h, fate).fate = fate
  BY DEF Settled, Blank
<1> HIDE DEF h
<1>4. item'[h] = Settled(h, fate) /\ \A i \in Ids : i # h => item'[i] = item[i]
  BY <1>1, <1>2 DEF IInv, TypeOK
<1> QED
  BY <1>3, <1>4, OverCopies DEF h

LEMMA FailureCopies ==
  ASSUME IInv, Copies, NEW f \in Flushers, FinishFailure(f)
  PROVE  Copies'
<1> DEFINE h == held[f]
<1>1. pc[f] \in Holding /\ h \in Ids /\ h \in Range(outbox)
  BY HeldItem DEF FinishFailure, Holding
<1>2. CASE Leaves(h, "retired")
  BY <1>1, <1>2, LeavesCopies
<1>3. CASE ~RetriesSpent(h) /\ item' = [item EXCEPT ![h] = Released(h)]
  <2> DEFINE r == item[h]
  <2>1. r \in Items
    BY <1>1 DEF IInv, TypeOK
  <2>2. r.attempts \in Nat /\ r.attempts + 1 <= MAX_RETRY
    BY <1>3, <2>1, SizeAssumption DEF RetriesSpent, Items
  <2>3. /\ [r EXCEPT !.sending = FALSE, !.attempts = r.attempts + 1,
                     !.due = FALSE].attempts = r.attempts + 1
        /\ [r EXCEPT !.sending = FALSE, !.attempts = r.attempts + 1,
                     !.due = FALSE].frames = r.frames
    BY <2>1 DEF Items
  <2>4. Released(h).attempts = r.attempts + 1 /\ Released(h).frames = r.frames
    BY <2>3 DEF Released
  <2> HIDE DEF r
  <2>5. item'[h] = Released(h) /\ \A i \in Ids : i # h => item'[i] = item[i]
    <3> HIDE DEF h
    <3> QED
      BY <1>1, <1>3 DEF IInv, TypeOK
  <2> HIDE DEF h
  <2> QED
    BY <1>1, <2>2, <2>4, <2>5, OverCopies DEF h, r
<1> QED
  BY <1>1, <1>2, <1>3 DEF FinishFailure

LEMMA CopiesStep ==
  ASSUME IInv, Copies, [Next]_vars
  PROVE  Copies'
<1> USE DEF Holding
<1>1. ASSUME NEW f \in Flushers, FlushCheck(f) \/ CloseSocket(f) \/ StartFlush(f)
      PROVE  Copies'
  <2>1. /\ UNCHANGED <<item, held>> /\ pc[f] \notin Holding
        /\ \A g \in Flushers : g # f => pc'[g] = pc[g]
    BY <1>1 DEF FlushCheck, CloseSocket, StartFlush, Return, GoThen, Go, IInv, TypeOK
  <2> QED
    BY <2>1, ThreadMoves
<1>2. ASSUME NEW f \in Flushers, Claim(f) PROVE Copies'
  <2>1. CASE Claimable
    <3> DEFINE h == Head(outbox)
               r == item[h]
    <3>1. h \in Ids
      BY <2>1, HeadTailProperties DEF IInv, TypeOK, Claimable
    <3>2. item' = [item EXCEPT ![h] = [r EXCEPT !.sending = TRUE]]
      BY <1>2, <2>1 DEF Claim
    <3>3. r \in Items
      BY <3>1 DEF IInv, TypeOK
    <3>4. /\ [r EXCEPT !.sending = TRUE].frames = r.frames
          /\ [r EXCEPT !.sending = TRUE].attempts = r.attempts
          /\ [r EXCEPT !.sending = TRUE].fate = r.fate
      BY <3>3 DEF Items
    <3>5. \A i \in Ids : /\ item'[i].frames = item[i].frames
                         /\ item'[i].attempts = item[i].attempts
                         /\ item'[i].fate = item[i].fate
      BY <3>1, <3>2, <3>4 DEF IInv, TypeOK
    <3>6. \A i \in Ids : Sent(i) => Sent(i)'
      <4>1. \A g \in Flushers : g # f => held'[g] = held[g] /\ pc'[g] = pc[g]
        BY <1>2, <2>1 DEF Claim, Go, IInv, TypeOK
      <4> QED
        BY <1>2, <4>1 DEF Claim, Sent
    <3> QED
      BY <3>5, <3>6, CopiesKept
  <2>2. CASE ~Claimable
    <3>1. /\ UNCHANGED <<item, held>> /\ pc[f] \notin Holding
          /\ \A g \in Flushers : g # f => pc'[g] = pc[g]
      BY <1>2, <2>2 DEF Claim, Return, GoThen, Go, IInv, TypeOK
    <3> QED
      BY <3>1, ThreadMoves
  <2> QED
    BY <2>1, <2>2
<1>3. ASSUME NEW f \in Flushers, Transmit(f) PROVE Copies'
  BY <1>3, TransmitCopies
<1>4. ASSUME NEW f \in Flushers, Answer(f) PROVE Copies'
  <2>1. UNCHANGED <<item, held>> /\ pc[f] = "await"
    BY <1>4 DEF Answer
  <2>2. /\ pc'[f] \in {"acked", "failed", "broken"}
        /\ \A g \in Flushers : g # f => pc'[g] = pc[g]
    BY <1>4 DEF Answer, Go, IInv, TypeOK
  <2>3. \A i \in Ids : Sent(i) => Sent(i)'
    BY <2>1, <2>2 DEF Sent
  <2> QED
    BY <2>1, <2>3, CopiesKept
<1>5. ASSUME NEW f \in Flushers, FinishSuccess(f) PROVE Copies'
  BY <1>5, LeavesCopies DEF FinishSuccess
<1>6. ASSUME NEW f \in Flushers, FinishFailure(f) PROVE Copies'
  BY <1>6, FailureCopies
<1>7. ASSUME NEW f \in Flushers, CloseNotify(f) PROVE Copies'
  <2>1. /\ EnqueueEvent \/ NoEnqueue
        /\ UNCHANGED held /\ pc[f] \notin Holding
        /\ \A g \in Flushers : g # f => pc'[g] = pc[g]
    BY <1>7 DEF CloseNotify, Go, IInv, TypeOK
  <2> QED
    BY <2>1, EventCopies
<1>8. CASE Announce \/ TickHeartbeat \/ TickTelemetry
  <2>1. /\ EnqueueEvent \/ NoEnqueue
        /\ UNCHANGED held /\ pc[Main] \notin Holding
        /\ \A g \in Flushers : g # Main => pc'[g] = pc[g]
    BY <1>8 DEF Announce, TickHeartbeat, TickTelemetry, GoThen, Go, IInv, TypeOK
  <2> QED
    BY <2>1, MainAssumption, EventCopies
<1>9. CASE Connected \/ EndIteration
  <2>1. /\ UNCHANGED <<item, held>> /\ pc[Main] \notin Holding
        /\ \A g \in Flushers : g # Main => pc'[g] = pc[g]
    BY <1>9 DEF Connected, EndIteration, GoThen, Go, IInv, TypeOK
  <2> QED
    BY <2>1, MainAssumption, ThreadMoves
<1>10. CASE SendResult
  <2>1. /\ UNCHANGED held /\ pc[Main] \notin Holding
        /\ \A g \in Flushers : g # Main => pc'[g] = pc[g]
    BY <1>10 DEF SendResult, GoThen, Go, IInv, TypeOK
  <2>2. \A g \in Flushers : pc[g] \in Holding => pc'[g] = pc[g]
    BY <2>1
  <2>3. \A i \in Ids : Sent(i) => Sent(i)'
    BY <2>1, <2>2, SentKept
  <2> QED
    BY <1>10, <2>3, EnqueueCopies DEF SendResult, Kinds
<1>11. CASE ReceiveFrame \/ EmitAlert \/ \E f \in Flushers : HandleFrame(f)
  <2>1. UNCHANGED <<held, pc>>
    BY <1>11 DEF ReceiveFrame, EmitAlert, HandleFrame
  <2>2. \A i \in Ids : Sent(i) => Sent(i)'
    BY <2>1 DEF Sent
  <2> QED
    BY <1>11, <2>2, EnqueueCopies DEF ReceiveFrame, EmitAlert, HandleFrame, Kinds
<1>12. ASSUME NEW i \in Ids, RetryDue(i) PROVE Copies'
  <2> DEFINE r == item[i]
  <2>1. r \in Items
    BY DEF IInv, TypeOK
  <2>2. /\ [r EXCEPT !.due = TRUE].frames = r.frames
        /\ [r EXCEPT !.due = TRUE].attempts = r.attempts
        /\ [r EXCEPT !.due = TRUE].fate = r.fate
    BY <2>1 DEF Items
  <2>3. \A j \in Ids : /\ item'[j].frames = item[j].frames
                       /\ item'[j].attempts = item[j].attempts
                       /\ item'[j].fate = item[j].fate
    BY <1>12, <2>2 DEF RetryDue, IInv, TypeOK
  <2>4. \A j \in Ids : Sent(j) => Sent(j)'
    BY <1>12 DEF RetryDue, Sent
  <2> QED
    BY <2>3, <2>4, CopiesKept
<1>13. CASE UNCHANGED vars
  BY <1>13, CopiesKept DEF vars, Sent
<1> QED
  BY <1>1, <1>2, <1>3, <1>4, <1>5, <1>6, <1>7, <1>8, <1>9, <1>10, <1>11, <1>12, <1>13
  DEF Next, FlushStep, MainStep

(* The gateway sees at most MAX_RETRY + 1 copies of an item, however many  *)
(* answers are lost and sessions replaced (_complete_outbox_failure).      *)
THEOREM CopiesAreBounded == Spec => []BoundedCopies
<1>1. ASSUME Init PROVE Copies
  <2>1. \A i \in Ids : item[i].frames = 0 /\ item[i].fate = "none"
    BY <1>1 DEF Init, Blank
  <2> QED
    BY <2>1, SizeAssumption DEF Copies
<1>2. IInv /\ Copies /\ [Next]_vars => Copies'
  BY CopiesStep
<1>3. Copies => BoundedCopies
  BY DEF Copies, BoundedCopies
<1> QED
  BY <1>1, <1>2, <1>3, Inductive, PTL DEF Spec

-----------------------------------------------------------------------------
(* The outbox as a DeliveryQueue.  Its settled items: *)
Done == {i \in Ids : item[i].fate \in {"acked", "retired"}}
AbstractStep == [Promise!DNext]_(Promise!dvars)

LEMMA FlightTells ==
  ASSUME IInv
  PROVE  /\ Flight => \E f \in Flushers : /\ held[f] \in Ids
                                          /\ outbox # <<>> /\ held[f] = Head(outbox)
         /\ ~Flight => \A f \in Flushers : held[f] = NoItem
<1>1. ASSUME NEW f \in Flushers, held[f] # NoItem
      PROVE  held[f] \in Ids /\ outbox # <<>> /\ held[f] = Head(outbox)
  <2>1. Len(outbox) > 0 /\ held[f] = outbox[1] /\ held[f] \in Ids
    BY <1>1 DEF IInv, TypeOK, Shape, ClaimShape, ExclusiveClaim
  <2>2. outbox # <<>>
    BY <2>1, LenProperties, EmptySeq
  <2> QED
    BY <2>1, <2>2, HeadTailProperties DEF IInv, TypeOK
<1> QED
  BY <1>1 DEF Flight

LEMMA StutterMaps ==
  ASSUME UNCHANGED outbox, Flight' = Flight, Done' = Done
  PROVE  AbstractStep
BY DEF AbstractStep, Promise!dvars, Done

(* What no list, no claim and no fate shows is no step of the queue.       *)
LEMMA HiddenMaps ==
  ASSUME UNCHANGED <<outbox, held>>, \A i \in Ids : item'[i].fate = item[i].fate
  PROVE  AbstractStep
<1>1. Flight' = Flight
  BY DEF Flight
<1>2. Done' = Done
  BY DEF Done
<1> QED
  BY <1>1, <1>2, StutterMaps

LEMMA NextIsYounger ==
  ASSUME IInv, next <= MaxItems
  PROVE  next \in Ids /\ Promise!Younger(next) /\ next \notin Done
<1>1. next \in Ids /\ item[next].fate = "none"
  <2>1. next \in Ids
    BY SizeAssumption DEF IInv, TypeOK, Ids
  <2>2. next >= next
    BY <2>1 DEF Ids
  <2> QED
    BY <2>1, <2>2 DEF IInv, Shape, QueueShape
<1>2. \A j \in Done : j < next
  <2>1. \A j \in Ids : j >= next => item[j].fate = "none"
    BY DEF IInv, Shape, QueueShape
  <2>2. \A j \in Done : j \in Ids /\ ~(j >= next)
    BY <2>1 DEF Done
  <2> QED
    BY <1>1, <2>2 DEF Ids
<1>3. \A k \in 1..Len(outbox) : outbox[k] < next
  BY DEF IInv, Shape, QueueShape
<1> QED
  BY <1>1, <1>2, <1>3 DEF Promise!Younger, Done

LEMMA EnqueueMaps ==
  ASSUME IInv, NEW kind \in Kinds, Enqueue(kind), UNCHANGED held
  PROVE  AbstractStep
<1>1. /\ next \in Ids /\ next \in 1..MaxItems /\ Promise!Younger(next) /\ next \notin Done
      /\ item[next].fate = "none"
  <2>1. next <= MaxItems /\ next >= next
    BY DEF Enqueue, IInv, TypeOK
  <2> QED
    BY <2>1, NextIsYounger DEF Ids, IInv, Shape, QueueShape
<1>2. Flight' = Flight
  BY DEF Flight
<1>3. CASE AppendNew(kind)
  <2>1. item' = [item EXCEPT ![next] = Fresh(kind)] /\ outbox' = Append(outbox, next)
    BY <1>3 DEF AppendNew, Added
  <2>2. item'[next].fate = "queued" /\ \A i \in Ids : i # next => item'[i] = item[i]
    BY <1>1, <2>1, FreshFields DEF IInv, TypeOK
  <2>3. Done' = Done
    BY <1>1, <2>2 DEF Done
  <2>4. Promise!Accept
    BY <1>1, <1>2, <2>1, <2>3 DEF Promise!Accept, Done
  <2> QED
    BY <2>4 DEF AbstractStep, Promise!DNext
<1>4. ASSUME NEW k \in 1..Len(outbox), ReplaceVictim(kind, k)
      PROVE  AbstractStep
  <2>1. outbox' = Append(RemoveAt(outbox, k), next) /\ ~item[outbox[k]].sending
    BY <1>4 DEF ReplaceVictim, Added, Victim, FirstDroppable, Droppable
  <2>2. outbox[k] \in Ids /\ item[outbox[k]].fate = "queued" /\ outbox[k] # next
    BY <1>1, ElementOfSeq DEF IInv, TypeOK, Shape, QueueShape
  <2>3. /\ item'[next].fate = "queued" /\ item'[outbox[k]].fate = "evicted"
        /\ \A i \in Ids : i # next /\ i # outbox[k] => item'[i] = item[i]
    <3> DEFINE v == outbox[k]
    <3>1. item' = [item EXCEPT ![next] = Fresh(kind), ![v] = Settled(v, "evicted")]
      BY <1>4 DEF ReplaceVictim
    <3>2. v \in Ids /\ v # next
      BY <2>2
    <3> HIDE DEF v
    <3>3. /\ item'[next] = Fresh(kind) /\ item'[v] = Settled(v, "evicted")
          /\ \A i \in Ids : i # next /\ i # v => item'[i] = item[i]
      BY <1>1, <3>1, <3>2 DEF IInv, TypeOK
    <3>4. Fresh(kind).fate = "queued" /\ Settled(v, "evicted").fate = "evicted"
      BY FreshFields, SettledFields
    <3> QED
      BY <3>3, <3>4 DEF v
  <2>4. Done' = Done
    BY <1>1, <2>2, <2>3 DEF Done
  <2>5. Flight => k # 1
    <3> SUFFICES ASSUME Flight, k = 1 PROVE FALSE
      OBVIOUS
    <3>1. PICK f \in Flushers : held[f] # NoItem
      BY DEF Flight
    <3>2. held[f] = outbox[1] /\ item[held[f]].sending
      BY <3>1 DEF IInv, Shape, ClaimShape, ExclusiveClaim
    <3> QED
      BY <2>1, <3>2
  <2>6. Promise!RemoveAt(outbox, k) = RemoveAt(outbox, k)
    BY DEF RemoveAt, Promise!RemoveAt
  <2>7. Promise!AcceptAndEvict
    BY <1>1, <1>2, <2>1, <2>4, <2>5, <2>6 DEF Promise!AcceptAndEvict, Done
  <2> QED
    BY <2>7 DEF AbstractStep, Promise!DNext
<1>5. CASE Refuse(kind)
  <2>1. item[next] \in Items
    BY <1>1 DEF IInv, TypeOK
  <2>2. [item[next] EXCEPT !.kind = kind, !.fate = "refused"].fate = "refused"
    BY <2>1 DEF Items
  <2>3. /\ UNCHANGED outbox /\ item'[next].fate = "refused"
        /\ \A i \in Ids : i # next => item'[i] = item[i]
    BY <1>1, <1>5, <2>2 DEF Refuse, IInv, TypeOK
  <2>4. Done' = Done
    BY <1>1, <2>3 DEF Done
  <2> QED
    BY <1>2, <2>3, <2>4, StutterMaps
<1> QED
  BY <1>3, <1>4, <1>5 DEF Enqueue

LEMMA EventMaps ==
  ASSUME IInv, EnqueueEvent \/ NoEnqueue, UNCHANGED held
  PROVE  AbstractStep
BY EnqueueMaps, HiddenMaps DEF EnqueueEvent, NoEnqueue, Kinds

LEMMA ClaimMaps ==
  ASSUME IInv, NEW f \in Flushers, Claim(f), Claimable
  PROVE  AbstractStep
<1>1. outbox # <<>> /\ ~item[Head(outbox)].sending
  BY DEF Claimable
<1>2. ~Flight
  <2> SUFFICES ASSUME Flight PROVE FALSE
    OBVIOUS
  <2>1. PICK g \in Flushers : held[g] \in Ids /\ held[g] = Head(outbox)
    BY FlightTells
  <2>2. held[g] # NoItem
    BY <2>1 DEF Ids, NoItem
  <2>3. item[held[g]].sending
    BY <2>2 DEF IInv, Shape, ClaimShape
  <2> QED
    BY <1>1, <2>1, <2>3
<1> DEFINE h == Head(outbox)
<1>3. h \in Ids /\ h # NoItem
  <2>1. h \in Ids
    BY <1>1, HeadTailProperties DEF IInv, TypeOK
  <2> QED
    BY <2>1 DEF Ids, NoItem
<1>4. item' = [item EXCEPT ![h].sending = TRUE] /\ held' = [held EXCEPT ![f] = h]
      /\ UNCHANGED outbox
  BY DEF Claim
<1> HIDE DEF h
<1>5. Flight'
  <2>1. held'[f] = h
    BY <1>4 DEF IInv, TypeOK
  <2> QED
    BY <1>3, <2>1 DEF Flight
<1>6. Done' = Done
  <2> DEFINE r == item[h]
  <2>1. r \in Items
    BY <1>3 DEF IInv, TypeOK
  <2>2. [r EXCEPT !.sending = TRUE].fate = r.fate
    BY <2>1 DEF Items
  <2>3. \A i \in Ids : item'[i].fate = item[i].fate
    BY <1>3, <1>4, <2>2 DEF IInv, TypeOK
  <2> QED
    BY <2>3 DEF Done
<1>7. Promise!Dispatch
  BY <1>1, <1>2, <1>4, <1>5, <1>6 DEF Promise!Dispatch, Done
<1> QED
  BY <1>7 DEF AbstractStep, Promise!DNext

(* A thread that lets go of its item leaves nothing in flight.             *)
LEMMA NothingInFlight ==
  ASSUME IInv, NEW f \in Flushers, held[f] # NoItem, LetGo(f)
  PROVE  /\ Flight /\ ~Flight'
         /\ outbox # <<>> /\ held[f] = Head(outbox) /\ held[f] = outbox[1]
         /\ held[f] \in Ids
<1>1. Flight
  BY DEF Flight
<1>2. \A g \in Flushers : g # f => held[g] = NoItem
  BY DEF IInv, Shape, ClaimShape, ExclusiveClaim
<1>3. \A g \in Flushers : held'[g] = NoItem
  BY <1>2 DEF LetGo, IInv, TypeOK
<1>4. ~Flight'
  BY <1>3 DEF Flight
<1>5. held[f] = outbox[1] /\ Len(outbox) > 0 /\ held[f] \in Ids
  BY DEF IInv, TypeOK, Shape, ClaimShape, ExclusiveClaim
<1>6. outbox # <<>>
  BY <1>5, LenProperties, EmptySeq
<1> QED
  BY <1>1, <1>4, <1>5, <1>6, HeadTailProperties DEF IInv, TypeOK

LEMMA SettleMaps ==
  ASSUME IInv, NEW f \in Flushers, held[f] # NoItem,
         NEW fate \in {"acked", "retired"}, Leaves(held[f], fate), LetGo(f)
  PROVE  AbstractStep
<1> DEFINE n == Len(outbox)
           h == held[f]
<1>1. /\ Flight /\ ~Flight'
      /\ outbox # <<>> /\ h = Head(outbox) /\ h = outbox[1] /\ h \in Ids
  BY NothingInFlight
<1>2. n \in Nat /\ n > 0 /\ outbox \in Seq(Ids)
  BY <1>1, LenProperties, EmptySeq DEF IInv, TypeOK
<1>3. outbox' = Tail(outbox)
  <2>1. h \in Range(outbox)
    BY <1>1, <1>2 DEF Range
  <2>2. PICK k \in 1..n : outbox[k] = h /\ outbox' = RemoveAt(outbox, k)
    BY <2>1 DEF Leaves
  <2>3. k = 1
    <3>1. 1 < k => outbox[1] < outbox[k]
      BY <1>2, <2>2 DEF IInv, Shape, QueueShape
    <3> QED
      BY <1>1, <1>2, <2>2, <3>1 DEF Ids
  <2>4. RemoveAt(outbox, 1) \in Seq(Ids) /\ Len(RemoveAt(outbox, 1)) = n - 1
        /\ \A j \in 1..(n - 1) : RemoveAt(outbox, 1)[j] = outbox[j + 1]
    <3>1. 1 \in 1..n
      BY <1>2
    <3>2. \A j \in 1..(n - 1) : RemoveAt(outbox, 1)[j]
                                 = IF j < 1 THEN outbox[j] ELSE outbox[j + 1]
      BY <1>2, <3>1, RemoveAtProperties
    <3>3. \A j \in 1..(n - 1) : ~(j < 1)
      BY <1>2
    <3> QED
      BY <1>2, <3>1, <3>2, <3>3, RemoveAtProperties
  <2>5. /\ Tail(outbox) \in Seq(Ids) /\ Len(Tail(outbox)) = n - 1
        /\ \A j \in 1..Len(Tail(outbox)) : Tail(outbox)[j] = outbox[j + 1]
    BY <1>1, <1>2, HeadTailProperties
  <2>6. RemoveAt(outbox, 1) = Tail(outbox)
    BY <2>4, <2>5, SeqEqual
  <2> QED
    BY <2>2, <2>3, <2>6
<1>4. item'[h].fate = fate /\ \A i \in Ids : i # h => item'[i] = item[i]
  <2>1. item' = [item EXCEPT ![h] = Settled(h, fate)]
    BY DEF Leaves
  <2> HIDE DEF h
  <2>2. item'[h] = Settled(h, fate) /\ \A i \in Ids : i # h => item'[i] = item[i]
    BY <1>1, <2>1 DEF IInv, TypeOK
  <2>3. Settled(h, fate).fate = fate
    BY SettledFields
  <2> QED
    BY <2>2, <2>3
<1>5. item[h].fate = "queued"
  BY <1>1, <1>2 DEF IInv, Shape, QueueShape
<1>6. Done' = Done \cup {h}
  <2> HIDE DEF h
  <2> QED
    BY <1>1, <1>4 DEF Done
<1>7. \A j \in Done : j < h
  <2>1. \A j \in Done : j \in Ids /\ ~(h < j) /\ j # h
    BY <1>1, <1>5 DEF Done, IInv, Shape, NoOvertaking
  <2> QED
    BY <1>1, <2>1 DEF Ids
<1> HIDE DEF h
<1>8. Promise!Settle
  BY <1>1, <1>3, <1>6, <1>7 DEF Promise!Settle, Done
<1> QED
  BY <1>8 DEF AbstractStep, Promise!DNext

LEMMA ReleaseMaps ==
  ASSUME IInv, NEW f \in Flushers, held[f] # NoItem, LetGo(f), UNCHANGED outbox,
         item' = [item EXCEPT ![held[f]] = Released(held[f])]
  PROVE  AbstractStep
<1> DEFINE h == held[f]
<1>1. Flight /\ ~Flight' /\ h \in Ids
  BY NothingInFlight
<1>2. Released(h).fate = item[h].fate
  <2> DEFINE r == item[h]
  <2>1. r \in Items
    BY <1>1 DEF IInv, TypeOK
  <2> QED
    BY <2>1 DEF Released, Items
<1>3. \A i \in Ids : item'[i].fate = item[i].fate
  BY <1>1, <1>2 DEF IInv, TypeOK
<1>4. Done' = Done
  BY <1>3 DEF Done
<1>5. Promise!PutBack
  BY <1>1, <1>4 DEF Promise!PutBack, Done
<1> QED
  BY <1>5 DEF AbstractStep, Promise!DNext

LEMMA StepMaps ==
  ASSUME IInv, [Next]_vars
  PROVE  AbstractStep
<1>1. ASSUME NEW f \in Flushers, Claim(f) PROVE AbstractStep
  <2>1. CASE Claimable
    BY <1>1, <2>1, ClaimMaps
  <2>2. CASE ~Claimable
    BY <1>1, <2>2, HiddenMaps DEF Claim
  <2> QED
    BY <2>1, <2>2
<1>2. ASSUME NEW f \in Flushers, Transmit(f) PROVE AbstractStep
  <2>1. CASE UNCHANGED item
    BY <1>2, <2>1, HiddenMaps DEF Transmit
  <2>2. CASE item' = [item EXCEPT ![held[f]].frames = @ + 1]
    <3> DEFINE r == item[held[f]]
    <3>1. held[f] \in Ids
      BY <1>2 DEF Transmit, IInv, TypeOK, Holding
    <3>2. r \in Items
      BY <3>1 DEF IInv, TypeOK
    <3>3. [r EXCEPT !.frames = r.frames + 1].fate = r.fate
      BY <3>2 DEF Items
    <3>4. \A i \in Ids : item'[i].fate = item[i].fate
      BY <2>2, <3>1, <3>3 DEF IInv, TypeOK
    <3> QED
      BY <1>2, <3>4, HiddenMaps DEF Transmit
  <2> QED
    BY <1>2, <2>1, <2>2 DEF Transmit
<1>3. ASSUME NEW f \in Flushers, FinishSuccess(f) PROVE AbstractStep
  <2>1. held[f] # NoItem
    BY <1>3 DEF FinishSuccess, IInv, TypeOK, Holding
  <2> QED
    BY <1>3, <2>1, SettleMaps DEF FinishSuccess
<1>4. ASSUME NEW f \in Flushers, FinishFailure(f) PROVE AbstractStep
  <2>1. held[f] # NoItem
    BY <1>4 DEF FinishFailure, IInv, TypeOK, Holding
  <2>2. held[f] \in Range(outbox)
    BY <2>1, LenProperties DEF IInv, TypeOK, Shape, ClaimShape, ExclusiveClaim, Range
  <2>3. CASE Leaves(held[f], "retired")
    BY <1>4, <2>1, <2>3, SettleMaps DEF FinishFailure
  <2>4. CASE UNCHANGED outbox /\ item' = [item EXCEPT ![held[f]] = Released(held[f])]
    BY <1>4, <2>1, <2>4, ReleaseMaps DEF FinishFailure
  <2> QED
    BY <1>4, <2>2, <2>3, <2>4 DEF FinishFailure
<1>5. ASSUME NEW i \in Ids, RetryDue(i) PROVE AbstractStep
  <2> DEFINE r == item[i]
  <2>1. r \in Items
    BY DEF IInv, TypeOK
  <2>2. [r EXCEPT !.due = TRUE].fate = r.fate
    BY <2>1 DEF Items
  <2>3. \A j \in Ids : item'[j].fate = item[j].fate
    BY <1>5, <2>2 DEF RetryDue, IInv, TypeOK
  <2> QED
    BY <1>5, <2>3, HiddenMaps DEF RetryDue
<1>6. ASSUME NEW f \in Flushers, CloseNotify(f) PROVE AbstractStep
  BY <1>6, EventMaps DEF CloseNotify
<1>7. CASE Announce \/ TickHeartbeat \/ TickTelemetry
  BY <1>7, EventMaps DEF Announce, TickHeartbeat, TickTelemetry
<1>8. CASE SendResult \/ ReceiveFrame \/ EmitAlert \/ \E f \in Flushers : HandleFrame(f)
  BY <1>8, EnqueueMaps DEF SendResult, ReceiveFrame, EmitAlert, HandleFrame, Kinds
<1>9. ASSUME NEW f \in Flushers,
             FlushCheck(f) \/ Answer(f) \/ CloseSocket(f) \/ StartFlush(f)
      PROVE  AbstractStep
  BY <1>9, HiddenMaps DEF FlushCheck, Answer, CloseSocket, StartFlush
<1>10. CASE Connected \/ EndIteration
  BY <1>10, HiddenMaps DEF Connected, EndIteration
<1>11. CASE UNCHANGED vars
  BY <1>11, HiddenMaps DEF vars
<1> QED
  BY <1>1, <1>2, <1>3, <1>4, <1>5, <1>6, <1>7, <1>8, <1>9, <1>10, <1>11
  DEF Next, FlushStep, MainStep

(* The outbox, with its threads, its lost answers and its sessions, is a   *)
(* DeliveryQueue to the code that queues an uplink.                        *)
THEOREM ImplementsQueue == Spec => KeepsPromise
<1>1. ASSUME Init PROVE Promise!Start
  <2>1. ~Flight
    BY <1>1 DEF Init, Flight
  <2>2. Done = {}
    BY <1>1 DEF Init, Blank, Done
  <2> QED
    BY <1>1, <2>1, <2>2 DEF Init, Promise!Start, Done
<1>2. IInv /\ [Next]_vars => [Promise!DNext]_(Promise!dvars)
  BY StepMaps DEF AbstractStep
<1> QED
  BY <1>1, <1>2, Inductive, PTL DEF Spec, KeepsPromise, Promise!DSpec

-----------------------------------------------------------------------------
(* Which item an overflow drops.                                           *)
Evicts(i) == item[i].fate = "queued" /\ item'[i].fate = "evicted"

LEMMA VictimEvicted ==
  ASSUME IInv, NEW kind \in Kinds, Enqueue(kind), NEW i \in Ids, Evicts(i),
         Critical(item[i].kind), NEW j \in Ids, item[j].fate = "queued"
  PROVE  Critical(item[j].kind) \/ item[j].sending
<1>1. next \in Ids /\ item \in [Ids -> Items] /\ item[next].fate = "none"
  BY SizeAssumption DEF Enqueue, IInv, TypeOK, Shape, QueueShape, Ids
<1>2. \A k \in 1..Len(outbox) : outbox[k] \in Ids
  BY ElementOfSeq DEF IInv, TypeOK
<1>3. i # next
  BY <1>1 DEF Evicts
<1>4. ~AppendNew(kind) /\ ~Refuse(kind)
  BY <1>1, <1>3 DEF AppendNew, Refuse, Evicts
<1>5. PICK k \in 1..Len(outbox) : ReplaceVictim(kind, k)
  BY <1>4 DEF Enqueue
<1>6. i = outbox[k]
  BY <1>1, <1>2, <1>3, <1>5 DEF ReplaceVictim, Evicts
<1>7. NoneDroppable(TRUE)
  BY <1>5, <1>6 DEF ReplaceVictim, Victim, FirstDroppable, Droppable
<1>8. PICK m \in 1..Len(outbox) : outbox[m] = j
  BY DEF IInv, Shape, QueueShape
<1> QED
  BY <1>7, <1>8 DEF NoneDroppable, Droppable

LEMMA OnlyEnqueueEvicts ==
  ASSUME IInv, Next, NEW i \in Ids, Evicts(i)
  PROVE  \E kind \in Kinds : Enqueue(kind)
<1> DEFINE r == item[i]
<1>1. r \in Items /\ item \in [Ids -> Items]
  BY DEF IInv, TypeOK
<1>2. item' # item
  BY DEF Evicts
<1>3. ASSUME NEW f \in Flushers, Claim(f) \/ Transmit(f) PROVE FALSE
  <2>1. \/ item' = [item EXCEPT ![Head(outbox)] = [item[Head(outbox)] EXCEPT !.sending = TRUE]]
        \/ item' = [item EXCEPT ![held[f]] = [item[held[f]] EXCEPT !.frames = @ + 1]]
    BY <1>2, <1>3 DEF Claim, Transmit
  <2>2. /\ [r EXCEPT !.sending = TRUE].fate = r.fate
        /\ [r EXCEPT !.frames = r.frames + 1].fate = r.fate
    BY <1>1 DEF Items
  <2> QED
    BY <1>1, <2>1, <2>2 DEF Evicts
<1>4. ASSUME NEW f \in Flushers, FinishSuccess(f) PROVE FALSE
  <2>1. item' = [item EXCEPT ![held[f]] = Settled(held[f], "acked")]
    BY <1>4 DEF FinishSuccess, Leaves
  <2>2. Settled(i, "acked").fate = "acked"
    BY SettledFields
  <2> QED
    BY <1>1, <2>1, <2>2 DEF Evicts
<1>5. ASSUME NEW f \in Flushers, FinishFailure(f) PROVE FALSE
  <2>1. \/ item' = [item EXCEPT ![held[f]] = Settled(held[f], "retired")]
        \/ item' = [item EXCEPT ![held[f]] = Released(held[f])]
    BY <1>2, <1>5 DEF FinishFailure, Leaves
  <2>2. Settled(i, "retired").fate = "retired"
    BY SettledFields
  <2>3. Released(i).fate = r.fate
    BY <1>1 DEF Released, Items
  <2> QED
    BY <1>1, <2>1, <2>2, <2>3 DEF Evicts
<1>6. ASSUME NEW j \in Ids, RetryDue(j) PROVE FALSE
  <2>1. item' = [item EXCEPT ![j] = [item[j] EXCEPT !.due = TRUE]]
    BY <1>6 DEF RetryDue
  <2>2. [r EXCEPT !.due = TRUE].fate = r.fate
    BY <1>1 DEF Items
  <2> QED
    BY <1>1, <2>1, <2>2 DEF Evicts
<1>7. "event" \in Kinds /\ "result" \in Kinds /\ "alert" \in Kinds
  BY DEF Kinds
<1>8. EnqueueEvent => Enqueue("event")
  BY <1>2 DEF EnqueueEvent
<1>9. ASSUME NEW f \in Flushers, FlushStep(f) \/ StartFlush(f)
      PROVE  \E kind \in Kinds : Enqueue(kind)
  <2>1. HandleFrame(f) \/ CloseNotify(f)
    BY <1>2, <1>3, <1>4, <1>5, <1>9
    DEF FlushStep, StartFlush, FlushCheck, Answer, CloseSocket
  <2> QED
    BY <1>2, <1>7, <1>8, <2>1 DEF HandleFrame, CloseNotify, NoEnqueue
<1>10. CASE MainStep
  BY <1>2, <1>7, <1>8, <1>10 DEF MainStep, Announce, TickHeartbeat, TickTelemetry, SendResult,
     ReceiveFrame, EndIteration, NoEnqueue
<1>11. CASE Connected \/ EmitAlert
  BY <1>2, <1>7, <1>11 DEF Connected, EmitAlert
<1> QED
  BY <1>6, <1>9, <1>10, <1>11 DEF Next

(* An overflow costs a result only if everything else that is queued is a  *)
(* result or being sent (transport 494-500, 637-648).                      *)
THEOREM ResultsGoLast == Spec => ResultsEvictedLast
<1>1. IInv /\ [Next]_vars
        => [\A i \in Ids :
              /\ item[i].fate = "queued" /\ item'[i].fate = "evicted"
              /\ Critical(item[i].kind)
              => \A j \in Ids : item[j].fate = "queued" =>
                   Critical(item[j].kind) \/ item[j].sending]_vars
  BY OnlyEnqueueEvicts, VictimEvicted DEF Evicts
<1>2. QED
  BY <1>1, Inductive, PTL DEF Spec, ResultsEvictedLast
=============================================================================
