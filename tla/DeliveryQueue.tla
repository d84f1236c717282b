---------------------------- MODULE DeliveryQueue ----------------------------
(***************************************************************************)
(* What the outbox promises to the code that queues an uplink, without     *)
(* threads, sockets, retries or sessions: a queue whose head alone may be  *)
(* in flight, that settles items in the order they were accepted, and that *)
(* discards an item on overflow only while that item is not in flight.     *)
(* The module has no counterpart of its own in the code: Outbox implements *)
(* it, and its definitions stand for the same functions.                   *)
(***************************************************************************)
EXTENDS Naturals, Sequences, SequencesExt

CONSTANT MaxItems    \* bound of the model: calls of _enqueue_request



VARIABLES
  queue,     \* the accepted items that are not settled, oldest first
  inFlight,  \* whether the head of the queue is being sent
  settled    \* the items that were acknowledged or given up

dvars == <<queue, inFlight, settled>>

Start == queue = <<>> /\ inFlight = FALSE /\ settled = {}

(* A new item is younger than every item that waits or was settled. *)
Younger(i) == /\ \A k \in 1..Len(queue) : queue[k] < i
              /\ \A j \in settled : j < i

Accept == \E i \in 1..MaxItems :
  /\ Younger(i)
  /\ queue' = Append(queue, i)
  /\ UNCHANGED <<inFlight, settled>>

(* A full queue makes room for the new item. *)
AcceptAndEvict == \E i \in 1..MaxItems, k \in 1..Len(queue) :
  /\ Younger(i)
  /\ inFlight => k # 1
  /\ queue' = Append(RemoveAt(queue, k), i)
  /\ UNCHANGED <<inFlight, settled>>

Dispatch ==
  /\ queue # <<>>
  /\ ~inFlight
  /\ inFlight' = TRUE
  /\ UNCHANGED <<queue, settled>>

(* The attempt failed and the item is kept for another one. *)
PutBack == inFlight /\ inFlight' = FALSE /\ UNCHANGED <<queue, settled>>

(* The attempt was acknowledged, or was the last one.  Items are settled in *)
(* the order in which they were accepted.                                   *)
Settle ==
  /\ inFlight
  /\ queue # <<>>
  /\ \A j \in settled : j < Head(queue)
  /\ inFlight' = FALSE
  /\ queue' = Tail(queue)
  /\ settled' = settled \cup {Head(queue)}

DNext == Accept \/ AcceptAndEvict \/ Dispatch \/ PutBack \/ Settle

DSpec == Start /\ [][DNext]_dvars
=============================================================================
