---------------------------- MODULE InvokeService ----------------------------
(***************************************************************************)
(* What the node promises to the Gateway that sends it invokes, without    *)
(* sessions, threads, slots or a result cache: one tool at a time, in the  *)
(* order in which the invokes were accepted, one reply for each invoke,    *)
(* and a reply that was sent before only for an invoke that repeats its    *)
(* key.  NodeRuntime implements it.                                        *)
(***************************************************************************)
EXTENDS Sequences

CONSTANTS Commands, NoCmd, KeyOf, Malformed

VARIABLES
  waiting,   \* the invokes accepted whose tools have not ended, oldest first
  ran,       \* the invoke whose tool has ended and that is not replied to yet
  replies    \* the replies, for whom and with which id

ivars == <<waiting, ran, replies>>

Idle == waiting = << >> /\ ran = NoCmd /\ replies = << >>

Replied(c) == \E j \in DOMAIN replies : replies[j].for = c

(* The Gateway sends an invoke once. *)
New(c) == /\ \A j \in DOMAIN waiting : waiting[j] # c
          /\ ran # c
          /\ ~Replied(c)

Answers(c, id) == replies' = Append(replies, [for |-> c, id |-> id])

Accept(c) ==
  /\ c \notin Malformed /\ New(c)
  /\ waiting' = Append(waiting, c)
  /\ UNCHANGED <<ran, replies>>

Refuse(c) ==
  /\ c \in Malformed /\ New(c)
  /\ Answers(c, c)
  /\ UNCHANGED <<waiting, ran>>

(* The result of an earlier invoke with the same key, whose tool ran and   *)
(* which was replied to, is sent once more.                                *)
Replay(c) == \E d \in Commands \ Malformed :
  /\ c \notin Malformed /\ New(c)
  /\ KeyOf[d] = KeyOf[c]
  /\ \E j \in DOMAIN replies : replies[j] = [for |-> d, id |-> d]
  /\ Answers(c, d)
  /\ UNCHANGED <<waiting, ran>>

(* The next tool ends only when the reply to the last one is on its way.   *)
Run ==
  /\ waiting # << >> /\ ran = NoCmd
  /\ ran' = Head(waiting)
  /\ waiting' = Tail(waiting)
  /\ UNCHANGED replies

Send ==
  /\ ran # NoCmd
  /\ Answers(ran, ran)
  /\ ran' = NoCmd
  /\ UNCHANGED waiting

Serve ==
  \/ \E c \in Commands : Accept(c) \/ Refuse(c) \/ Replay(c)
  \/ Run \/ Send

ServiceSpec == Idle /\ [][Serve]_ivars
=============================================================================
