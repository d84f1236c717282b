------------------------------- MODULE Outbox -------------------------------
(***************************************************************************)
(* The uplink queue of WsNativeTransport (transport_ws_openclaw.py).       *)
(*                                                                         *)
(* Every uplink of the node (results of commands, alerts, lifecycle,       *)
(* heartbeat and telemetry events) is appended to _outbox and removed when *)
(* the gateway acknowledges it, when MAX_RETRY retries are spent, or when  *)
(* the queue overflows.  The queue lock covers each queue operation but    *)
(* not the request between a claim and its completion, so other threads    *)
(* and the very thread that waits for the answer change the queue          *)
(* meanwhile.                                                              *)
(*                                                                         *)
(* An item is a Python object that the code compares with `is': here an    *)
(* identifier, handed out in the order of the calls of _enqueue_request.   *)
(* Its fields live in item; outbox is the list of references.              *)
(***************************************************************************)
EXTENDS Naturals, Sequences, SequencesExt

CONSTANTS
  Flushers,     \* the threads that call flush_outbox
  Main,         \* the one of them that runs agent.run
  OUTBOX_MAX,   \* cfg.OUTBOX_MAX
  MAX_RETRY,    \* cfg.MAX_RETRY
  EVENTS,       \* cfg.OPENCLAW_GENERIC_NODE_EVENTS
  MaxItems      \* bound of the model: calls of _enqueue_request

ASSUME MainAssumption == Main \in Flushers
ASSUME SizeAssumption == /\ OUTBOX_MAX \in Nat
                         /\ MAX_RETRY \in Nat
                         /\ MaxItems \in Nat
                         /\ EVENTS \in BOOLEAN

VARIABLES
  outbox,   \* _outbox: the queued items, oldest first
  item,     \* the fields of every item, and its history
  next,     \* the identifier the next item gets
  online,   \* self.online (self.ws is set exactly while a session is online)
  pc,       \* where each flushing thread is
  held,     \* the local variable `item' of flush_outbox
  back      \* where a thread continues when flush_outbox or close returns

vars == <<outbox, item, next, online, pc, held, back>>

Ids == 1..MaxItems
NoItem == 0

(* The callers of _enqueue_request; only a result is enqueued as critical. *)
Kinds == {"result", "alert", "event"}
Critical(kind) == kind = "result"

(* What became of an item: "none" until a call creates it. *)
Fates == {"none", "queued", "acked", "evicted", "retired", "refused"}

(* due abstracts next_attempt_ms: FALSE while the backoff of a failed      *)
(* attempt runs.  frames counts the transmissions of the item (history).   *)
Items == [kind : Kinds, attempts : Nat, due : BOOLEAN, sending : BOOLEAN,
          fate : Fates, frames : Nat]
Blank == [kind |-> "event", attempts |-> 0, due |-> TRUE, sending |-> FALSE,
          fate |-> "none", frames |-> 0]

MainSteps == {"top", "tick", "telemetry", "work", "announce"}
FlushSteps == {"flush", "claim", "send", "await", "acked", "failed", "broken",
               "close", "hangup"}
Holding == {"send", "await", "acked", "failed", "broken"}

Init ==
  /\ outbox = <<>>
  /\ item = [i \in Ids |-> Blank]
  /\ next = 1
  /\ online = FALSE
  /\ pc = [f \in Flushers |-> IF f = Main THEN "top" ELSE "idle"]
  /\ held = [f \in Flushers |-> NoItem]
  /\ back = [f \in Flushers |-> "idle"]

Go(f, step) == pc' = [pc EXCEPT ![f] = step]
GoThen(f, step, after) == /\ Go(f, step)
                          /\ back' = [back EXCEPT ![f] = after]
Return(f) == GoThen(f, back[f], "idle")

(* An item that left the list is garbage: only its history is kept. *)
Settled(i, fate) == [Blank EXCEPT !.kind = item[i].kind, !.fate = fate,
                                  !.frames = item[i].frames]

-----------------------------------------------------------------------------
(* The queue operations, each under the queue lock. *)

(* Mutant: an overflow may push out the item that is being sent. *)
DropsItemInFlight(k, preferNonCritical) ==
  preferNonCritical => ~Critical(item[outbox[k]].kind)

Droppable(k, preferNonCritical) ==
  /\ ~item[outbox[k]].sending
  /\ preferNonCritical => ~Critical(item[outbox[k]].kind)

FirstDroppable(k, preferNonCritical) ==
  /\ Droppable(k, preferNonCritical)
  /\ \A j \in 1..(k - 1) : ~Droppable(j, preferNonCritical)

NoneDroppable(preferNonCritical) ==
  \A k \in 1..Len(outbox) : ~Droppable(k, preferNonCritical)

(* Mutant: the oldest item goes, whatever it is. *)
DropsOldest(k) == FirstDroppable(k, FALSE)

(* The item an overflowing append pushes out: the oldest non-critical one  *)
(* that is not being sent, else the oldest one that is not being sent.     *)
Victim(k) == \/ FirstDroppable(k, TRUE)
             \/ NoneDroppable(TRUE) /\ FirstDroppable(k, FALSE)

(* Mutant: one item too many. *)
RoomForOneMore == Len(outbox) <= OUTBOX_MAX

HasRoom == Len(outbox) < OUTBOX_MAX

(* Mutant: the newest item first. *)
AddedInFront(queue) == <<next>> \o queue

Added(queue) == Append(queue, next)

Fresh(kind) == [Blank EXCEPT !.kind = kind, !.fate = "queued"]

AppendNew(kind) ==
  /\ HasRoom \/ (Critical(kind) /\ NoneDroppable(FALSE))
  /\ outbox' = Added(outbox)
  /\ item' = [item EXCEPT ![next] = Fresh(kind)]

ReplaceVictim(kind, k) ==
  /\ ~HasRoom
  /\ Victim(k)
  /\ outbox' = Added(RemoveAt(outbox, k))
  /\ item' = [item EXCEPT ![next] = Fresh(kind),
                          ![outbox[k]] = Settled(outbox[k], "evicted")]

Refuse(kind) ==
  /\ ~HasRoom /\ ~Critical(kind) /\ NoneDroppable(FALSE)
  /\ item' = [item EXCEPT ![next] = [@ EXCEPT !.kind = kind, !.fate = "refused"]]
  /\ UNCHANGED outbox

Enqueue(kind) ==
  /\ next <= MaxItems
  /\ next' = next + 1
  /\ \/ AppendNew(kind)
     \/ \E k \in 1..Len(outbox) : ReplaceVictim(kind, k)
     \/ Refuse(kind)

(* An event the handler queues in any case: left out once the bound of the *)
(* model is reached.                                                       *)
EnqueueEvent ==
  \/ Enqueue("event")
  \/ next > MaxItems /\ UNCHANGED <<outbox, item, next>>

NoEnqueue == UNCHANGED <<outbox, item, next>>

-----------------------------------------------------------------------------
(* flush_outbox(1), the limit every caller passes. *)

(* The unlocked test of online before the loop. *)
FlushCheck(f) ==
  /\ pc[f] = "flush"
  /\ IF online THEN Go(f, "claim") /\ UNCHANGED back ELSE Return(f)
  /\ UNCHANGED <<outbox, item, next, online, held>>

(* Mutant: the claim does not look at the sending flag. *)
ClaimableTwice == outbox # <<>> /\ item[Head(outbox)].due

Claimable == /\ outbox # <<>>
             /\ ~item[Head(outbox)].sending
             /\ item[Head(outbox)].due

Claim(f) ==
  /\ pc[f] = "claim"
  /\ IF Claimable
     THEN /\ item' = [item EXCEPT ![Head(outbox)].sending = TRUE]
          /\ held' = [held EXCEPT ![f] = Head(outbox)]
          /\ Go(f, "send")
          /\ UNCHANGED back
     ELSE /\ Return(f)
          /\ UNCHANGED <<item, held>>
  /\ UNCHANGED <<outbox, next, online>>

(* The frame leaves, or the socket is gone or breaks: a fatal error. *)
Transmit(f) ==
  /\ pc[f] = "send"
  /\ \/ /\ online
        /\ item' = [item EXCEPT ![held[f]].frames = @ + 1]
        /\ Go(f, "await")
     \/ /\ Go(f, "broken")
        /\ UNCHANGED item
  /\ UNCHANGED <<outbox, next, online, held, back>>

(* While it waits for the answer the thread handles the frames that come   *)
(* in; an invoke request with bad or already answered parameters enqueues  *)
(* a result at once.                                                       *)
HandleFrame(f) ==
  /\ pc[f] = "await"
  /\ Enqueue("result")
  /\ UNCHANGED <<online, pc, held, back>>

(* ok; not ok or no answer in ACK_TIMEOUT_MS; connection lost. *)
Answer(f) ==
  /\ pc[f] = "await"
  /\ \E outcome \in {"acked", "failed", "broken"} :
       /\ outcome = "acked" => online
       /\ Go(f, outcome)
  /\ UNCHANGED <<outbox, item, next, online, held, back>>

(* The finished item leaves the list, if it is still there. *)
Leaves(i, fate) ==
  /\ \/ \E k \in 1..Len(outbox) : outbox[k] = i /\ outbox' = RemoveAt(outbox, k)
     \/ i \notin Range(outbox) /\ UNCHANGED outbox
  /\ item' = [item EXCEPT ![i] = Settled(i, fate)]

(* Mutant: the caller keeps its reference. *)
KeepsHolding(f) == UNCHANGED held

LetGo(f) == held' = [held EXCEPT ![f] = NoItem]

FinishSuccess(f) ==
  /\ pc[f] = "acked"
  /\ Leaves(held[f], "acked")
  /\ LetGo(f)
  /\ Return(f)
  /\ UNCHANGED <<next, online>>

(* Mutant: one retry too many. *)
SpentLate(i) == item[i].attempts > MAX_RETRY

RetriesSpent(i) == item[i].attempts + 1 > MAX_RETRY

(* Mutant: the error path forgets the sending flag. *)
StillSending(i) == [item[i] EXCEPT !.attempts = @ + 1, !.due = FALSE]

Released(i) == [item[i] EXCEPT !.sending = FALSE, !.attempts = @ + 1, !.due = FALSE]

(* An item whose retries are spent is removed and the loop ends without    *)
(* looking at the error; otherwise a fatal error closes the session.       *)
FinishFailure(f) ==
  /\ pc[f] \in {"failed", "broken"}
  /\ LetGo(f)
  /\ \/ /\ RetriesSpent(held[f]) /\ held[f] \in Range(outbox)
        /\ Leaves(held[f], "retired")
        /\ Return(f)
     \/ /\ ~RetriesSpent(held[f]) \/ held[f] \notin Range(outbox)
        /\ IF held[f] \in Range(outbox)
           THEN item' = [item EXCEPT ![held[f]] = Released(held[f])]
           ELSE UNCHANGED item
        /\ IF pc[f] = "broken" THEN Go(f, "close") /\ UNCHANGED back
                               ELSE Return(f)
        /\ UNCHANGED outbox
  /\ UNCHANGED <<next, online>>

(* Time passes until the backoff of a queued item is over. *)
RetryDue(i) ==
  /\ item[i].fate = "queued"
  /\ ~item[i].due
  /\ item' = [item EXCEPT ![i].due = TRUE]
  /\ UNCHANGED <<outbox, next, online, pc, held, back>>

-----------------------------------------------------------------------------
(* close: the offline event is queued before online is cleared. *)

CloseNotify(f) ==
  /\ pc[f] = "close"
  /\ IF online /\ EVENTS THEN EnqueueEvent ELSE NoEnqueue
  /\ Go(f, "hangup")
  /\ UNCHANGED <<online, held, back>>

CloseSocket(f) ==
  /\ pc[f] = "hangup"
  /\ online' = FALSE
  /\ Return(f)
  /\ UNCHANGED <<outbox, item, next, held>>

-----------------------------------------------------------------------------
(* agent.run on the main thread, as far as it drives the outbox. *)

(* The handshake of connect succeeds, or the session is already online. *)
Connected ==
  /\ pc[Main] = "top"
  /\ online' = TRUE
  /\ Go(Main, IF ~online /\ EVENTS THEN "announce" ELSE "tick")
  /\ UNCHANGED <<outbox, item, next, held, back>>

(* connect queues the online event and flushes before it returns. *)
Announce ==
  /\ pc[Main] = "announce"
  /\ EnqueueEvent
  /\ GoThen(Main, "flush", "tick")
  /\ UNCHANGED <<online, held>>

(* tick: a heartbeat and a telemetry event when they are due, then a flush. *)
TickHeartbeat ==
  /\ pc[Main] = "tick"
  /\ NoEnqueue \/ (EVENTS /\ EnqueueEvent)
  /\ Go(Main, "telemetry")
  /\ UNCHANGED <<online, held, back>>

TickTelemetry ==
  /\ pc[Main] = "telemetry"
  /\ NoEnqueue \/ (EVENTS /\ EnqueueEvent)
  /\ GoThen(Main, "flush", "work")
  /\ UNCHANGED <<online, held>>

(* After tick: send_result of a finished command (enqueue, then flush).    *)
SendResult ==
  /\ pc[Main] = "work"
  /\ Enqueue("result")
  /\ GoThen(Main, "flush", "work")
  /\ UNCHANGED <<online, held>>

(* recv_cmd handles a frame; an invoke it cannot run enqueues a result.    *)
ReceiveFrame ==
  /\ pc[Main] = "work"
  /\ online
  /\ Enqueue("result")
  /\ UNCHANGED <<online, pc, held, back>>

(* The iteration ends; an exception out of it closes the session first.    *)
EndIteration ==
  /\ pc[Main] = "work"
  /\ \/ Go(Main, "top") /\ UNCHANGED back
     \/ GoThen(Main, "close", "top")
  /\ UNCHANGED <<outbox, item, next, online, held>>

-----------------------------------------------------------------------------
(* The other threads. *)

(* A business alert from the application, on a thread of its own. *)
EmitAlert ==
  /\ Enqueue("alert")
  /\ UNCHANGED <<online, pc, held, back>>

(* Another thread that calls flush_outbox. *)
StartFlush(f) ==
  /\ pc[f] = "idle"
  /\ GoThen(f, "flush", "idle")
  /\ UNCHANGED <<outbox, item, next, online, held>>

FlushStep(f) ==
  \/ FlushCheck(f) \/ Claim(f) \/ Transmit(f) \/ HandleFrame(f) \/ Answer(f)
  \/ FinishSuccess(f) \/ FinishFailure(f) \/ CloseNotify(f) \/ CloseSocket(f)

MainStep ==
  \/ Announce \/ TickHeartbeat \/ TickTelemetry
  \/ SendResult \/ ReceiveFrame \/ EndIteration

Next ==
  \/ \E f \in Flushers : FlushStep(f) \/ StartFlush(f)
  \/ Connected \/ MainStep
  \/ EmitAlert
  \/ \E i \in Ids : RetryDue(i)

Spec == Init /\ [][Next]_vars

(* A thread does not stop in the middle of its work, time passes, and a    *)
(* gateway that is tried again and again is reached again.                 *)
Fairness ==
  /\ \A f \in Flushers : WF_vars(FlushStep(f))
  /\ WF_vars(MainStep)
  /\ SF_vars(Connected)
  /\ \A i \in Ids : WF_vars(RetryDue(i))

FairSpec == Spec /\ Fairness

-----------------------------------------------------------------------------
(* Properties. *)

(* The values of the variables; a thread refers to an item exactly from    *)
(* its claim to its completion.                                            *)
TypeOK ==
  /\ outbox \in Seq(Ids)
  /\ item \in [Ids -> Items]
  /\ next \in 1..(MaxItems + 1)
  /\ online \in BOOLEAN
  /\ pc \in [Flushers -> MainSteps \cup FlushSteps \cup {"idle"}]
  /\ held \in [Flushers -> Ids \cup {NoItem}]
  /\ back \in [Flushers -> {"idle", "tick", "work", "top"}]
  /\ \A f \in Flushers : held[f] # NoItem <=> pc[f] \in Holding

(* Between a claim and its completion the claimed item stays the head of   *)
(* the queue, whatever the other threads enqueue, so that only one thread  *)
(* can have a request under way and no item is sent by two threads at once *)
(* (flush_outbox releases the lock during the request).                    *)
ExclusiveClaim ==
  \A f \in Flushers : held[f] # NoItem =>
    /\ Len(outbox) > 0
    /\ held[f] = outbox[1]
    /\ \A g \in Flushers \ {f} : held[g] = NoItem

(* A set "sending" flag always belongs to a thread that will clear it: a   *)
(* flag left behind by an error path would block the head, and with it the *)
(* queue, for ever.                                                        *)
NoLeakedClaim ==
  \A k \in 1..Len(outbox) :
    item[outbox[k]].sending => \E f \in Flushers : held[f] = outbox[k]

(* Neither of two threads that flush takes, or leaves for ever, what is    *)
(* the other's to send.                                                    *)
ClaimsSound == ExclusiveClaim /\ NoLeakedClaim

(* The queue never outgrows OUTBOX_MAX, although a critical item is        *)
(* appended even when nothing can be dropped; with OUTBOX_MAX below 2 the  *)
(* item in flight may stand beside one more.                               *)
BoundedOutbox ==
  Len(outbox) <= IF OUTBOX_MAX >= 2 THEN OUTBOX_MAX ELSE 2

(* Uplinks leave the node in the order of their calls: when an item has    *)
(* been acknowledged or given up, no older one is still queued, in spite   *)
(* of retries, evictions and several flushing threads.                     *)
NoOvertaking ==
  \A i, j \in Ids :
    i < j /\ item[j].fate \in {"acked", "retired"} => item[i].fate # "queued"

(* The gateway sees at most MAX_RETRY + 1 copies of an item, also when     *)
(* acknowledgements are lost and sessions are replaced between attempts.   *)
BoundedCopies ==
  \A i \in Ids : item[i].frames <= MAX_RETRY + 1

(* An overflow costs a result only when nothing else could have gone: every *)
(* other item that stays is itself a result or is being sent.              *)
ResultsEvictedLast ==
  [][\A i \in Ids :
       /\ item[i].fate = "queued" /\ item'[i].fate = "evicted"
       /\ Critical(item[i].kind)
       => \A j \in Ids : item[j].fate = "queued" =>
            Critical(item[j].kind) \/ item[j].sending]_vars

(* Every queued uplink is eventually settled: no error path leaves the     *)
(* head of the queue stuck.                                                *)
EverySettled ==
  \A i \in Ids : item[i].fate = "queued" ~> item[i].fate # "queued"

(* The outbox implements the delivery queue it promises to its callers.    *)
Flight == \E f \in Flushers : held[f] # NoItem
Promise == INSTANCE DeliveryQueue WITH
  queue <- outbox,
  inFlight <- Flight,
  settled <- {i \in Ids : item[i].fate \in {"acked", "retired"}}
KeepsPromise == Promise!DSpec

(* docs/design/05-Gateway双向通信详细设计.md:265 guarantees that the outbox *)
(* does not lose the key alerts of an offline period.  At the least, no    *)
(* alert goes as long as a lifecycle, heartbeat or telemetry event could;  *)
(* the code does not keep this, and no run asks for it.                    *)
AlertsSurvive ==
  [][\A i \in Ids :
       /\ item[i].kind = "alert"
       /\ item[i].fate = "queued" /\ item'[i].fate = "evicted"
       => \A j \in Ids : item[j].fate = "queued" /\ item[j].kind = "event"
            => item[j].sending]_vars
=============================================================================
