----------------------------- MODULE NodeRuntime -----------------------------
(***************************************************************************)
(* The main loop of the node (agent.py, run) with its command path: the    *)
(* invokes that the Gateway sends are decoded and deduplicated             *)
(* (_consume_invoke_request), queued, executed by the worker thread or, on *)
(* a firmware without threads, by the loop itself, cached, and handed to   *)
(* the outbox.  What the outbox then does is the module Outbox.            *)
(*                                                                         *)
(* CommandWorker supplies the worker; its Commands are the invokes.        *)
(***************************************************************************)
EXTENDS CommandWorker, ResultCache

CONSTANTS
  KeyOf,       \* the dedupe key of each invoke: its idempotencyKey, or its id
  Malformed,   \* the invokes whose paramsJSON does not parse
  Window,      \* DEDUPE_WINDOW
  HasWorker    \* CommandWorker.available: the firmware has threads

ASSUME NodeAssumption ==
  /\ Malformed \subseteq Commands
  /\ DOMAIN KeyOf = Commands
  /\ Window \in Nat
  /\ HasWorker \in BOOLEAN

VARIABLES
  main,        \* where the main loop is
  held,        \* its local cmd or done
  online,      \* WsNativeTransport.online
  pending,     \* _pending_cmds
  cache,       \* _result_cache and _result_cache_keys
  arrivals,    \* history: the invokes in the order their frames are read
  runs,        \* history: the invokes in the order their tools finish
  replies      \* history: the results enqueued, for whom and with which id

loop == <<main, held, online>>
history == <<arrivals, runs, replies>>
nvars == <<wvars, loop, pending, cache, history>>

Init ==
  /\ WInit
  /\ main = "top"
  /\ held = NoCmd
  /\ online = FALSE
  /\ pending = << >>
  /\ cache = EmptyCache
  /\ arrivals = << >>
  /\ runs = << >>
  /\ replies = << >>

Seen(s) == {s[j] : j \in DOMAIN s}
Reply(c, id) == [for |-> c, id |-> id]

(* The main loop is at a step of its own, not inside a call of the worker. *)
At(step) == main = step /\ caller.at = "ready"

Goto(step) == main' = step

-----------------------------------------------------------------------------
(* The session, as far as the command path sees it. *)

Reconnect ==
  /\ At("top") /\ ~online
  /\ online' = TRUE
  /\ Goto("tick")
  /\ UNCHANGED <<wvars, held, pending, cache, history>>

TopOnline ==
  /\ At("top") /\ online
  /\ Goto("tick")
  /\ UNCHANGED <<wvars, held, online, pending, cache, history>>

Flushing == \E step \in {"tick", "flush", "inlineFlush"} : At(step)
Reading == At("pump") \/ (At("receive") /\ pending = << >>)

(* flush_outbox closes the session itself and the iteration goes on. *)
BreakInFlush ==
  /\ Flushing /\ online
  /\ online' = FALSE
  /\ UNCHANGED <<wvars, main, held, pending, cache, history>>

(* recv_cmd raises: the loop closes the session, sleeps and starts again. *)
BreakInRead ==
  /\ Reading /\ online
  /\ online' = FALSE
  /\ Goto("top")
  /\ UNCHANGED <<wvars, held, pending, cache, history>>

(* An invoke: answered at once if its parameters do not parse, answered    *)
(* from the cache (with the request id cached) if its key is known, queued *)
(* otherwise.                                                              *)
Consume(c) ==
  /\ arrivals' = Append(arrivals, c)
  /\ \/ /\ c \in Malformed
        /\ replies' = Append(replies, Reply(c, c))
        /\ UNCHANGED pending
     \/ /\ c \notin Malformed /\ Known(cache, KeyOf[c])
        /\ replies' = Append(replies, Reply(c, cache.results[KeyOf[c]]))
        /\ UNCHANGED pending
     \/ /\ c \notin Malformed /\ ~Known(cache, KeyOf[c])
        /\ pending' = Append(pending, c)
        /\ UNCHANGED replies

(* The Gateway sends an invoke once; a retry is another invoke with the    *)
(* same key.  Frames are read by recv_cmd, and while an ack is awaited.    *)
ReadInvoke(c) ==
  /\ Flushing \/ Reading
  /\ online
  /\ c \notin Seen(arrivals)
  /\ Consume(c)
  /\ UNCHANGED <<wvars, loop, cache, runs>>

-----------------------------------------------------------------------------
(* One iteration of the loop. *)

EndTick ==
  /\ At("tick")
  /\ Goto(IF HasWorker THEN "poll" ELSE "receive")
  /\ UNCHANGED <<wvars, held, online, pending, cache, history>>

PollResult ==
  /\ At("poll")
  /\ Poll
  /\ held' = result
  /\ Goto(IF result # NoCmd THEN "reply" ELSE "accept")
  /\ UNCHANGED <<online, pending, cache, history>>

(* Mutant: the result is not cached. *)
NotCached == cache' = cache

CacheResult == cache' = Cached(cache, KeyOf[held], held, Window)

(* send_result, up to its flush: the result is cached and enqueued. *)
SendResult(step) ==
  /\ CacheResult
  /\ replies' = Append(replies, Reply(held, held))
  /\ held' = NoCmd
  /\ Goto(step)
  /\ UNCHANGED <<wvars, online, pending, arrivals, runs>>

ReplyPolled == At("reply") /\ SendResult("flush")
ReplyInline == At("inlineReply") /\ SendResult("inlineFlush")

EndFlush ==
  /\ \/ At("flush") /\ Goto("accept")
     \/ At("inlineFlush") /\ Goto("top")
  /\ UNCHANGED <<wvars, held, online, pending, cache, history>>

(* Mutant: the loop takes a command without asking the worker. *)
AcceptsAlways == main' = "receive"

Accepts == Goto(IF Free THEN "receive" ELSE "pump")

CanAccept ==
  /\ At("accept")
  /\ Accepts
  /\ UNCHANGED <<wvars, held, online, pending, cache, history>>

(* Mutants: the newest command is served first; the command stays queued;  *)
(* the whole queue is emptied for one command.                             *)
NewestFirst ==
  /\ held' = pending[Len(pending)]
  /\ pending' = SubSeq(pending, 1, Len(pending) - 1)
NotPopped == held' = Head(pending) /\ pending' = pending
PopsAll == held' = Head(pending) /\ pending' = << >>

PopPending == held' = Head(pending) /\ pending' = Tail(pending)

RecvCmd ==
  /\ At("receive") /\ pending # << >>
  /\ PopPending
  /\ Goto("submit")
  /\ UNCHANGED <<wvars, online, cache, history>>

(* Nothing came within READ_POLL_MS, or nothing may be consumed. *)
EndRead ==
  /\ Reading
  /\ Goto("top")
  /\ UNCHANGED <<wvars, held, online, pending, cache, history>>

SubmitHeld ==
  /\ At("submit") /\ HasWorker
  /\ Submit(held)
  /\ held' = NoCmd
  /\ Goto("top")
  /\ UNCHANGED <<online, pending, cache, history>>

(* Without a worker, or when it refuses, the loop executes the tool. *)
InlineStart ==
  /\ At("submit") /\ ~(HasWorker /\ Free)
  /\ inflight' = held
  /\ Goto("inlineRun")
  /\ UNCHANGED <<fields, thread, caller, busy, held, online, pending, cache, history>>

InlineFinish ==
  /\ At("inlineRun")
  /\ inflight' = NoCmd
  /\ runs' = Append(runs, held)
  /\ Goto("inlineReply")
  /\ UNCHANGED <<fields, thread, caller, busy, held, online, pending, cache,
                 arrivals, replies>>

-----------------------------------------------------------------------------
(* The worker thread, and the rest of a call the loop makes to the worker. *)

ToolReturns ==
  /\ HasWorker
  /\ Execute
  /\ runs' = Append(runs, thread.cmd)
  /\ UNCHANGED <<loop, pending, cache, arrivals, replies>>

ThreadMoves ==
  /\ HasWorker
  /\ Take \/ Store \/ NoteFinish \/ NoteThread
  /\ UNCHANGED <<loop, pending, cache, history>>

CallReturns ==
  /\ CallerNotes
  /\ UNCHANGED <<loop, pending, cache, history>>

LoopStep ==
  \/ Reconnect \/ TopOnline
  \/ EndTick \/ PollResult \/ ReplyPolled \/ EndFlush
  \/ CanAccept \/ RecvCmd \/ EndRead
  \/ SubmitHeld
  \/ InlineStart \/ ReplyInline
  \/ CallReturns

Next ==
  \/ LoopStep
  \/ InlineFinish
  \/ ToolReturns
  \/ ThreadMoves
  \/ BreakInFlush \/ BreakInRead
  \/ \E c \in Commands : ReadInvoke(c)

Spec == Init /\ [][Next]_nvars

(* The loop runs, reads end (READ_POLL_MS, ACK_TIMEOUT_MS) and connections *)
(* succeed in the end, but a tool may hang: nothing bounds its time.       *)
LoopSpec == Spec /\ WF_nvars(LoopStep) /\ WF_nvars(ThreadMoves)

-----------------------------------------------------------------------------
Steps == {"top", "tick", "poll", "reply", "flush", "accept", "receive", "submit",
          "pump", "inlineRun", "inlineReply", "inlineFlush"}

LoopTypeOK ==
  /\ main \in Steps
  /\ held \in Slots
  /\ held # NoCmd <=> main \in {"reply", "submit", "inlineRun", "inlineReply"}
  /\ online \in BOOLEAN
QueuesTypeOK ==
  /\ pending \in Seq(Commands)
  /\ arrivals \in Seq(Commands)
  /\ runs \in Seq(Commands)
  /\ replies \in Seq([for : Commands, id : Commands])
  /\ \A k \in DOMAIN cache.results : cache.results[k] \in Commands
NTypeOK == WTypeOK /\ LoopTypeOK /\ QueuesTypeOK

(* An invoke that was read is in exactly one place, whatever breaks: it is *)
(* queued, in the loop's hands, in the worker, or answered, and it is      *)
(* queued once and answered once.                                          *)
Queued(c) == c \in Seen(pending)
Answered(c) == \E r \in Seen(replies) : r.for = c
InPlace(c) == Queued(c) \/ held = c \/ Slot = c \/ Answered(c)
OnlyPlace(c) ==
  /\ Queued(c) => held # c /\ Slot # c /\ ~Answered(c)
  /\ held = c => Slot # c /\ ~Answered(c)
  /\ Slot = c => ~Answered(c)
NoRepeats ==
  /\ \A i, j \in DOMAIN pending : pending[i] = pending[j] => i = j
  /\ \A i, j \in DOMAIN replies : replies[i].for = replies[j].for => i = j
NoInvokeLost ==
  /\ \A c \in Commands : c \in Seen(arrivals) <=> InPlace(c)
  /\ \A c \in Commands : OnlyPlace(c)
  /\ NoRepeats

(* A result is only sent for a tool that ran, or for parameters that do    *)
(* not parse; a tool runs at most once for an invoke.                      *)
RunsOnce ==
  /\ \A i, j \in DOMAIN runs : runs[i] = runs[j] => i = j
  /\ \A r \in Seen(replies) : r.id \in Seen(runs) \cup Malformed

(* Tools run in the order in which their invokes are read.                 *)
InOrder ==
  \A i, j \in DOMAIN runs : \A m, n \in DOMAIN arrivals :
    i < j /\ arrivals[m] = runs[i] /\ arrivals[n] = runs[j] => m < n

(* No tool runs twice or out of order, whatever the sessions do meanwhile.  *)
RunsInOrder == RunsOnce /\ InOrder

(* The loop never runs a tool itself when it has a worker: the command it  *)
(* took from the queue is accepted.                                        *)
NeverInline == HasWorker => main # "inlineRun"

(* A cached result belongs to the key, was computed, and is still listed;  *)
(* the list is never longer than the window.                               *)
CacheBounded ==
  /\ Len(cache.keys) <= Window
  /\ DOMAIN cache.results \subseteq Seen(cache.keys)
CacheSound ==
  /\ CacheBounded
  /\ \A k \in DOMAIN cache.results :
       KeyOf[cache.results[k]] = k /\ cache.results[k] \in Seen(runs)

(* As long as nothing has left the window, a key that was answered is not  *)
(* queued for another execution.                                           *)
AnsweredKeys == {KeyOf[r.id] : r \in {q \in Seen(replies) : q.id \notin Malformed}}
ReplaysAnswered ==
  [][\A c \in Seen(pending') \ Seen(pending) :
       Len(runs) <= Window => KeyOf[c] \notin AnsweredKeys]_nvars

(* The command that has left the queue and whose tool has not ended, and   *)
(* the one whose tool has ended and whose result is not sent yet.          *)
Unrun == IF main \in {"submit", "inlineRun"} THEN held
         ELSE IF pendingCmd # NoCmd THEN pendingCmd
         ELSE IF thread.at = "execute" THEN thread.cmd ELSE NoCmd
Unreplied == IF main \in {"reply", "inlineReply"} THEN held
             ELSE IF thread.at = "store" THEN thread.cmd ELSE result
Waiting == IF Unrun = NoCmd THEN pending ELSE <<Unrun>> \o pending

(* To the Gateway the node is a service that runs one tool after the other *)
(* in the order of arrival and replies once to each invoke, whatever the   *)
(* session, the two threads and the window of the cache do meanwhile.      *)
Service == INSTANCE InvokeService WITH waiting <- Waiting, ran <- Unreplied
KeepsService == Service!ServiceSpec

(* Every invoke that is read is answered, as long as no tool hangs.        *)
ToolsReturn == WF_nvars(ToolReturns) /\ WF_nvars(InlineFinish)
EveryInvokeAnswered ==
  ToolsReturn => \A c \in Commands : c \in Seen(arrivals) ~> Answered(c)

(* docs/validation/72h-soak-P0: while a long command executes, the loop    *)
(* goes on ticking, receiving and flushing, even if the tool never ends.   *)
LoopKeepsTurning == []<>(main = "top")

(* docs/design/05: a repeated command is not executed again.               *)
DuplicateNotReexecuted ==
  \A i, j \in DOMAIN runs : i # j => KeyOf[runs[i]] # KeyOf[runs[j]]
=============================================================================
