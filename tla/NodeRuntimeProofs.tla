-------------------------- MODULE NodeRuntimeProofs --------------------------
(***************************************************************************)
(* Theorems about NodeRuntime, for every set of invokes, every window, and *)
(* firmwares with and without threads: its types, that no invoke is lost   *)
(* or answered twice, that tools run once and in the order of arrival,     *)
(* that the main loop never executes a tool beside its worker, that the    *)
(* cache is bounded, tells the truth and replays what was answered, and    *)
(* that the node implements InvokeService.                                 *)
(***************************************************************************)
EXTENDS NodeRuntime, CommandWorkerProofs, SequenceTheorems

(* Every step of the node is a step of its worker, or leaves all but the   *)
(* inflight status of the worker alone.                                    *)
LEMMA NodeStepsWorker ==
  ASSUME LoopTypeOK, Next
  PROVE \/ WNext
        \/ UNCHANGED wvars
        \/ (InlineStart \/ InlineFinish) /\ UNCHANGED <<fields, thread, caller, busy>>
<1> USE DEF wvars
<1>1. CASE InlineStart \/ InlineFinish
  BY <1>1 DEF InlineStart, InlineFinish
<1>2. CASE Reconnect \/ TopOnline \/ EndTick \/ EndFlush \/ CanAccept \/ RecvCmd \/ EndRead
           \/ BreakInFlush \/ BreakInRead
  BY <1>2 DEF Reconnect, TopOnline, EndTick, EndFlush, CanAccept, RecvCmd, EndRead,
       BreakInFlush, BreakInRead
<1>3. CASE ReplyPolled \/ ReplyInline
  BY <1>3 DEF ReplyPolled, ReplyInline, SendResult
<1>4. ASSUME NEW c \in Commands, ReadInvoke(c) PROVE UNCHANGED wvars
  BY <1>4 DEF ReadInvoke
<1>5. CASE PollResult
  BY <1>5 DEF PollResult, WNext
<1>6. CASE CallReturns
  BY <1>6 DEF CallReturns, WNext
<1>7. CASE ToolReturns \/ ThreadMoves
  BY <1>7 DEF ToolReturns, ThreadMoves, WNext, ThreadStep
<1>8. CASE SubmitHeld
  <2>1. held \in Commands
    BY <1>8 DEF SubmitHeld, At, LoopTypeOK, Slots
  <2>2. QED
    BY <1>8, <2>1 DEF SubmitHeld, WNext
<1>9. QED
  BY <1>1, <1>2, <1>3, <1>4, <1>5, <1>6, <1>7, <1>8 DEF Next, LoopStep

LEMMA WorkerTypeStep ==
  ASSUME WTypeOK, LoopTypeOK, [Next]_nvars
  PROVE WTypeOK'
<1>1. CASE WNext \/ UNCHANGED wvars
  BY <1>1, WTypingStep
<1>2. CASE (InlineStart \/ InlineFinish) /\ UNCHANGED <<fields, thread, caller, busy>>
  <2>1. inflight' \in Slots
    BY <1>2 DEF InlineStart, InlineFinish, LoopTypeOK, Slots
  <2>2. QED
    BY <1>2, <2>1 DEF WTypeOK, fields, Slots
<1>3. CASE UNCHANGED nvars
  BY <1>3, WTypingStep DEF nvars
<1>4. QED
  BY <1>1, <1>2, <1>3, NodeStepsWorker

(* The local variables of the loop. *)
LEMMA LoopTypeStep ==
  ASSUME WTypeOK, LoopTypeOK, QueuesTypeOK, [Next]_nvars
  PROVE LoopTypeOK'
<1> USE CommandAssumption DEF LoopTypeOK, Steps, At, Goto, loop
<1>1. CASE Reconnect \/ TopOnline \/ EndTick \/ EndFlush \/ CanAccept \/ EndRead
  BY <1>1 DEF Reconnect, TopOnline, EndTick, EndFlush, CanAccept, Accepts, EndRead, Reading
<1>2. CASE BreakInFlush \/ BreakInRead
  BY <1>2 DEF BreakInFlush, BreakInRead, Flushing, Reading
<1>3. CASE ReplyPolled \/ ReplyInline
  BY <1>3 DEF ReplyPolled, ReplyInline, SendResult, Slots
<1>4. ASSUME NEW c \in Commands, ReadInvoke(c) PROVE LoopTypeOK'
  BY <1>4 DEF ReadInvoke
<1>5. CASE PollResult
  BY <1>5 DEF PollResult, WTypeOK
<1>6. CASE RecvCmd
  <2>1. held' \in Commands
    BY <1>6 DEF RecvCmd, PopPending, QueuesTypeOK
  <2>2. QED
    BY <1>6, <2>1 DEF RecvCmd, Slots
<1>7. CASE SubmitHeld
  BY <1>7 DEF SubmitHeld, Slots
<1>8. CASE InlineStart \/ InlineFinish
  BY <1>8 DEF InlineStart, InlineFinish
<1>9. CASE CallReturns \/ ToolReturns \/ ThreadMoves
  BY <1>9 DEF CallReturns, ToolReturns, ThreadMoves
<1>10. CASE UNCHANGED nvars
  BY <1>10 DEF nvars
<1>11. QED
  BY <1>1, <1>2, <1>3, <1>4, <1>5, <1>6, <1>7, <1>8, <1>9, <1>10 DEF Next, LoopStep

(* A result put in the cache keeps its values among the commands. *)
LEMMA CachedValues ==
  ASSUME NEW c0, NEW key, NEW value \in Commands, NEW w,
         \A k \in DOMAIN c0.results : c0.results[k] \in Commands
  PROVE \A k \in DOMAIN Cached(c0, key, value, w).results :
          Cached(c0, key, value, w).results[k] \in Commands
  BY DEF Cached, Trimmed, Put

LEMMA AppendTyped ==
  ASSUME NEW S, NEW s \in Seq(S), NEW x \in S
  PROVE Append(s, x) \in Seq(S)
  OBVIOUS

(* The queues and the histories. *)
LEMMA QueuesTypeStep ==
  ASSUME WTypeOK, LoopTypeOK, QueuesTypeOK, [Next]_nvars
  PROVE QueuesTypeOK'
<1> USE DEF QueuesTypeOK, history
<1>1. CASE Reconnect \/ TopOnline \/ EndTick \/ EndFlush \/ CanAccept \/ EndRead
           \/ BreakInFlush \/ BreakInRead \/ PollResult \/ SubmitHeld \/ InlineStart
           \/ CallReturns \/ ThreadMoves
  BY <1>1 DEF Reconnect, TopOnline, EndTick, EndFlush, CanAccept, EndRead, BreakInFlush,
       BreakInRead, PollResult, SubmitHeld, InlineStart, CallReturns, ThreadMoves
<1>2. CASE ReplyPolled \/ ReplyInline
  <2>1. held \in Commands
    BY <1>2 DEF ReplyPolled, ReplyInline, At, LoopTypeOK, Slots
  <2>2. Reply(held, held) \in [for : Commands, id : Commands]
    BY <2>1 DEF Reply
  <2>3. \A k \in DOMAIN cache'.results : cache'.results[k] \in Commands
    BY <1>2, <2>1, CachedValues DEF ReplyPolled, ReplyInline, SendResult, CacheResult
  <2>4. Append(replies, Reply(held, held)) \in Seq([for : Commands, id : Commands])
    BY <2>2, AppendTyped
  <2>5. QED
    BY <1>2, <2>3, <2>4 DEF ReplyPolled, ReplyInline, SendResult
<1>3. ASSUME NEW c \in Commands, ReadInvoke(c) PROVE QueuesTypeOK'
  <2>1. Reply(c, c) \in [for : Commands, id : Commands]
    BY DEF Reply
  <2>2. ASSUME Known(cache, KeyOf[c])
        PROVE Reply(c, cache.results[KeyOf[c]]) \in [for : Commands, id : Commands]
    BY <2>2 DEF Known, Reply
  <2>3. /\ Append(replies, Reply(c, c)) \in Seq([for : Commands, id : Commands])
        /\ Append(arrivals, c) \in Seq(Commands)
        /\ Append(pending, c) \in Seq(Commands)
    BY <2>1, AppendTyped
  <2>4. ASSUME Known(cache, KeyOf[c])
        PROVE Append(replies, Reply(c, cache.results[KeyOf[c]]))
                \in Seq([for : Commands, id : Commands])
    BY <2>2, <2>4, AppendTyped
  <2>5. QED
    BY <1>3, <2>3, <2>4 DEF ReadInvoke, Consume
<1>4. CASE RecvCmd
  BY <1>4 DEF RecvCmd, PopPending
<1>5. CASE InlineFinish
  <2>1. held \in Commands
    BY <1>5 DEF InlineFinish, At, LoopTypeOK, Slots
  <2>2. QED
    BY <1>5, <2>1 DEF InlineFinish
<1>6. CASE ToolReturns
  <2>1. thread.cmd \in Commands
    BY <1>6 DEF ToolReturns, Execute, WTypeOK
  <2>2. QED
    BY <1>6, <2>1 DEF ToolReturns
<1>7. CASE UNCHANGED nvars
  BY <1>7 DEF nvars
<1>8. QED
  BY <1>1, <1>2, <1>3, <1>4, <1>5, <1>6, <1>7 DEF Next, LoopStep

(* The worker, the loop's local variables, the queues and the cache keep   *)
(* their types, and the loop holds a command just where run() has one.     *)
THEOREM NTyping == Spec => []NTypeOK
<1>1. Init => NTypeOK
  <2> SUFFICES ASSUME Init PROVE NTypeOK
    OBVIOUS
  <2>1. WTypeOK
    BY WTypingInit DEF Init
  <2>2. LoopTypeOK
    BY DEF Init, LoopTypeOK, Steps, Slots
  <2>3. QueuesTypeOK
    BY DEF Init, QueuesTypeOK, EmptyCache
  <2>4. QED
    BY <2>1, <2>2, <2>3 DEF NTypeOK
<1>2. NTypeOK /\ [Next]_nvars => NTypeOK'
  BY WorkerTypeStep, LoopTypeStep, QueuesTypeStep DEF NTypeOK
<1>3. QED
  BY <1>1, <1>2, PTL DEF Spec

-----------------------------------------------------------------------------
(* The worker holds one command. *)
LEMMA WorkerOneCommandStep ==
  ASSUME WTypeOK, OneCommand, LoopTypeOK, [Next]_nvars
  PROVE OneCommand'
<1>1. CASE WNext \/ UNCHANGED wvars
  BY <1>1, OneCommandStep
<1>2. CASE UNCHANGED <<fields, thread, caller, busy>>
  BY <1>2 DEF OneCommand, fields
<1>3. CASE UNCHANGED nvars
  BY <1>3, OneCommandStep DEF nvars
<1>4. QED
  BY <1>1, <1>2, <1>3, NodeStepsWorker

(* What the loop found free stays free until it submits. *)
FreeWhileReceiving ==
  HasWorker => /\ main # "inlineRun"
               /\ main \in {"receive", "submit"} => Free

LEMMA FreeStep ==
  ASSUME WTypeOK, OneCommand, FreeWhileReceiving, [Next]_nvars
  PROVE FreeWhileReceiving'
<1> USE DEF FreeWhileReceiving, Free, At, Goto, loop
<1>1. CASE Reconnect \/ TopOnline \/ EndTick \/ EndFlush \/ CanAccept \/ EndRead
           \/ BreakInFlush \/ BreakInRead \/ RecvCmd
  BY <1>1 DEF Reconnect, TopOnline, EndTick, EndFlush, CanAccept, Accepts, EndRead,
       BreakInFlush, BreakInRead, Flushing, Reading, RecvCmd, wvars
<1>2. CASE ReplyPolled \/ ReplyInline
  BY <1>2 DEF ReplyPolled, ReplyInline, SendResult
<1>3. ASSUME NEW c \in Commands, ReadInvoke(c) PROVE FreeWhileReceiving'
  BY <1>3 DEF ReadInvoke, wvars
<1>4. CASE PollResult
  BY <1>4 DEF PollResult
<1>5. CASE SubmitHeld \/ InlineStart \/ InlineFinish
  BY <1>5 DEF SubmitHeld, InlineStart, InlineFinish
<1>6. CASE CallReturns
  BY <1>6 DEF CallReturns, CallerNotes, NoteStart, NoteCaller, fields
<1>7. CASE ToolReturns
  BY <1>7 DEF ToolReturns, Execute, fields
<1>8. CASE ThreadMoves
  BY <1>8 DEF ThreadMoves, Take, Store, NoteFinish, NoteThread, OneCommand, fields
<1>9. CASE UNCHANGED nvars
  BY <1>9 DEF nvars, wvars
<1>10. QED
  BY <1>1, <1>2, <1>3, <1>4, <1>5, <1>6, <1>7, <1>8, <1>9 DEF Next, LoopStep

LEMMA OneAtATimeInNode == Spec => []OneCommand
<1>1. Init => OneCommand
  BY DEF Init, WInit, OneCommand, Ready, Frame
<1>2. NTypeOK /\ OneCommand /\ [Next]_nvars => OneCommand'
  BY WorkerOneCommandStep DEF NTypeOK
<1>3. QED
  BY <1>1, <1>2, NTyping, PTL DEF Spec

(* The command that the loop takes from the queue is always accepted, so   *)
(* that no tool ever runs on the main loop of a firmware with threads      *)
(* (agent.py, 128-135).                                                    *)
THEOREM LoopNeverRunsTools == Spec => []NeverInline
<1>1. Init => FreeWhileReceiving
  BY DEF Init, FreeWhileReceiving
<1>2. NTypeOK /\ OneCommand /\ FreeWhileReceiving /\ [Next]_nvars => FreeWhileReceiving'
  BY FreeStep DEF NTypeOK
<1>3. FreeWhileReceiving => NeverInline
  BY DEF FreeWhileReceiving, NeverInline
<1>4. QED
  BY <1>1, <1>2, <1>3, NTyping, OneAtATimeInNode, PTL DEF Spec

-----------------------------------------------------------------------------
(* What appending and popping do to the elements of a queue. *)
LEMMA SeenAppend ==
  ASSUME NEW S, NEW s \in Seq(S), NEW x \in S
  PROVE Seen(Append(s, x)) = Seen(s) \cup {x}
<1> DEFINE t == Append(s, x)
<1>1. /\ DOMAIN t = 1..(Len(s) + 1)
      /\ DOMAIN s = 1..Len(s)
      /\ Len(s) \in Nat
      /\ t[Len(s) + 1] = x
      /\ \A j \in 1..Len(s) : t[j] = s[j]
  OBVIOUS
<1>2. ASSUME NEW y \in Seen(t) PROVE y \in Seen(s) \cup {x}
  <2>1. PICK j \in DOMAIN t : y = t[j]
    BY <1>2 DEF Seen
  <2>2. CASE j = Len(s) + 1
    BY <1>1, <2>1, <2>2
  <2>3. CASE j \in 1..Len(s)
    BY <1>1, <2>1, <2>3 DEF Seen
  <2>4. QED
    BY <1>1, <2>2, <2>3
<1>3. ASSUME NEW y \in Seen(s) PROVE y \in Seen(t)
  <2>1. PICK j \in DOMAIN s : y = s[j]
    BY <1>3 DEF Seen
  <2>2. j \in DOMAIN t /\ t[j] = y
    BY <1>1, <2>1
  <2>3. QED
    BY <2>2 DEF Seen
<1>4. x \in Seen(t)
  <2>1. Len(s) + 1 \in DOMAIN t /\ t[Len(s) + 1] = x
    BY <1>1
  <2>2. QED
    BY <2>1 DEF Seen
<1>5. Seen(t) = Seen(s) \cup {x}
  BY <1>2, <1>3, <1>4
<1>6. QED
  BY <1>5

(* A queue without repetition: its head leaves and is not seen again.      *)
LEMMA SeenTail ==
  ASSUME NEW S, NEW s \in Seq(S), s # << >>,
         \A i, j \in DOMAIN s : s[i] = s[j] => i = j
  PROVE /\ Seen(s) = Seen(Tail(s)) \cup {Head(s)}
        /\ Head(s) \notin Seen(Tail(s))
        /\ \A i, j \in DOMAIN Tail(s) : Tail(s)[i] = Tail(s)[j] => i = j
<1> DEFINE t == Tail(s)
<1>1. /\ DOMAIN t = 1..(Len(s) - 1)
      /\ DOMAIN s = 1..Len(s)
      /\ Len(s) \in Nat /\ Len(s) > 0
      /\ Head(s) = s[1]
      /\ \A j \in DOMAIN t : t[j] = s[j + 1] /\ j + 1 \in DOMAIN s
  OBVIOUS
<1>2. ASSUME NEW y \in Seen(s) PROVE y = Head(s) \/ y \in Seen(t)
  <2>1. PICK j \in DOMAIN s : y = s[j]
    BY <1>2 DEF Seen
  <2>2. CASE j = 1
    BY <1>1, <2>1, <2>2
  <2>3. CASE j # 1
    <3>1. j - 1 \in DOMAIN t /\ (j - 1) + 1 = j
      BY <1>1, <2>1, <2>3
    <3>2. t[j - 1] = y
      BY <1>1, <2>1, <3>1
    <3>3. QED
      BY <3>1, <3>2 DEF Seen
  <2>4. QED
    BY <2>2, <2>3
<1>3. ASSUME NEW y \in Seen(t) PROVE y \in Seen(s) /\ y # Head(s)
  <2>1. PICK j \in DOMAIN t : y = t[j]
    BY <1>3 DEF Seen
  <2>2. y = s[j + 1] /\ j + 1 \in DOMAIN s /\ 1 \in DOMAIN s /\ j + 1 # 1
    BY <1>1, <2>1
  <2>3. QED
    BY <1>1, <2>2 DEF Seen
<1>4. Head(s) \in Seen(s)
  <2>1. 1 \in DOMAIN s
    BY <1>1
  <2>2. QED
    BY <1>1, <2>1 DEF Seen
<1>5. \A i, j \in DOMAIN t : t[i] = t[j] => i = j
  <2> SUFFICES ASSUME NEW i \in DOMAIN t, NEW j \in DOMAIN t, t[i] = t[j] PROVE i = j
    OBVIOUS
  <2>1. i + 1 = j + 1
    BY <1>1
  <2>2. QED
    BY <1>1, <2>1
<1>6. Seen(s) = Seen(t) \cup {Head(s)} /\ Head(s) \notin Seen(t)
  BY <1>2, <1>3, <1>4
<1>7. QED
  BY <1>5, <1>6

LEMMA AppendNoRepeats ==
  ASSUME NEW S, NEW s \in Seq(S), NEW x \in S, x \notin Seen(s),
         \A i, j \in DOMAIN s : s[i] = s[j] => i = j
  PROVE \A i, j \in DOMAIN Append(s, x) : Append(s, x)[i] = Append(s, x)[j] => i = j
<1> DEFINE t == Append(s, x)
<1>1. /\ DOMAIN t = 1..(Len(s) + 1)
      /\ DOMAIN s = 1..Len(s)
      /\ Len(s) \in Nat
      /\ t[Len(s) + 1] = x
      /\ \A j \in 1..Len(s) : t[j] = s[j]
  OBVIOUS
<1>2. \A j \in 1..Len(s) : t[j] # x
  BY <1>1 DEF Seen
<1>3. ASSUME NEW i \in DOMAIN t, NEW j \in DOMAIN t, t[i] = t[j] PROVE i = j
  BY <1>1, <1>2, <1>3
<1>4. QED
  BY <1>3

(* What a reply enqueued for an invoke adds to those answered. *)
LEMMA AnswerAdded ==
  ASSUME QueuesTypeOK, NEW c \in Commands, NEW id \in Commands,
         replies' = Append(replies, Reply(c, id))
  PROVE \A d \in Commands : Answered(d)' <=> Answered(d) \/ d = c
<1>1. Reply(c, id) \in [for : Commands, id : Commands] /\ Reply(c, id).for = c
  BY DEF Reply
<1>2. Seen(replies)' = Seen(replies) \cup {Reply(c, id)}
  <2> DEFINE R == [for : Commands, id : Commands]
  <2>1. replies \in Seq(R) /\ Reply(c, id) \in R
    BY <1>1 DEF QueuesTypeOK
  <2> HIDE DEF R
  <2>2. Seen(Append(replies, Reply(c, id))) = Seen(replies) \cup {Reply(c, id)}
    BY <2>1, SeenAppend
  <2>3. QED
    BY <2>2 DEF Seen
<1>3. QED
  BY <1>1, <1>2 DEF Answered

LEMMA AnswerNoRepeats ==
  ASSUME QueuesTypeOK, NEW c \in Commands, NEW id \in Commands, ~Answered(c),
         replies' = Append(replies, Reply(c, id)),
         \A i, j \in DOMAIN replies : replies[i].for = replies[j].for => i = j
  PROVE \A i, j \in DOMAIN replies' : replies'[i].for = replies'[j].for => i = j
<1>1. Reply(c, id).for = c
  BY DEF Reply
<1>2. replies \in Seq([for : Commands, id : Commands])
  BY DEF QueuesTypeOK
<1>3. /\ DOMAIN replies' = 1..(Len(replies) + 1)
      /\ DOMAIN replies = 1..Len(replies)
      /\ Len(replies) \in Nat
  BY <1>2
<1>4. replies'[Len(replies) + 1].for = c
  BY <1>1, <1>2
<1>5. \A j \in 1..Len(replies) : replies'[j] = replies[j]
  BY <1>2
<1>6. \A j \in 1..Len(replies) : replies'[j].for # c
  BY <1>3, <1>5 DEF Answered, Seen
<1>7. ASSUME NEW i \in DOMAIN replies', NEW j \in DOMAIN replies',
             replies'[i].for = replies'[j].for
      PROVE i = j
  BY <1>3, <1>4, <1>5, <1>6, <1>7
<1>8. QED
  BY <1>7

(* The command in the worker: what each step of the node does to it.       *)
LEMMA SlotPolled ==
  ASSUME OneCommand, PollResult
  PROVE IF result = NoCmd THEN Slot' = Slot ELSE Slot = result /\ Slot' = NoCmd
<1>1. /\ result' = NoCmd
      /\ UNCHANGED <<pendingCmd, executing, thread>>
  BY DEF PollResult, Poll
<1>2. result # NoCmd => ~executing /\ pendingCmd = NoCmd
  BY DEF OneCommand
<1>3. QED
  BY <1>1, <1>2 DEF Slot

LEMMA SlotFilled ==
  ASSUME CommandAssumption, SubmitHeld
  PROVE Slot = NoCmd /\ Slot' = held
  BY DEF SubmitHeld, Submit, Free, Slot

LEMMA SlotKept ==
  ASSUME WTypeOK, OneCommand, CallReturns \/ ToolReturns \/ ThreadMoves
  PROVE Slot' = Slot
<1> USE CommandAssumption DEF Slot, fields, status
<1>1. CASE CallReturns
  BY <1>1 DEF CallReturns, CallerNotes, NoteStart, NoteCaller
<1>2. CASE ToolReturns
  BY <1>2 DEF ToolReturns, Execute, OneCommand
<1>3. CASE ThreadMoves
  <2>1. CASE Take
    BY <2>1 DEF Take, Frame
  <2>2. CASE Store
    BY <2>2 DEF Store, OneCommand, WTypeOK, Slots
  <2>3. CASE NoteFinish \/ NoteThread
    BY <2>3 DEF NoteFinish, NoteThread, Ready, Frame, OneCommand
  <2>4. QED
    BY <1>3, <2>1, <2>2, <2>3 DEF ThreadMoves
<1>4. QED
  BY <1>1, <1>2, <1>3

(* A step that moves no command leaves every command in its place. *)
LEMMA PlacesKept ==
  ASSUME NoInvokeLost, UNCHANGED <<pending, held, replies, arrivals>>, Slot' = Slot
  PROVE NoInvokeLost'
  BY DEF NoInvokeLost, InPlace, OnlyPlace, Queued, Answered, NoRepeats, Seen

LEMMA PolledKeepsPlaces ==
  ASSUME WTypeOK, OneCommand, LoopTypeOK, NoInvokeLost, PollResult
  PROVE NoInvokeLost'
<1> USE CommandAssumption
<1>1. /\ held = NoCmd /\ held' = result
      /\ UNCHANGED <<pending, replies, arrivals>>
  BY DEF PollResult, At, LoopTypeOK, history
<1>2. CASE result = NoCmd
  BY <1>1, <1>2, SlotPolled, PlacesKept
<1>3. CASE result # NoCmd
  <2>1. Slot = held' /\ Slot' = NoCmd
    BY <1>1, <1>3, SlotPolled
  <2>2. UNCHANGED NoRepeats
    BY <1>1 DEF NoRepeats
  <2>3. \A c \in Commands :
          /\ Queued(c)' <=> Queued(c)
          /\ Answered(c)' <=> Answered(c)
          /\ c \in Seen(arrivals') <=> c \in Seen(arrivals)
    BY <1>1 DEF Queued, Answered, Seen
  <2>4. \A c \in Commands : c # NoCmd
    OBVIOUS
  <2>5. ASSUME NEW c \in Commands PROVE InPlace(c)' <=> InPlace(c)
    BY <1>1, <2>1, <2>3, <2>4 DEF InPlace
  <2>6. ASSUME NEW c \in Commands PROVE OnlyPlace(c)'
    BY <1>1, <2>1, <2>3, <2>4 DEF OnlyPlace, NoInvokeLost
  <2>7. QED
    BY <2>2, <2>3, <2>5, <2>6 DEF NoInvokeLost
<1>4. QED
  BY <1>2, <1>3

LEMMA SubmitKeepsPlaces ==
  ASSUME WTypeOK, LoopTypeOK, NoInvokeLost, SubmitHeld
  PROVE NoInvokeLost'
<1> USE CommandAssumption
<1>1. /\ held' = NoCmd /\ Slot = NoCmd /\ Slot' = held
      /\ UNCHANGED <<pending, replies, arrivals>>
  BY SlotFilled DEF SubmitHeld, history
<1>2. UNCHANGED NoRepeats
  BY <1>1 DEF NoRepeats
<1>3. \A c \in Commands :
        /\ Queued(c)' <=> Queued(c)
        /\ Answered(c)' <=> Answered(c)
        /\ c \in Seen(arrivals') <=> c \in Seen(arrivals)
        /\ c # NoCmd
  BY <1>1 DEF Queued, Answered, Seen
<1>4. ASSUME NEW c \in Commands PROVE InPlace(c)' <=> InPlace(c)
  BY <1>1, <1>3 DEF InPlace
<1>5. ASSUME NEW c \in Commands PROVE OnlyPlace(c)'
  BY <1>1, <1>3 DEF OnlyPlace, NoInvokeLost
<1>6. QED
  BY <1>2, <1>3, <1>4, <1>5 DEF NoInvokeLost

LEMMA RecvKeepsPlaces ==
  ASSUME WTypeOK, LoopTypeOK, QueuesTypeOK, NoInvokeLost, RecvCmd
  PROVE NoInvokeLost'
<1> USE CommandAssumption
<1>1. /\ pending \in Seq(Commands) /\ pending # << >>
      /\ \A i, j \in DOMAIN pending : pending[i] = pending[j] => i = j
  BY DEF RecvCmd, QueuesTypeOK, NoInvokeLost, NoRepeats
<1>2. /\ held = NoCmd /\ held' = Head(pending) /\ pending' = Tail(pending)
      /\ UNCHANGED <<replies, arrivals, wvars>>
  BY DEF RecvCmd, At, LoopTypeOK, PopPending, history
<1>3. Slot' = Slot
  BY <1>2 DEF wvars, Slot
<1>4. /\ Seen(pending) = Seen(pending') \cup {held'}
      /\ held' \notin Seen(pending')
      /\ \A i, j \in DOMAIN pending' : pending'[i] = pending'[j] => i = j
  BY <1>1, <1>2, SeenTail
<1>5. NoRepeats'
  BY <1>2, <1>4 DEF NoRepeats, NoInvokeLost
<1>6. \A c \in Commands :
        /\ Queued(c) <=> Queued(c)' \/ c = held'
        /\ Queued(c)' => c # held'
        /\ Answered(c)' <=> Answered(c)
        /\ c \in Seen(arrivals') <=> c \in Seen(arrivals)
        /\ c # NoCmd
  BY <1>2, <1>4 DEF Queued, Answered, Seen
<1>7. ASSUME NEW c \in Commands PROVE InPlace(c)' <=> InPlace(c)
  BY <1>2, <1>3, <1>6 DEF InPlace
<1>8. ASSUME NEW c \in Commands PROVE OnlyPlace(c)'
  BY <1>2, <1>3, <1>6 DEF OnlyPlace, NoInvokeLost
<1>9. QED
  BY <1>5, <1>6, <1>7, <1>8 DEF NoInvokeLost

(* send_result: the command leaves the loop's hands and is answered. *)
LEMMA SendKeepsPlaces ==
  ASSUME WTypeOK, LoopTypeOK, QueuesTypeOK, NoInvokeLost, ReplyPolled \/ ReplyInline
  PROVE NoInvokeLost'
<1> USE CommandAssumption
<1>1. /\ held \in Commands /\ held' = NoCmd
      /\ replies' = Append(replies, Reply(held, held))
      /\ UNCHANGED <<pending, arrivals, wvars>>
  BY DEF ReplyPolled, ReplyInline, SendResult, At, LoopTypeOK, Slots
<1>2. Slot' = Slot
  BY <1>1 DEF wvars, Slot
<1>3. \A c \in Commands : Answered(c)' <=> Answered(c) \/ c = held
  BY <1>1, AnswerAdded
<1>4. ~Answered(held)
  BY <1>1 DEF NoInvokeLost, OnlyPlace
<1>5. NoRepeats'
  BY <1>1, <1>4, AnswerNoRepeats DEF NoRepeats, NoInvokeLost
<1>6. \A c \in Commands :
        /\ Queued(c)' <=> Queued(c)
        /\ c \in Seen(arrivals') <=> c \in Seen(arrivals)
        /\ c # NoCmd
  BY <1>1 DEF Queued, Seen
<1>7. ASSUME NEW c \in Commands PROVE InPlace(c)' <=> InPlace(c)
  BY <1>1, <1>2, <1>3, <1>6 DEF InPlace
<1>8. ASSUME NEW c \in Commands PROVE OnlyPlace(c)'
  BY <1>1, <1>2, <1>3, <1>6 DEF OnlyPlace, NoInvokeLost
<1>9. QED
  BY <1>5, <1>6, <1>7, <1>8 DEF NoInvokeLost

(* A new invoke is queued or answered, and was nowhere before. *)
LEMMA ReadKeepsPlaces ==
  ASSUME WTypeOK, LoopTypeOK, QueuesTypeOK, NoInvokeLost,
         NEW n \in Commands, ReadInvoke(n)
  PROVE NoInvokeLost'
<1> USE CommandAssumption
<1>1. /\ arrivals' = Append(arrivals, n) /\ n \notin Seen(arrivals)
      /\ UNCHANGED <<held, wvars>>
  BY DEF ReadInvoke, Consume, loop
<1>2. Slot' = Slot
  BY <1>1 DEF wvars, Slot
<1>3. ~Queued(n) /\ held # n /\ Slot # n /\ ~Answered(n)
  BY <1>1 DEF NoInvokeLost, InPlace
<1>4. \A c \in Commands : c \in Seen(arrivals') <=> c \in Seen(arrivals) \/ c = n
  BY <1>1, SeenAppend DEF QueuesTypeOK
<1>5. ASSUME NEW id \in Commands, replies' = Append(replies, Reply(n, id)), pending' = pending
      PROVE NoInvokeLost'
  <2>1. \A c \in Commands : Answered(c)' <=> Answered(c) \/ c = n
    BY <1>5, AnswerAdded
  <2>2. NoRepeats'
    BY <1>3, <1>5, AnswerNoRepeats DEF NoRepeats, NoInvokeLost
  <2>3. \A c \in Commands : Queued(c)' <=> Queued(c)
    BY <1>5 DEF Queued, Seen
  <2>4. ASSUME NEW c \in Commands PROVE InPlace(c)' <=> InPlace(c) \/ c = n
    BY <1>1, <1>2, <2>1, <2>3 DEF InPlace
  <2>5. ASSUME NEW c \in Commands PROVE OnlyPlace(c)'
    BY <1>1, <1>2, <1>3, <2>1, <2>3 DEF OnlyPlace, NoInvokeLost
  <2>6. QED
    BY <1>4, <2>2, <2>4, <2>5 DEF NoInvokeLost
<1>6. ASSUME pending' = Append(pending, n), replies' = replies
      PROVE NoInvokeLost'
  <2>1. \A c \in Commands : Queued(c)' <=> Queued(c) \/ c = n
    BY <1>6, SeenAppend DEF QueuesTypeOK, Queued
  <2>2. NoRepeats'
    <3>1. n \notin Seen(pending)
      BY <1>3 DEF Queued
    <3>2. QED
      BY <1>6, <3>1, AppendNoRepeats DEF NoRepeats, NoInvokeLost, QueuesTypeOK
  <2>3. \A c \in Commands : Answered(c)' <=> Answered(c)
    BY <1>6 DEF Answered, Seen
  <2>4. ASSUME NEW c \in Commands PROVE InPlace(c)' <=> InPlace(c) \/ c = n
    BY <1>1, <1>2, <2>1, <2>3 DEF InPlace
  <2>5. ASSUME NEW c \in Commands PROVE OnlyPlace(c)'
    BY <1>1, <1>2, <1>3, <2>1, <2>3 DEF OnlyPlace, NoInvokeLost
  <2>6. QED
    BY <1>4, <2>2, <2>4, <2>5 DEF NoInvokeLost
<1>7. Known(cache, KeyOf[n]) => cache.results[KeyOf[n]] \in Commands
  BY DEF Known, QueuesTypeOK
<1>8. QED
  BY <1>5, <1>6, <1>7 DEF ReadInvoke, Consume

LEMMA PlacesStep ==
  ASSUME NTypeOK, OneCommand, NoInvokeLost, [Next]_nvars
  PROVE NoInvokeLost'
<1> USE DEF NTypeOK
<1>1. CASE Reconnect \/ TopOnline \/ EndTick \/ EndFlush \/ CanAccept \/ EndRead
           \/ BreakInFlush \/ BreakInRead
  <2>1. UNCHANGED <<pending, held, replies, arrivals, wvars>>
    BY <1>1 DEF Reconnect, TopOnline, EndTick, EndFlush, CanAccept, EndRead,
         BreakInFlush, BreakInRead, history
  <2>2. QED
    BY <2>1, PlacesKept DEF wvars, Slot
<1>2. CASE InlineStart \/ InlineFinish
  <2>1. UNCHANGED <<pending, held, replies, arrivals, fields, thread>>
    BY <1>2 DEF InlineStart, InlineFinish, history
  <2>2. QED
    BY <2>1, PlacesKept DEF fields, Slot
<1>3. CASE CallReturns \/ ToolReturns \/ ThreadMoves
  <2>1. UNCHANGED <<pending, held, replies, arrivals>>
    BY <1>3 DEF CallReturns, ToolReturns, ThreadMoves, loop, history
  <2>2. QED
    BY <1>3, <2>1, PlacesKept, SlotKept
<1>4. CASE UNCHANGED nvars
  BY <1>4, PlacesKept DEF nvars, wvars, loop, history, Slot
<1>5. QED
  BY <1>1, <1>2, <1>3, <1>4, PolledKeepsPlaces, SubmitKeepsPlaces, RecvKeepsPlaces,
     SendKeepsPlaces, ReadKeepsPlaces DEF Next, LoopStep

(* No invoke that was read is lost or answered twice, whatever the session *)
(* and the two threads do (agent.py 111-148, transport 262-303).           *)
THEOREM EveryInvokeInOnePlace == Spec => []NoInvokeLost
<1>1. Init => NoInvokeLost
  <2> SUFFICES ASSUME Init PROVE NoInvokeLost
    OBVIOUS
  <2>1. /\ pending = << >> /\ replies = << >> /\ arrivals = << >>
        /\ held = NoCmd /\ Slot = NoCmd
    BY DEF Init, WInit, Slot
  <2>2. Seen(pending) = {} /\ Seen(replies) = {} /\ Seen(arrivals) = {}
    BY <2>1 DEF Seen
  <2>3. \A c \in Commands : ~InPlace(c) /\ OnlyPlace(c)
    BY <2>1, <2>2, CommandAssumption DEF InPlace, OnlyPlace, Queued, Answered
  <2>4. NoRepeats
    BY <2>1 DEF NoRepeats
  <2>5. QED
    BY <2>2, <2>3, <2>4 DEF NoInvokeLost
<1>2. NTypeOK /\ OneCommand /\ NoInvokeLost /\ [Next]_nvars => NoInvokeLost'
  BY PlacesStep
<1>3. QED
  BY <1>1, <1>2, NTyping, OneAtATimeInNode, PTL DEF Spec

-----------------------------------------------------------------------------
(* Caching a result keeps the list within the window, and every result     *)
(* that stays is listed (transport 519-531).                               *)
LEMMA CachedBounded ==
  ASSUME NEW S, NEW c0, NEW key \in S, NEW value, NEW w \in Nat,
         c0.keys \in Seq(S),
         DOMAIN c0.results \subseteq Seen(c0.keys)
  PROVE LET c1 == Cached(c0, key, value, w)
        IN  /\ c1.keys \in Seq(S)
            /\ Len(c1.keys) <= w
            /\ DOMAIN c1.results \subseteq Seen(c1.keys)
<1> DEFINE t == Append(c0.keys, key)
           s == Surplus(t, w)
           u == SubSeq(t, s + 1, Len(t))
           gone == {t[j] : j \in 1..s}
<1>1. /\ t \in Seq(S)
      /\ Len(t) \in Nat /\ DOMAIN t = 1..Len(t)
      /\ Seen(t) = Seen(c0.keys) \cup {key}
  BY SeenAppend
<1>2. /\ Cached(c0, key, value, w).keys = u
      /\ DOMAIN Cached(c0, key, value, w).results = (DOMAIN c0.results \cup {key}) \ gone
  BY DEF Cached, Trimmed, Put
<1>3. s \in 0..Len(t) /\ Len(t) - s <= w
  BY <1>1 DEF Surplus
<1> HIDE DEF t, s
<1>4. /\ u \in Seq(S)
      /\ Len(u) = Len(t) - s
      /\ \A j \in 1..(Len(t) - s) : u[j] = t[s + j]
  <2>1. \A i \in (s + 1)..Len(t) : t[i] \in S
    BY <1>1, <1>3
  <2>2. s + 1 \in Int /\ Len(t) \in Int
    BY <1>1, <1>3
  <2>3. /\ u \in Seq(S)
        /\ Len(u) = IF s + 1 <= Len(t) THEN Len(t) - (s + 1) + 1 ELSE 0
        /\ \A j \in 1..(Len(t) - (s + 1) + 1) : u[j] = t[(s + 1) + j - 1]
    BY <2>1, <2>2, SubSeqProperties
  <2>4. s \in Int /\ Len(t) \in Int /\ s <= Len(t)
    BY <1>1, <1>3
  <2>5. Len(u) = Len(t) - s
    BY <2>3, <2>4
  <2>6. ASSUME NEW j \in 1..(Len(t) - s) PROVE u[j] = t[s + j]
    <3>1. j \in 1..(Len(t) - (s + 1) + 1) /\ (s + 1) + j - 1 = s + j
      BY <2>4
    <3>2. QED
      BY <2>3, <3>1
  <2>7. QED
    BY <2>3, <2>5, <2>6
<1>5. ASSUME NEW k \in Seen(t), k \notin gone PROVE k \in Seen(u)
  <2>1. PICK j \in DOMAIN t : k = t[j]
    BY <1>5 DEF Seen
  <2>2. j \notin 1..s
    BY <1>5, <2>1
  <2>3. j - s \in 1..(Len(t) - s) /\ s + (j - s) = j
    BY <1>1, <1>3, <2>1, <2>2
  <2>4. u[j - s] = k /\ j - s \in DOMAIN u
    BY <1>4, <2>1, <2>3
  <2>5. QED
    BY <2>4 DEF Seen
<1>6. QED
  BY <1>1, <1>2, <1>3, <1>4, <1>5

Keys == {KeyOf[c] : c \in Commands}
CacheListed == cache.keys \in Seq(Keys) /\ CacheBounded

(* However many results are sent, the cache holds at most DEDUPE_WINDOW    *)
(* keys, and no result that its list does not own: the memory of the node  *)
(* is bounded (transport 519-531).                                         *)
THEOREM CacheStaysBounded == Spec => []CacheBounded
<1>1. Init => CacheListed
  BY NodeAssumption DEF Init, EmptyCache, CacheListed, CacheBounded, Seen
<1>2. NTypeOK /\ CacheListed /\ [Next]_nvars => CacheListed'
  <2> SUFFICES ASSUME NTypeOK, CacheListed, [Next]_nvars PROVE CacheListed'
    OBVIOUS
  <2>1. CASE ReplyPolled \/ ReplyInline
    <3>1. held \in Commands /\ cache' = Cached(cache, KeyOf[held], held, Window)
      BY <2>1 DEF ReplyPolled, ReplyInline, SendResult, CacheResult, At, NTypeOK,
           LoopTypeOK, Slots
    <3>2. KeyOf[held] \in Keys
      BY <3>1 DEF Keys
    <3>3. /\ cache'.keys \in Seq(Keys)
          /\ Len(cache'.keys) <= Window
          /\ DOMAIN cache'.results \subseteq Seen(cache'.keys)
      BY <3>1, <3>2, CachedBounded, NodeAssumption DEF CacheListed, CacheBounded
    <3>4. QED
      BY <3>3 DEF CacheListed, CacheBounded
  <2>2. CASE UNCHANGED cache
    BY <2>2 DEF CacheListed, CacheBounded
  <2>3. ~(ReplyPolled \/ ReplyInline) => UNCHANGED cache
    BY DEF Next, LoopStep, nvars, Reconnect, TopOnline, EndTick, EndFlush, CanAccept, EndRead,
         BreakInFlush, BreakInRead, PollResult, SubmitHeld, InlineStart, InlineFinish,
         CallReturns, ToolReturns, ThreadMoves, RecvCmd, ReadInvoke
  <2>4. QED
    BY <2>1, <2>2, <2>3
<1>3. CacheListed => CacheBounded
  BY DEF CacheListed
<1>4. QED
  BY <1>1, <1>2, <1>3, NTyping, PTL DEF Spec

-----------------------------------------------------------------------------
(* What the loop found free, as an invariant of its own, and the worker    *)
(* that a firmware without threads never uses.                             *)
LEMMA AlwaysFree == Spec => []FreeWhileReceiving
<1>1. Init => FreeWhileReceiving
  BY DEF Init, FreeWhileReceiving
<1>2. NTypeOK /\ OneCommand /\ FreeWhileReceiving /\ [Next]_nvars => FreeWhileReceiving'
  BY FreeStep DEF NTypeOK
<1>3. QED
  BY <1>1, <1>2, NTyping, OneAtATimeInNode, PTL DEF Spec

WorkerUnused == ~HasWorker => pendingCmd = NoCmd /\ thread.at = "ready"

LEMMA UnusedStep ==
  ASSUME WorkerUnused, [Next]_nvars
  PROVE WorkerUnused'
<1> SUFFICES ASSUME ~HasWorker PROVE pendingCmd' = NoCmd /\ thread'.at = "ready"
  BY DEF WorkerUnused
<1>1. ~SubmitHeld /\ ~ToolReturns /\ ~ThreadMoves
  BY DEF SubmitHeld, ToolReturns, ThreadMoves
<1>2. CASE Reconnect \/ TopOnline \/ EndTick \/ EndFlush \/ CanAccept \/ EndRead
           \/ BreakInFlush \/ BreakInRead \/ RecvCmd \/ ReplyPolled \/ ReplyInline
           \/ \E c \in Commands : ReadInvoke(c)
  BY <1>2 DEF Reconnect, TopOnline, EndTick, EndFlush, CanAccept, EndRead, BreakInFlush,
       BreakInRead, RecvCmd, ReplyPolled, ReplyInline, SendResult, ReadInvoke, wvars,
       WorkerUnused
<1>3. CASE InlineStart \/ InlineFinish
  BY <1>3 DEF InlineStart, InlineFinish, fields, WorkerUnused
<1>4. CASE PollResult \/ CallReturns
  BY <1>4 DEF PollResult, Poll, CallReturns, CallerNotes, NoteStart, NoteCaller, fields,
       WorkerUnused
<1>5. CASE UNCHANGED nvars
  BY <1>5 DEF nvars, wvars, WorkerUnused
<1>6. QED
  BY <1>1, <1>2, <1>3, <1>4, <1>5 DEF Next, LoopStep

NBase == NTypeOK /\ OneCommand /\ FreeWhileReceiving /\ WorkerUnused

Stays == Unrun' = Unrun /\ UNCHANGED <<runs, pending, arrivals>>
Pops == /\ Unrun = NoCmd /\ pending # << >>
        /\ Unrun' = Head(pending) /\ pending' = Tail(pending)
        /\ UNCHANGED <<runs, arrivals>>
Runs == /\ Unrun \in Commands /\ Unrun' = NoCmd
        /\ runs' = Append(runs, Unrun)
        /\ UNCHANGED <<pending, arrivals>>

LEMMA UnrunMoves ==
  ASSUME NBase, [Next]_nvars
  PROVE \/ Stays \/ Pops \/ Runs
        \/ Unrun' = Unrun /\ \E n \in Commands : ReadInvoke(n)
<1> USE CommandAssumption DEF At, Goto, loop, history
<1>1. CASE Reconnect \/ TopOnline \/ EndTick \/ EndFlush \/ CanAccept \/ EndRead
           \/ BreakInFlush \/ BreakInRead
  <2>1. /\ UNCHANGED <<runs, pending, arrivals, wvars>>
        /\ \/ UNCHANGED main
           \/ {main, main'} \cap {"submit", "inlineRun"} = {}
    BY <1>1 DEF Reconnect, TopOnline, EndTick, EndFlush, CanAccept, Accepts, EndRead,
         BreakInFlush, BreakInRead, Flushing, Reading
  <2>2. UNCHANGED held
    BY <1>1 DEF Reconnect, TopOnline, EndTick, EndFlush, CanAccept, EndRead, BreakInFlush,
         BreakInRead
  <2>3. QED
    BY <2>1, <2>2 DEF wvars, Unrun, Stays
<1>2. CASE ReplyPolled \/ ReplyInline
  BY <1>2 DEF ReplyPolled, ReplyInline, SendResult, wvars, Unrun, Stays
<1>3. ASSUME NEW n \in Commands, ReadInvoke(n) PROVE Unrun' = Unrun
  BY <1>3 DEF ReadInvoke, wvars, Unrun
<1>4. CASE PollResult
  BY <1>4 DEF PollResult, Poll, Unrun, Stays
<1>5. CASE RecvCmd
  <2>1. Unrun = NoCmd
    BY <1>5 DEF RecvCmd, NBase, FreeWhileReceiving, Free, OneCommand, WorkerUnused, Unrun
  <2>2. QED
    BY <1>5, <2>1 DEF RecvCmd, PopPending, Unrun, Pops
<1>6. CASE SubmitHeld
  <2>1. held \in Commands
    BY <1>6 DEF SubmitHeld, NBase, NTypeOK, LoopTypeOK, Slots
  <2>2. QED
    BY <1>6, <2>1 DEF SubmitHeld, Submit, Unrun, Stays
<1>7. CASE InlineStart
  BY <1>7 DEF InlineStart, fields, Unrun, Stays
<1>8. CASE InlineFinish
  <2>1. held \in Commands /\ Unrun = held
    BY <1>8 DEF InlineFinish, NBase, NTypeOK, LoopTypeOK, Slots, Unrun
  <2>2. pendingCmd = NoCmd /\ thread.at = "ready"
    BY <1>8 DEF InlineFinish, NBase, FreeWhileReceiving, WorkerUnused
  <2>3. QED
    BY <1>8, <2>1, <2>2 DEF InlineFinish, fields, Unrun, Runs
<1>9. CASE CallReturns
  BY <1>9 DEF CallReturns, CallerNotes, NoteStart, NoteCaller, fields, Unrun, Stays
<1>10. CASE ToolReturns
  <2>1. /\ thread.at = "execute" /\ thread.cmd \in Commands /\ pendingCmd = NoCmd
        /\ main \notin {"submit", "inlineRun"}
    BY <1>10 DEF ToolReturns, Execute, NBase, NTypeOK, WTypeOK, OneCommand,
         FreeWhileReceiving, Free
  <2>2. thread'.at = "store"
    BY <1>10 DEF ToolReturns, Execute, NBase, NTypeOK, WTypeOK
  <2>3. QED
    BY <1>10, <2>1, <2>2 DEF ToolReturns, Execute, fields, Unrun, Runs
<1>11. CASE ThreadMoves
  <2>1. UNCHANGED <<runs, pending, arrivals, main, held>>
    BY <1>11 DEF ThreadMoves
  <2>2. CASE Take
    BY <2>1, <2>2 DEF Take, Frame, Unrun, Stays
  <2>3. CASE Store \/ NoteFinish
    BY <2>1, <2>3 DEF Store, NoteFinish, fields, Unrun, Stays, NBase, NTypeOK, WTypeOK
  <2>4. CASE NoteThread
    BY <2>1, <2>4 DEF NoteThread, Ready, Frame, fields, Unrun, Stays
  <2>5. QED
    BY <1>11, <2>2, <2>3, <2>4 DEF ThreadMoves
<1>12. CASE UNCHANGED nvars
  BY <1>12 DEF nvars, wvars, Unrun, Stays
<1>13. QED
  BY <1>1, <1>2, <1>3, <1>4, <1>5, <1>6, <1>7, <1>8, <1>9, <1>10, <1>11, <1>12
  DEF Next, LoopStep

-----------------------------------------------------------------------------
(* The order of arrival runs through the tools that have ended, the command *)
(* between queue and tool, and the queue.                                   *)
Ahead(order, a, b) == /\ a \in Seen(order) /\ b \in Seen(order)
                      /\ \A m, n \in DOMAIN order :
                           order[m] = a /\ order[n] = b => m < n
Line ==
  /\ \A i, j \in DOMAIN runs : i < j => Ahead(arrivals, runs[i], runs[j])
  /\ \A i, j \in DOMAIN pending : i < j => Ahead(arrivals, pending[i], pending[j])
  /\ \A a \in Seen(runs), b \in Seen(pending) : Ahead(arrivals, a, b)
  /\ Unrun # NoCmd => /\ Unrun \in Seen(arrivals)
                      /\ \A a \in Seen(runs) : Ahead(arrivals, a, Unrun)
                      /\ \A b \in Seen(pending) : Ahead(arrivals, Unrun, b)
  /\ Seen(runs) \cup Seen(pending) \subseteq Seen(arrivals)

LEMMA StaysInLine == ASSUME Line, Stays PROVE Line'
BY DEF Line, Stays, Ahead, Seen

LEMMA PopsInLine ==
  ASSUME NTypeOK, Line, Pops
  PROVE Line'
<1> DEFINE h == Head(pending)
           t == Tail(pending)
<1>1. pending \in Seq(Commands) /\ pending # << >>
  BY DEF NTypeOK, QueuesTypeOK, Pops
<1>2. /\ DOMAIN t = 1..(Len(pending) - 1) /\ DOMAIN pending = 1..Len(pending)
      /\ Len(pending) \in Nat /\ Len(pending) > 0 /\ h = pending[1]
      /\ \A j \in DOMAIN t : t[j] = pending[j + 1] /\ j + 1 \in DOMAIN pending
  BY <1>1
<1> HIDE DEF h, t
<1>3. UNCHANGED <<runs, arrivals>> /\ pending' = t /\ Unrun' = h
  BY DEF Pops, h, t
<1>4. \A a, b : Ahead(arrivals', a, b) <=> Ahead(arrivals, a, b)
  BY <1>3 DEF Ahead, Seen
<1>5. ASSUME NEW b \in Seen(t) PROVE b \in Seen(pending) /\ Ahead(arrivals, h, b)
  <2>1. PICK j \in DOMAIN t : b = t[j]
    BY <1>5 DEF Seen
  <2>2. b = pending[j + 1] /\ j + 1 \in DOMAIN pending /\ 1 \in DOMAIN pending /\ 1 < j + 1
    BY <1>2, <2>1
  <2>3. QED
    BY <1>2, <2>2 DEF Line, Seen
<1>6. h \in Seen(pending)
  <2>1. 1 \in DOMAIN pending
    BY <1>2
  <2>2. QED
    BY <1>2, <2>1 DEF Seen
<1>7. ASSUME NEW i \in DOMAIN t, NEW j \in DOMAIN t, i < j PROVE Ahead(arrivals, t[i], t[j])
  <2>1. i + 1 < j + 1
    BY <1>2, <1>7
  <2>2. QED
    BY <1>2, <2>1 DEF Line
<1>8. Seen(runs)' = Seen(runs) /\ Seen(arrivals)' = Seen(arrivals) /\ Seen(pending)' = Seen(t)
  BY <1>3 DEF Seen
<1>9. QED
  BY <1>3, <1>4, <1>5, <1>6, <1>7, <1>8 DEF Line

LEMMA RunsInLine ==
  ASSUME NTypeOK, Line, Runs
  PROVE Line'
<1> USE CommandAssumption
<1> DEFINE u == Unrun
<1>1. runs \in Seq(Commands) /\ u \in Commands
  BY DEF NTypeOK, QueuesTypeOK, Runs
<1>2. UNCHANGED <<pending, arrivals>> /\ runs' = Append(runs, u) /\ Unrun' = NoCmd
  BY DEF Runs
<1>3. /\ u \in Seen(arrivals)
      /\ \A a \in Seen(runs) : Ahead(arrivals, a, u)
      /\ \A b \in Seen(pending) : Ahead(arrivals, u, b)
  BY <1>1 DEF Line
<1> HIDE DEF u
<1>4. \A a, b : Ahead(arrivals', a, b) <=> Ahead(arrivals, a, b)
  BY <1>2 DEF Ahead, Seen
<1>5. Seen(runs)' = Seen(runs) \cup {u} /\ Seen(arrivals)' = Seen(arrivals)
      /\ Seen(pending)' = Seen(pending)
  <2>1. Seen(Append(runs, u)) = Seen(runs) \cup {u}
    BY <1>1, SeenAppend
  <2>2. QED
    BY <1>2, <2>1 DEF Seen
<1>6. /\ DOMAIN runs' = 1..(Len(runs) + 1) /\ DOMAIN runs = 1..Len(runs)
      /\ Len(runs) \in Nat /\ runs'[Len(runs) + 1] = u
      /\ \A j \in DOMAIN runs : runs'[j] = runs[j]
  BY <1>1, <1>2
<1>7. ASSUME NEW i \in DOMAIN runs', NEW j \in DOMAIN runs', i < j
      PROVE Ahead(arrivals, runs'[i], runs'[j])
  <2>1. i \in DOMAIN runs /\ runs'[i] = runs[i] /\ runs[i] \in Seen(runs)
    BY <1>6, <1>7 DEF Seen
  <2>2. CASE j = Len(runs) + 1
    BY <1>3, <1>6, <2>1, <2>2
  <2>3. CASE j \in DOMAIN runs
    BY <1>6, <1>7, <2>1, <2>3 DEF Line
  <2>4. QED
    BY <1>6, <2>2, <2>3
<1>8. \A i, j \in DOMAIN pending : i < j => Ahead(arrivals, pending[i], pending[j])
  BY DEF Line
<1>9. /\ \A a \in Seen(runs) \cup {u}, b \in Seen(pending) : Ahead(arrivals, a, b)
      /\ Seen(runs) \cup {u} \cup Seen(pending) \subseteq Seen(arrivals)
  BY <1>3 DEF Line
<1>10. QED
  BY <1>2, <1>4, <1>5, <1>7, <1>8, <1>9 DEF Line

LEMMA ReadInLine ==
  ASSUME NTypeOK, Line, Unrun' = Unrun, NEW c \in Commands, ReadInvoke(c)
  PROVE Line'
<1>1. /\ arrivals \in Seq(Commands) /\ pending \in Seq(Commands)
      /\ arrivals' = Append(arrivals, c) /\ c \notin Seen(arrivals)
      /\ pending' = pending \/ pending' = Append(pending, c)
      /\ runs' = runs
  BY DEF ReadInvoke, Consume, NTypeOK, QueuesTypeOK
<1>2. Seen(arrivals)' = Seen(arrivals) \cup {c}
  <2>1. Seen(Append(arrivals, c)) = Seen(arrivals) \cup {c}
    BY <1>1, SeenAppend
  <2>2. QED
    BY <1>1, <2>1 DEF Seen
<1>3. /\ DOMAIN arrivals' = 1..(Len(arrivals) + 1) /\ DOMAIN arrivals = 1..Len(arrivals)
      /\ Len(arrivals) \in Nat /\ arrivals'[Len(arrivals) + 1] = c
      /\ \A j \in DOMAIN arrivals : arrivals'[j] = arrivals[j] /\ arrivals'[j] # c
  <2>1. \A j \in DOMAIN arrivals : arrivals[j] # c
    BY <1>1 DEF Seen
  <2>2. QED
    BY <1>1, <2>1
<1>4. ASSUME NEW a, NEW b, Ahead(arrivals, a, b) PROVE Ahead(arrivals', a, b)
  <2>1. a \in Seen(arrivals) /\ b \in Seen(arrivals) /\ a # c /\ b # c
    BY <1>1, <1>4 DEF Ahead
  <2>2. ASSUME NEW m \in DOMAIN arrivals', NEW n \in DOMAIN arrivals',
               arrivals'[m] = a, arrivals'[n] = b
        PROVE m < n
    <3>1. m \in DOMAIN arrivals /\ n \in DOMAIN arrivals
      BY <1>3, <2>1, <2>2
    <3>2. QED
      BY <1>3, <1>4, <2>2, <3>1 DEF Ahead
  <2>3. QED
    BY <1>2, <2>1, <2>2 DEF Ahead
<1>5. ASSUME NEW a \in Seen(arrivals) PROVE Ahead(arrivals', a, c)
  <2>1. ASSUME NEW m \in DOMAIN arrivals', NEW n \in DOMAIN arrivals',
               arrivals'[m] = a, arrivals'[n] = c
        PROVE m < n
    <3>1. n = Len(arrivals) + 1 /\ m \in DOMAIN arrivals
      BY <1>1, <1>3, <1>5, <2>1
    <3>2. QED
      BY <1>3, <3>1
  <2>2. QED
    BY <1>2, <1>5, <2>1 DEF Ahead
<1>6. Unrun # NoCmd => /\ Unrun \in Seen(arrivals')
                       /\ \A a \in Seen(runs) : Ahead(arrivals', a, Unrun)
                       /\ \A b \in Seen(pending) : Ahead(arrivals', Unrun, b)
                       /\ Ahead(arrivals', Unrun, c)
  BY <1>2, <1>4, <1>5 DEF Line, Seen
<1>7. CASE pending' = pending
  <2>1. Seen(runs) \cup Seen(pending) \subseteq Seen(arrivals')
    BY <1>2 DEF Line, Seen
  <2>2. \A a \in Seen(runs), b \in Seen(pending) : Ahead(arrivals', a, b)
    BY <1>4 DEF Line
  <2>3. \A i, j \in DOMAIN runs : i < j => Ahead(arrivals', runs[i], runs[j])
    BY <1>4 DEF Line
  <2>4. \A i, j \in DOMAIN pending : i < j => Ahead(arrivals', pending[i], pending[j])
    BY <1>4 DEF Line
  <2>5. QED
    BY <1>1, <1>6, <1>7, <2>1, <2>2, <2>3, <2>4 DEF Line
<1>8. CASE pending' = Append(pending, c)
  <2>1. Seen(pending)' = Seen(pending) \cup {c}
    <3>1. Seen(Append(pending, c)) = Seen(pending) \cup {c}
      BY <1>1, SeenAppend
    <3>2. QED
      BY <1>8, <3>1 DEF Seen
  <2>2. /\ DOMAIN pending' = 1..(Len(pending) + 1) /\ DOMAIN pending = 1..Len(pending)
        /\ Len(pending) \in Nat /\ pending'[Len(pending) + 1] = c
        /\ \A j \in DOMAIN pending : pending'[j] = pending[j]
    BY <1>1, <1>8
  <2>3. ASSUME NEW i \in DOMAIN pending', NEW j \in DOMAIN pending', i < j
        PROVE Ahead(arrivals', pending'[i], pending'[j])
    <3>1. i \in DOMAIN pending /\ pending'[i] = pending[i] /\ pending[i] \in Seen(pending)
      BY <2>2, <2>3 DEF Seen
    <3>2. pending[i] \in Seen(arrivals)
      BY <3>1 DEF Line
    <3>3. CASE j = Len(pending) + 1
      <4>1. pending'[j] = c /\ \A a \in Seen(arrivals) : Ahead(arrivals', a, c)
        BY <1>5, <2>2, <3>3
      <4>2. QED
        BY <3>1, <3>2, <4>1 DEF Ahead
    <3>4. CASE j \in DOMAIN pending
      <4>1. Ahead(arrivals, pending[i], pending[j]) /\ pending'[j] = pending[j]
        BY <2>2, <2>3, <3>1, <3>4 DEF Line
      <4>2. \A a, b : Ahead(arrivals, a, b) => Ahead(arrivals', a, b)
        BY <1>4
      <4>3. QED
        BY <3>1, <4>1, <4>2 DEF Ahead
    <3>5. QED
      BY <2>2, <3>3, <3>4
  <2>4. \A a \in Seen(runs), b \in Seen(pending) \cup {c} : Ahead(arrivals', a, b)
    BY <1>4, <1>5 DEF Line
  <2>5. \A i, j \in DOMAIN runs : i < j => Ahead(arrivals', runs[i], runs[j])
    BY <1>4 DEF Line
  <2>6. Seen(runs) \cup Seen(pending') \subseteq Seen(arrivals')
    BY <1>2, <2>1 DEF Line, Seen
  <2>7. Seen(pending') = Seen(pending) \cup {c}
    BY <2>1 DEF Seen
  <2>8. QED
    BY <1>1, <1>6, <2>3, <2>4, <2>5, <2>6, <2>7 DEF Line
<1>9. QED
  BY <1>1, <1>7, <1>8

-----------------------------------------------------------------------------
(* Every step keeps the line.                                              *)
LEMMA StepInLine ==
  ASSUME NBase, Line, [Next]_nvars
  PROVE Line'
BY UnrunMoves, StaysInLine, PopsInLine, RunsInLine, ReadInLine DEF NBase

LEMMA AlwaysInLine == Spec => [](NBase /\ Line)
<1>1. Init => WorkerUnused /\ Line
  <2> SUFFICES ASSUME Init PROVE WorkerUnused /\ Line
    OBVIOUS
  <2>1. pendingCmd = NoCmd /\ thread.at = "ready" /\ Unrun = NoCmd
    BY DEF Init, WInit, Ready, Frame, Unrun
  <2>2. runs = << >> /\ pending = << >>
    BY DEF Init
  <2>3. QED
    BY <2>1, <2>2 DEF WorkerUnused, Line, Seen
<1>2. /\ NTypeOK /\ OneCommand /\ FreeWhileReceiving
      /\ WorkerUnused /\ Line /\ [Next]_nvars
      => WorkerUnused' /\ Line'
  BY UnusedStep, StepInLine DEF NBase
<1>3. QED
  BY <1>1, <1>2, NTyping, OneAtATimeInNode, AlwaysFree, PTL DEF Spec, NBase

-----------------------------------------------------------------------------
(* What counts as a result comes from a tool that has ended.               *)
InHand == main \in {"reply", "inlineReply"}
InWorker == result # NoCmd \/ thread.at = "store"
ResultsRan ==
  /\ InHand => held \in Seen(runs)
  /\ result # NoCmd => result \in Seen(runs)
  /\ thread.at = "store" => thread.cmd \in Seen(runs)
CacheRan ==
  \A k \in DOMAIN cache.results :
    KeyOf[cache.results[k]] = k /\ cache.results[k] \in Seen(runs)
RepliesRan == \A r \in Seen(replies) : r.id \in Seen(runs) \cup Malformed

LEMMA RunAdded ==
  ASSUME NTypeOK, NEW c \in Commands, runs' = Append(runs, c)
  PROVE Seen(runs') = Seen(runs) \cup {c}
BY SeenAppend DEF NTypeOK, QueuesTypeOK

LEMMA RunsStay ==
  ASSUME NBase, [Next]_nvars
  PROVE Seen(runs) \subseteq Seen(runs')
<1>1. CASE Runs
  BY <1>1, RunAdded DEF Runs, NBase
<1>2. CASE UNCHANGED runs
  BY <1>2 DEF Seen
<1>3. QED
  BY <1>1, <1>2, UnrunMoves DEF Stays, Pops, ReadInvoke

LEMMA ResultsStep ==
  ASSUME NBase, ResultsRan, [Next]_nvars
  PROVE ResultsRan'
<1> USE DEF ResultsRan, InHand, At, Goto, loop, history
<1>0. Seen(runs) \subseteq Seen(runs')
  BY RunsStay
<1>1. CASE Reconnect \/ TopOnline \/ EndTick \/ EndFlush \/ CanAccept \/ EndRead
           \/ BreakInFlush \/ BreakInRead \/ RecvCmd
  BY <1>0, <1>1 DEF Reconnect, TopOnline, EndTick, EndFlush, CanAccept, Accepts, EndRead,
       BreakInFlush, BreakInRead, Flushing, Reading, RecvCmd, wvars
<1>2. CASE ReplyPolled \/ ReplyInline
  BY <1>0, <1>2 DEF ReplyPolled, ReplyInline, SendResult, wvars
<1>3. ASSUME NEW n \in Commands, ReadInvoke(n) PROVE ResultsRan'
  BY <1>0, <1>3 DEF ReadInvoke, wvars
<1>4. CASE PollResult
  BY <1>0, <1>4 DEF PollResult, Poll
<1>5. CASE SubmitHeld
  BY <1>0, <1>5 DEF SubmitHeld, Submit
<1>6. CASE InlineStart
  BY <1>0, <1>6 DEF InlineStart, fields
<1>7. CASE InlineFinish
  <2>1. held \in Commands /\ held' = held
    BY <1>7 DEF InlineFinish, NBase, NTypeOK, LoopTypeOK, Slots
  <2>2. held \in Seen(runs')
    BY <1>7, <2>1, RunAdded DEF InlineFinish, NBase
  <2>3. QED
    BY <1>0, <1>7, <2>1, <2>2 DEF InlineFinish, fields
<1>8. CASE CallReturns
  BY <1>0, <1>8 DEF CallReturns, CallerNotes, NoteStart, NoteCaller, fields
<1>9. CASE ToolReturns
  <2>1. thread.cmd \in Commands /\ thread'.cmd = thread.cmd
    BY <1>9 DEF ToolReturns, Execute, NBase, NTypeOK, WTypeOK
  <2>2. thread.cmd \in Seen(runs')
    BY <1>9, <2>1, RunAdded DEF ToolReturns, NBase
  <2>3. QED
    BY <1>0, <1>9, <2>1, <2>2 DEF ToolReturns, Execute, fields
<1>10. CASE ThreadMoves
  <2>1. UNCHANGED <<runs, main, held>>
    BY <1>10 DEF ThreadMoves
  <2>2. CASE Take
    BY <2>1, <2>2 DEF Take, Frame, Seen
  <2>3. CASE Store
    BY <2>1, <2>3 DEF Store, Seen, NBase, NTypeOK, WTypeOK
  <2>4. CASE NoteFinish
    BY <2>1, <2>4 DEF NoteFinish, fields, Seen, NBase, NTypeOK, WTypeOK
  <2>5. CASE NoteThread
    BY <2>1, <2>5 DEF NoteThread, Ready, Frame, fields, Seen
  <2>6. QED
    BY <1>10, <2>2, <2>3, <2>4, <2>5 DEF ThreadMoves
<1>11. CASE UNCHANGED nvars
  BY <1>0, <1>11 DEF nvars, wvars
<1>12. QED
  BY <1>1, <1>2, <1>3, <1>4, <1>5, <1>6, <1>7, <1>8, <1>9, <1>10, <1>11
  DEF Next, LoopStep

(* Only send_result changes the cache, only it and a read add a reply.     *)
LEMMA OthersKeep ==
  ASSUME [Next]_nvars, ~ReplyPolled, ~ReplyInline
  PROVE /\ UNCHANGED cache
        /\ UNCHANGED replies \/ \E n \in Commands : ReadInvoke(n)
BY DEF Next, LoopStep, nvars, history, Reconnect, TopOnline, EndTick, EndFlush, CanAccept, EndRead,
     BreakInFlush, BreakInRead, PollResult, SubmitHeld, InlineStart, InlineFinish,
     CallReturns, ToolReturns, ThreadMoves, RecvCmd, ReadInvoke

LEMMA SendFacts ==
  ASSUME NTypeOK, ReplyPolled \/ ReplyInline
  PROVE /\ held \in Commands /\ InHand /\ UNCHANGED <<wvars, runs>>
        /\ cache' = Cached(cache, KeyOf[held], held, Window)
        /\ replies' = Append(replies, Reply(held, held))
        /\ main' \in {"flush", "inlineFlush"}
BY DEF ReplyPolled, ReplyInline, SendResult, CacheResult, At, Goto, NTypeOK, LoopTypeOK,
     Slots, InHand

LEMMA ReplyAdded ==
  ASSUME NTypeOK, NEW c \in Commands, NEW id \in Commands,
         replies' = Append(replies, Reply(c, id))
  PROVE Seen(replies') = Seen(replies) \cup {Reply(c, id)} /\ Reply(c, id).id = id
<1> DEFINE R == [for : Commands, id : Commands]
<1>1. replies \in Seq(R) /\ Reply(c, id) \in R
  BY DEF NTypeOK, QueuesTypeOK, Reply
<1> HIDE DEF R
<1>2. Seen(Append(replies, Reply(c, id))) = Seen(replies) \cup {Reply(c, id)}
  BY <1>1, SeenAppend
<1>3. QED
  BY <1>2 DEF Reply

(* A read answers a malformed invoke, one whose key is cached, or none.    *)
LEMMA ReadReplies ==
  ASSUME NTypeOK, NEW n \in Commands, ReadInvoke(n)
  PROVE /\ UNCHANGED <<cache, runs, wvars, loop>>
        /\ \/ UNCHANGED replies
           \/ \E id \in Commands :
                /\ replies' = Append(replies, Reply(n, id))
                /\ \/ id \in Malformed
                   \/ KeyOf[n] \in DOMAIN cache.results /\ id = cache.results[KeyOf[n]]
<1>1. KeyOf[n] \in DOMAIN cache.results => cache.results[KeyOf[n]] \in Commands
  BY DEF NTypeOK, QueuesTypeOK
<1>2. QED
  BY <1>1 DEF ReadInvoke, Consume, Known

LEMMA CacheStep ==
  ASSUME NBase, ResultsRan, CacheRan, RepliesRan, [Next]_nvars
  PROVE CacheRan' /\ RepliesRan'
<1>0. NTypeOK /\ Seen(runs) \subseteq Seen(runs')
  BY RunsStay DEF NBase
<1>1. CASE ReplyPolled \/ ReplyInline
  <2>1. /\ held \in Commands /\ held \in Seen(runs')
        /\ cache' = Cached(cache, KeyOf[held], held, Window)
        /\ replies' = Append(replies, Reply(held, held))
    BY <1>0, <1>1, SendFacts DEF ResultsRan
  <2>2. Seen(replies') = Seen(replies) \cup {Reply(held, held)} /\ Reply(held, held).id = held
    BY <1>0, <2>1, ReplyAdded
  <2>3. RepliesRan'
    BY <1>0, <2>1, <2>2 DEF RepliesRan
  <2>4. \A k \in DOMAIN cache'.results :
          \/ k = KeyOf[held] /\ cache'.results[k] = held
          \/ k \in DOMAIN cache.results /\ cache'.results[k] = cache.results[k]
    BY <2>1 DEF Cached, Trimmed, Put
  <2>5. CacheRan'
    BY <1>0, <2>1, <2>4 DEF CacheRan
  <2>6. QED
    BY <2>3, <2>5
<1>2. CASE ~ReplyPolled /\ ~ReplyInline
  <2>1. UNCHANGED cache
    BY <1>2, OthersKeep
  <2>2. CacheRan'
    BY <1>0, <2>1 DEF CacheRan
  <2>3. CASE UNCHANGED replies
    BY <1>0, <2>2, <2>3 DEF RepliesRan, Seen
  <2>4. ASSUME NEW n \in Commands, ReadInvoke(n) PROVE RepliesRan'
    <3>1. CASE UNCHANGED replies
      BY <1>0, <3>1 DEF RepliesRan, Seen
    <3>2. ASSUME NEW id \in Commands, replies' = Append(replies, Reply(n, id)),
                 \/ id \in Malformed
                 \/ KeyOf[n] \in DOMAIN cache.results /\ id = cache.results[KeyOf[n]]
          PROVE RepliesRan'
      <4>1. id \in Seen(runs') \cup Malformed
        BY <1>0, <3>2 DEF CacheRan
      <4>2. Seen(replies') = Seen(replies) \cup {Reply(n, id)} /\ Reply(n, id).id = id
        BY <1>0, <3>2, ReplyAdded
      <4>3. QED
        BY <1>0, <4>1, <4>2 DEF RepliesRan
    <3>3. QED
      BY <1>0, <2>4, <3>1, <3>2, ReadReplies
  <2>5. QED
    BY <1>2, <2>2, <2>3, <2>4, OthersKeep
<1>3. QED
  BY <1>1, <1>2

Truth == ResultsRan /\ CacheRan /\ RepliesRan

LEMMA AlwaysTrue == Spec => []Truth
<1>1. Init => Truth
  <2> SUFFICES ASSUME Init PROVE Truth
    OBVIOUS
  <2>1. /\ main = "top" /\ result = NoCmd /\ thread.at = "ready"
        /\ cache = EmptyCache /\ replies = << >>
    BY DEF Init, WInit, Ready, Frame
  <2>2. QED
    BY <2>1 DEF Truth, ResultsRan, CacheRan, RepliesRan, InHand, EmptyCache, Seen
<1>2. NBase /\ Truth /\ [Next]_nvars => Truth'
  BY ResultsStep, CacheStep DEF Truth
<1>3. QED
  BY <1>1, <1>2, AlwaysInLine, PTL DEF Spec

(* Whatever sessions break and whichever thread runs: no tool runs twice   *)
(* for an invoke, a result is sent for a tool that ran, and tools run in   *)
(* the order in which their invokes are read (agent.py 111-148).           *)
THEOREM ToolsRunInOrder == Spec => []RunsInOrder
<1>1. NBase /\ Line /\ Truth => RunsInOrder
  <2> SUFFICES ASSUME NBase, Line, Truth PROVE RunsInOrder
    OBVIOUS
  <2>1. runs \in Seq(Commands) /\ DOMAIN runs = 1..Len(runs) /\ Len(runs) \in Nat
        /\ DOMAIN arrivals \subseteq Nat
    BY DEF NBase, NTypeOK, QueuesTypeOK
  <2>2. InOrder
    BY DEF Line, Ahead, InOrder
  <2>3. ASSUME NEW i \in DOMAIN runs, NEW j \in DOMAIN runs, i < j PROVE runs[i] # runs[j]
    <3>1. Ahead(arrivals, runs[i], runs[j])
      BY <2>3 DEF Line
    <3>2. PICK m \in DOMAIN arrivals : arrivals[m] = runs[i]
      BY <3>1 DEF Ahead, Seen
    <3>3. runs[i] = runs[j] => m < m
      BY <3>1, <3>2 DEF Ahead
    <3>4. QED
      BY <2>1, <3>3
  <2>4. \A i, j \in DOMAIN runs : runs[i] = runs[j] => i = j
    BY <2>1, <2>3
  <2>5. QED
    BY <2>2, <2>4 DEF RunsInOrder, RunsOnce, Truth, RepliesRan
<1>2. QED
  BY <1>1, AlwaysInLine, AlwaysTrue, PTL

(* What the cache returns for a key is the result of a tool that ran for   *)
(* this key (transport 519-531).                                           *)
THEOREM CacheTellsTruth == Spec => []CacheSound
<1>1. Truth /\ CacheBounded => CacheSound
  BY DEF Truth, CacheRan, CacheSound
<1>2. QED
  BY <1>1, AlwaysTrue, CacheStaysBounded, PTL

-----------------------------------------------------------------------------
(* As long as no more tools have ended than the window holds, no key has   *)
(* left the cache.                                                         *)
Unsent == IF InHand /\ InWorker THEN 2 ELSE IF InHand \/ InWorker THEN 1 ELSE 0
KeepsAll ==
  /\ cache.keys \in Seq(Keys)
  /\ Len(runs) <= Window =>
       /\ Len(cache.keys) + Unsent <= Len(runs)
       /\ AnsweredKeys \subseteq DOMAIN cache.results

(* What each step does to the results that are not sent.                   *)
LEMMA UnsentMoves ==
  ASSUME NBase, [Next]_nvars, ~ReplyPolled, ~ReplyInline
  PROVE \/ Len(runs') = Len(runs) + 1 /\ Unsent' = Unsent + 1
        \/ Len(runs') = Len(runs) /\ Unsent' <= Unsent
<1> USE DEF Unsent, InHand, InWorker, At, Goto, loop, history
<1>0. runs \in Seq(Commands) /\ Unsent \in 0..2
  BY DEF NBase, NTypeOK, QueuesTypeOK
<1>1. CASE Reconnect \/ TopOnline \/ EndTick \/ EndFlush \/ CanAccept \/ EndRead
           \/ BreakInFlush \/ BreakInRead \/ RecvCmd
  BY <1>0, <1>1 DEF Reconnect, TopOnline, EndTick, EndFlush, CanAccept, Accepts, EndRead,
       BreakInFlush, BreakInRead, Flushing, Reading, RecvCmd, wvars
<1>2. ASSUME NEW n \in Commands, ReadInvoke(n)
      PROVE Len(runs') = Len(runs) /\ Unsent' <= Unsent
  BY <1>0, <1>2 DEF ReadInvoke, wvars
<1>3. CASE PollResult
  <2>1. /\ main = "poll" /\ UNCHANGED <<runs, thread>> /\ result' = NoCmd
        /\ main' = IF result # NoCmd THEN "reply" ELSE "accept"
    BY <1>3 DEF PollResult, Poll
  <2>2. result # NoCmd => thread.at # "store"
    BY DEF NBase, OneCommand
  <2>3. QED
    BY <1>0, <2>1, <2>2
<1>4. CASE SubmitHeld
  BY <1>0, <1>4 DEF SubmitHeld, Submit
<1>5. CASE InlineStart
  BY <1>0, <1>5 DEF InlineStart, fields
<1>6. CASE InlineFinish
  <2>1. Len(runs') = Len(runs) + 1
    BY <1>0, <1>6 DEF InlineFinish, NBase, NTypeOK, LoopTypeOK, Slots
  <2>2. /\ main = "inlineRun" /\ main' = "inlineReply" /\ UNCHANGED <<result, thread>>
    BY <1>6 DEF InlineFinish, fields
  <2>3. QED
    BY <2>1, <2>2
<1>7. CASE CallReturns
  BY <1>0, <1>7 DEF CallReturns, CallerNotes, NoteStart, NoteCaller, fields
<1>8. CASE ToolReturns
  <2>1. Len(runs') = Len(runs) + 1
    BY <1>0, <1>8 DEF ToolReturns, Execute, NBase, NTypeOK, WTypeOK
  <2>2. /\ thread.at = "execute" /\ thread'.at = "store" /\ result = NoCmd
        /\ UNCHANGED <<main, result>>
    BY <1>8 DEF ToolReturns, Execute, fields, NBase, NTypeOK, WTypeOK, OneCommand
  <2>3. QED
    BY <2>1, <2>2
<1>9. CASE ThreadMoves
  <2>1. UNCHANGED <<runs, main>>
    BY <1>9 DEF ThreadMoves
  <2>2. CASE Take
    BY <1>0, <2>1, <2>2 DEF Take, Frame
  <2>3. CASE Store
    BY <1>0, <2>1, <2>3 DEF Store, NBase, NTypeOK, WTypeOK
  <2>4. CASE NoteFinish
    BY <1>0, <2>1, <2>4 DEF NoteFinish, fields, NBase, NTypeOK, WTypeOK
  <2>5. CASE NoteThread
    BY <1>0, <2>1, <2>5 DEF NoteThread, Ready, Frame, fields
  <2>6. QED
    BY <1>9, <2>2, <2>3, <2>4, <2>5 DEF ThreadMoves
<1>10. CASE UNCHANGED nvars
  BY <1>0, <1>10 DEF nvars, wvars
<1>11. QED
  BY <1>1, <1>2, <1>3, <1>4, <1>5, <1>6, <1>7, <1>8, <1>9, <1>10 DEF Next, LoopStep

(* Within the window caching drops nothing.                                *)
LEMMA CachedWithin ==
  ASSUME NEW c0, NEW key \in Keys, NEW value, NEW w \in Nat,
         c0.keys \in Seq(Keys), Len(c0.keys) + 1 <= w
  PROVE /\ Len(Cached(c0, key, value, w).keys) = Len(c0.keys) + 1
        /\ DOMAIN Cached(c0, key, value, w).results = DOMAIN c0.results \cup {key}
<1> DEFINE t == Append(c0.keys, key)
<1>1. t \in Seq(Keys) /\ Len(t) = Len(c0.keys) + 1 /\ Len(t) \in Nat
  OBVIOUS
<1> HIDE DEF t
<1>2. Surplus(t, w) = 0
  BY <1>1 DEF Surplus
<1>3. {t[j] : j \in 1..Surplus(t, w)} = {}
  BY <1>2
<1>4. Len(SubSeq(t, Surplus(t, w) + 1, Len(t))) = Len(t)
  <2>1. Surplus(t, w) + 1 = 1
    BY <1>2
  <2>2. Len(SubSeq(t, 1, Len(t))) = Len(t)
    BY <1>1
  <2>3. QED
    BY <2>1, <2>2
<1>5. Cached(c0, key, value, w) = Trimmed(Put(c0.results, key, value), t, w)
  BY DEF Cached, t
<1>6. /\ Trimmed(Put(c0.results, key, value), t, w).keys = SubSeq(t, Surplus(t, w) + 1, Len(t))
      /\ Trimmed(Put(c0.results, key, value), t, w).results
           = [k \in DOMAIN Put(c0.results, key, value) \ {t[j] : j \in 1..Surplus(t, w)}
                |-> Put(c0.results, key, value)[k]]
  BY DEF Trimmed
<1>7. DOMAIN Put(c0.results, key, value) = DOMAIN c0.results \cup {key}
  BY DEF Put
<1>8. Len(Cached(c0, key, value, w).keys) = Len(c0.keys) + 1
  BY <1>1, <1>4, <1>5, <1>6
<1>9. DOMAIN Cached(c0, key, value, w).results = DOMAIN c0.results \cup {key}
  BY <1>3, <1>5, <1>6, <1>7
<1>10. QED
  BY <1>8, <1>9

LEMMA AnswersKnown ==
  ASSUME Seen(replies') \subseteq Seen(replies) \cup {r \in Seen(replies') :
                                  r.id \in Malformed \/ KeyOf[r.id] \in DOMAIN cache'.results},
         AnsweredKeys \subseteq DOMAIN cache'.results
  PROVE AnsweredKeys' \subseteq DOMAIN cache'.results
BY DEF AnsweredKeys

LEMMA KeepsAllStep ==
  ASSUME NBase, CacheRan, KeepsAll, [Next]_nvars
  PROVE KeepsAll'
<1>0. NTypeOK /\ Len(runs) \in Nat /\ Len(cache.keys) \in Nat /\ Unsent \in 0..2
      /\ Window \in Nat /\ cache.keys \in Seq(Keys)
  BY NodeAssumption DEF NBase, NTypeOK, QueuesTypeOK, KeepsAll, Unsent
<1>1. CASE ReplyPolled \/ ReplyInline
  <2>1. /\ held \in Commands /\ InHand /\ ~InHand'
        /\ InWorker' <=> InWorker
        /\ runs' = runs
        /\ cache' = Cached(cache, KeyOf[held], held, Window)
        /\ replies' = Append(replies, Reply(held, held))
    BY <1>0, <1>1, SendFacts DEF InHand, InWorker, wvars
  <2>2. Unsent = Unsent' + 1 /\ Unsent' \in 0..1
    BY <2>1 DEF Unsent
  <2>3. KeyOf[held] \in Keys
    BY <2>1 DEF Keys
  <2>4. cache'.keys \in Seq(Keys)
    <3> DEFINE t == Append(cache.keys, KeyOf[held])
               s == Surplus(t, Window)
    <3>1. t \in Seq(Keys) /\ Len(t) \in Nat
      BY <1>0, <2>3
    <3>2. s \in Nat
      BY <1>0, <3>1 DEF Surplus
    <3>3. cache'.keys = SubSeq(t, s + 1, Len(t))
      BY <2>1 DEF Cached, Trimmed
    <3> HIDE DEF t, s
    <3>4. \A i \in (s + 1)..Len(t) : t[i] \in Keys
      BY <3>1, <3>2
    <3>5. s + 1 \in Int /\ Len(t) \in Int
      BY <3>1, <3>2
    <3>6. QED
      BY <3>3, <3>4, <3>5, SubSeqProperties
  <2>5. ASSUME Len(runs') <= Window
        PROVE /\ Len(cache'.keys) + Unsent' <= Len(runs')
              /\ AnsweredKeys' \subseteq DOMAIN cache'.results
    <3>1. Len(cache.keys) + Unsent <= Len(runs) /\ AnsweredKeys \subseteq DOMAIN cache.results
      BY <2>1, <2>5 DEF KeepsAll
    <3>2. Len(cache.keys) + 1 <= Window
      BY <1>0, <2>1, <2>2, <2>5, <3>1
    <3>3. /\ Len(cache'.keys) = Len(cache.keys) + 1
          /\ DOMAIN cache'.results = DOMAIN cache.results \cup {KeyOf[held]}
      <4>1. cache.keys \in Seq(Keys) /\ Window \in Nat
        BY <1>0
      <4>2. /\ Len(Cached(cache, KeyOf[held], held, Window).keys) = Len(cache.keys) + 1
            /\ DOMAIN Cached(cache, KeyOf[held], held, Window).results
                 = DOMAIN cache.results \cup {KeyOf[held]}
        BY <2>3, <3>2, <4>1, CachedWithin, Zenon
      <4>3. QED
        BY <2>1, <4>2
    <3>4. Seen(replies') = Seen(replies) \cup {Reply(held, held)} /\ Reply(held, held).id = held
      BY <1>0, <2>1, ReplyAdded
    <3>5. AnsweredKeys' \subseteq DOMAIN cache'.results
      BY <3>1, <3>3, <3>4, AnswersKnown
    <3>6. QED
      BY <1>0, <2>1, <2>2, <3>1, <3>3, <3>5
  <2>6. QED
    BY <2>4, <2>5 DEF KeepsAll
<1>2. CASE ~ReplyPolled /\ ~ReplyInline
  <2>1. cache' = cache
    BY <1>2, OthersKeep
  <2>2. \/ Len(runs') = Len(runs) + 1 /\ Unsent' = Unsent + 1
        \/ Len(runs') = Len(runs) /\ Unsent' <= Unsent
    BY <1>2, UnsentMoves
  <2>3. Unsent' \in 0..2
    BY DEF Unsent
  <2>4. ASSUME Len(runs') <= Window
        PROVE /\ Len(cache'.keys) + Unsent' <= Len(runs')
              /\ AnsweredKeys' \subseteq DOMAIN cache'.results
    <3>1. Len(runs) <= Window
      BY <1>0, <2>2, <2>4
    <3>2. Len(cache.keys) + Unsent <= Len(runs) /\ AnsweredKeys \subseteq DOMAIN cache.results
      BY <3>1 DEF KeepsAll
    <3>3. ASSUME UNCHANGED replies PROVE AnsweredKeys' \subseteq DOMAIN cache'.results
      BY <2>1, <3>2, <3>3, AnswersKnown DEF Seen
    <3>4. ASSUME NEW n \in Commands, ReadInvoke(n)
          PROVE AnsweredKeys' \subseteq DOMAIN cache'.results
      <4>1. CASE UNCHANGED replies
        BY <2>1, <3>2, <4>1, AnswersKnown DEF Seen
      <4>2. ASSUME NEW id \in Commands, replies' = Append(replies, Reply(n, id)),
                   \/ id \in Malformed
                   \/ KeyOf[n] \in DOMAIN cache.results /\ id = cache.results[KeyOf[n]]
            PROVE AnsweredKeys' \subseteq DOMAIN cache'.results
        <5>1. id \in Malformed \/ KeyOf[id] \in DOMAIN cache'.results
          BY <2>1, <4>2 DEF CacheRan
        <5>2. Seen(replies') = Seen(replies) \cup {Reply(n, id)} /\ Reply(n, id).id = id
          BY <1>0, <4>2, ReplyAdded
        <5>3. QED
          BY <2>1, <3>2, <5>1, <5>2, AnswersKnown
      <4>3. QED
        BY <1>0, <3>4, <4>1, <4>2, ReadReplies
    <3>5. QED
      BY <1>0, <1>2, <2>1, <2>2, <2>3, <3>2, <3>3, <3>4, OthersKeep
  <2>5. QED
    BY <1>0, <2>1, <2>4 DEF KeepsAll
<1>3. QED
  BY <1>1, <1>2

(* As long as nothing had to leave the window, a key that was answered is  *)
(* answered from the cache and not queued again (transport 284-303).       *)
THEOREM AnsweredKeysReplay == Spec => ReplaysAnswered
<1>1. Init => KeepsAll
  <2> SUFFICES ASSUME Init PROVE KeepsAll
    OBVIOUS
  <2>1. /\ main = "top" /\ result = NoCmd /\ thread.at = "ready" /\ runs = << >>
        /\ cache = EmptyCache /\ replies = << >>
    BY DEF Init, WInit, Ready, Frame
  <2>2. Unsent = 0 /\ AnsweredKeys = {}
    BY <2>1 DEF Unsent, InHand, InWorker, AnsweredKeys, Seen
  <2>3. cache.keys = << >>
    BY <2>1 DEF EmptyCache
  <2>4. QED
    BY <2>1, <2>2, <2>3 DEF KeepsAll
<1>2. NBase /\ Truth /\ KeepsAll /\ [Next]_nvars => KeepsAll'
  BY KeepsAllStep DEF Truth
<1>3. NBase /\ KeepsAll /\ [Next]_nvars
      => [\A c \in Seen(pending') \ Seen(pending) :
            Len(runs) <= Window => KeyOf[c] \notin AnsweredKeys]_nvars
  <2> SUFFICES ASSUME NBase, KeepsAll, [Next]_nvars, Len(runs) <= Window,
                      NEW c \in Seen(pending') \ Seen(pending)
               PROVE KeyOf[c] \notin AnsweredKeys
    OBVIOUS
  <2>1. AnsweredKeys \subseteq DOMAIN cache.results /\ pending \in Seq(Commands)
    BY DEF KeepsAll, NBase, NTypeOK, QueuesTypeOK
  <2>2. pending' # pending
    BY DEF Seen
  <2>3. CASE Pops
    <3>1. Seen(Tail(pending)) \subseteq Seen(pending)
      <4>1. /\ DOMAIN Tail(pending) = 1..(Len(pending) - 1)
            /\ DOMAIN pending = 1..Len(pending) /\ Len(pending) \in Nat
            /\ \A j \in 1..(Len(pending) - 1) : Tail(pending)[j] = pending[j + 1]
        BY <2>1, <2>3 DEF Pops
      <4>2. \A j \in 1..(Len(pending) - 1) : j + 1 \in 1..Len(pending)
        BY <4>1
      <4>3. QED
        BY <4>1, <4>2 DEF Seen
    <3>2. QED
      BY <2>3, <3>1 DEF Pops
  <2>4. ASSUME NEW n \in Commands, ReadInvoke(n) PROVE KeyOf[c] \notin AnsweredKeys
    <3>1. pending' = Append(pending, n) /\ KeyOf[n] \notin DOMAIN cache.results
      BY <2>2, <2>4 DEF ReadInvoke, Consume, Known
    <3>2. Seen(pending') = Seen(pending) \cup {n}
      BY <2>1, <3>1, SeenAppend
    <3>3. c = n
      BY <3>2
    <3>4. QED
      BY <2>1, <3>1, <3>3
  <2>5. QED
    BY <2>2, <2>3, <2>4, UnrunMoves DEF Stays, Runs
<1>4. QED
  BY <1>1, <1>2, <1>3, AlwaysInLine, AlwaysTrue, PTL DEF Spec, ReplaysAnswered

-----------------------------------------------------------------------------
(* The result in the loop's hands is the only one: while the loop sends it *)
(* the worker is free, and a firmware without threads has no other.        *)
Handing ==
  /\ HasWorker => main # "inlineReply"
  /\ ~HasWorker => result = NoCmd
  /\ main = "reply" => Free

LEMMA HandingStep ==
  ASSUME NBase, Handing, [Next]_nvars
  PROVE Handing'
<1> USE DEF Handing, At, Goto, loop, history
<1>1. CASE Reconnect \/ TopOnline \/ EndTick \/ EndFlush \/ CanAccept \/ EndRead
           \/ BreakInFlush \/ BreakInRead \/ RecvCmd
  <2>1. UNCHANGED wvars /\ main' \notin {"reply", "inlineReply"}
    BY <1>1 DEF Reconnect, TopOnline, EndTick, EndFlush, CanAccept, Accepts, EndRead,
         BreakInFlush, BreakInRead, Flushing, Reading, RecvCmd
  <2>2. QED
    BY <2>1 DEF wvars
<1>2. CASE ReplyPolled \/ ReplyInline
  BY <1>2 DEF ReplyPolled, ReplyInline, SendResult, wvars
<1>3. ASSUME NEW n \in Commands, ReadInvoke(n) PROVE Handing'
  BY <1>3 DEF ReadInvoke, wvars, Free
<1>4. CASE PollResult
  <2>1. result # NoCmd => pendingCmd = NoCmd /\ ~executing
    BY DEF NBase, OneCommand
  <2>2. QED
    BY <1>4, <2>1 DEF PollResult, Poll, Free
<1>5. CASE SubmitHeld
  BY <1>5 DEF SubmitHeld, Submit
<1>6. CASE InlineStart
  BY <1>6 DEF InlineStart, fields
<1>7. CASE InlineFinish
  BY <1>7 DEF InlineFinish, fields, NBase, FreeWhileReceiving
<1>8. CASE CallReturns
  BY <1>8 DEF CallReturns, CallerNotes, NoteStart, NoteCaller, fields, Free
<1>9. CASE ToolReturns
  BY <1>9 DEF ToolReturns, Execute, fields, Free
<1>10. CASE ThreadMoves
  <2>1. HasWorker /\ UNCHANGED main
    BY <1>10 DEF ThreadMoves
  <2>2. executing <=> thread.at \in {"execute", "store"}
    BY DEF NBase, OneCommand
  <2>3. QED
    BY <1>10, <2>1, <2>2 DEF ThreadMoves, Take, Store, NoteFinish, NoteThread, fields, Free
<1>11. CASE UNCHANGED nvars
  BY <1>11 DEF nvars, wvars, Free
<1>12. QED
  BY <1>1, <1>2, <1>3, <1>4, <1>5, <1>6, <1>7, <1>8, <1>9, <1>10, <1>11
  DEF Next, LoopStep

LEMMA AlwaysHanding == Spec => []Handing
<1>1. Init => Handing
  BY DEF Init, WInit, Handing
<1>2. NBase /\ Handing /\ [Next]_nvars => Handing'
  BY HandingStep
<1>3. QED
  BY <1>1, <1>2, AlwaysInLine, PTL DEF Spec

(* While the loop holds a result, nothing waits or runs in the worker.     *)
LEMMA HandsAreAlone ==
  ASSUME NBase, Handing, InHand
  PROVE /\ held \in Commands /\ Unreplied = held
        /\ pendingCmd = NoCmd /\ result = NoCmd /\ ~executing
        /\ thread.at \notin {"execute", "store"}
BY DEF NBase, Handing, InHand, NTypeOK, LoopTypeOK, Slots, WorkerUnused, OneCommand, Free,
     Unreplied

(* What each step does to the result that is not replied to yet: nothing,  *)
(* unless a tool ends or the reply is enqueued.                            *)
Lingers == Unreplied' = Unreplied /\ UNCHANGED runs
Ends == /\ Unreplied = NoCmd /\ Unreplied' \in Commands
        /\ runs' = Append(runs, Unreplied') /\ UNCHANGED replies
Leaves == /\ Unreplied \in Commands /\ Unreplied' = NoCmd
          /\ replies' = Append(replies, Reply(Unreplied, Unreplied))
          /\ UNCHANGED <<runs, pending>>

LEMMA UnrepliedMoves ==
  ASSUME NBase, Handing, [Next]_nvars
  PROVE \/ Lingers /\ ~ReplyPolled /\ ~ReplyInline
        \/ Ends
        \/ Leaves /\ (ReplyPolled \/ ReplyInline)
<1> USE CommandAssumption
<1>1. CASE ReplyPolled \/ ReplyInline
  <2>1. InHand /\ main' \notin {"reply", "inlineReply"}
    BY <1>1, SendFacts DEF NBase
  <2>2. /\ UNCHANGED <<wvars, runs, pending>>
        /\ replies' = Append(replies, Reply(held, held))
    BY <1>1 DEF ReplyPolled, ReplyInline, SendResult
  <2>3. Unreplied' = NoCmd
    BY <2>1, <2>2, HandsAreAlone DEF Unreplied, wvars
  <2>4. QED
    BY <1>1, <2>1, <2>2, <2>3, HandsAreAlone DEF Leaves
<1>2. CASE InlineFinish
  <2>1. held \in Commands /\ ~HasWorker
    BY <1>2 DEF InlineFinish, At, NBase, NTypeOK, LoopTypeOK, Slots, FreeWhileReceiving
  <2>2. Unreplied = NoCmd
    BY <1>2, <2>1 DEF InlineFinish, At, Handing, NBase, WorkerUnused, Unreplied
  <2>3. Unreplied' = held
    BY <1>2 DEF InlineFinish, At, Goto, Unreplied
  <2>4. QED
    BY <1>2, <2>1, <2>2, <2>3 DEF InlineFinish, Ends
<1>3. CASE ToolReturns
  <2>1. /\ thread.at = "execute" /\ thread.cmd \in Commands /\ executing /\ result = NoCmd
        /\ HasWorker
    BY <1>3 DEF ToolReturns, Execute, NBase, NTypeOK, WTypeOK, OneCommand
  <2>2. thread'.at = "store" /\ thread'.cmd = thread.cmd
    BY <1>3 DEF ToolReturns, Execute, NBase, NTypeOK, WTypeOK
  <2>3. main \notin {"reply", "inlineReply"} /\ main' = main
    BY <1>3, <2>1, HandsAreAlone DEF ToolReturns, loop, InHand
  <2>4. Unreplied = NoCmd /\ Unreplied' = thread.cmd
    BY <2>1, <2>2, <2>3 DEF Unreplied
  <2>5. QED
    BY <1>3, <2>1, <2>4 DEF ToolReturns, Ends
<1>4. CASE PollResult
  <2>1. /\ main \notin {"reply", "inlineReply"} /\ held' = result
        /\ main' = IF result # NoCmd THEN "reply" ELSE "accept"
        /\ thread' = thread /\ result' = NoCmd /\ runs' = runs
    BY <1>4 DEF PollResult, Poll, At, Goto, history
  <2>2. result # NoCmd => thread.at # "store"
    BY DEF NBase, OneCommand
  <2>3. Lingers
    BY <2>1, <2>2 DEF Unreplied, Lingers
  <2>4. QED
    BY <1>4, <2>3 DEF PollResult, ReplyPolled, ReplyInline, At
<1>5. CASE ~ReplyPolled /\ ~ReplyInline /\ ~InlineFinish /\ ~ToolReturns /\ ~PollResult
  <2> SUFFICES Lingers
    BY <1>5
  <2>1. CASE Reconnect \/ TopOnline \/ EndTick \/ EndFlush \/ CanAccept \/ EndRead
             \/ BreakInFlush \/ BreakInRead \/ RecvCmd
    <3>1. /\ main \notin {"reply", "inlineReply"} /\ main' \notin {"reply", "inlineReply"}
          /\ UNCHANGED <<wvars, runs>>
      BY <2>1 DEF Reconnect, TopOnline, EndTick, EndFlush, CanAccept, Accepts, EndRead,
           BreakInFlush, BreakInRead, Flushing, Reading, RecvCmd, At, Goto, history
    <3>2. QED
      BY <3>1 DEF wvars, Unreplied, Lingers
  <2>2. ASSUME NEW n \in Commands, ReadInvoke(n) PROVE Lingers
    BY <2>2 DEF ReadInvoke, wvars, loop, Unreplied, Lingers
  <2>3. CASE SubmitHeld
    BY <2>3 DEF SubmitHeld, Submit, At, Goto, history, Unreplied, Lingers
  <2>4. CASE InlineStart
    BY <2>4 DEF InlineStart, fields, At, Goto, history, Unreplied, Lingers
  <2>5. CASE CallReturns
    BY <2>5 DEF CallReturns, CallerNotes, NoteStart, NoteCaller, fields, loop, history,
         Unreplied, Lingers
  <2>6. CASE ThreadMoves
    <3>1. UNCHANGED <<runs, main, held>>
      BY <2>6 DEF ThreadMoves, loop, history
    <3>2. CASE Store
      <4>1. thread.at = "store" /\ result' = thread.cmd /\ thread'.at = "finish"
        BY <3>2 DEF Store, NBase, NTypeOK, WTypeOK
      <4>2. QED
        BY <3>1, <4>1 DEF Unreplied, Lingers
    <3>3. CASE Take \/ NoteFinish \/ NoteThread
      <4>1. thread.at # "store" /\ thread'.at # "store" /\ UNCHANGED result
        BY <3>3 DEF Take, NoteFinish, NoteThread, Ready, Frame, fields, NBase, NTypeOK, WTypeOK
      <4>2. QED
        BY <3>1, <4>1 DEF Unreplied, Lingers
    <3>4. QED
      BY <2>6, <3>2, <3>3 DEF ThreadMoves
  <2>7. CASE UNCHANGED nvars
    BY <2>7 DEF nvars, wvars, loop, history, Unreplied, Lingers
  <2>8. QED
    BY <1>5, <2>1, <2>2, <2>3, <2>4, <2>5, <2>6, <2>7 DEF Next, LoopStep
<1>6. QED
  BY <1>1, <1>2, <1>3, <1>4, <1>5

-----------------------------------------------------------------------------
(* What is cached was sent, and no invoke with parameters that do not parse *)
(* comes as far as the queue.                                               *)
CacheSent ==
  \A k \in DOMAIN cache.results :
    /\ Reply(cache.results[k], cache.results[k]) \in Seen(replies)
    /\ cache.results[k] \notin Malformed
Parsed == \A c \in Malformed : ~Queued(c) /\ held # c /\ Slot # c

LEMMA ParsedStep ==
  ASSUME NTypeOK, OneCommand, Parsed, [Next]_nvars
  PROVE Parsed'
<1> USE CommandAssumption, NodeAssumption DEF Parsed, NTypeOK
<1>1. CASE Reconnect \/ TopOnline \/ EndTick \/ EndFlush \/ CanAccept \/ EndRead
           \/ BreakInFlush \/ BreakInRead
  BY <1>1 DEF Reconnect, TopOnline, EndTick, EndFlush, CanAccept, EndRead, BreakInFlush,
       BreakInRead, wvars, Slot, Queued, Seen
<1>2. CASE ReplyPolled \/ ReplyInline
  BY <1>2 DEF ReplyPolled, ReplyInline, SendResult, wvars, Slot, Queued, Seen
<1>3. ASSUME NEW n \in Commands, ReadInvoke(n) PROVE Parsed'
  <2>1. UNCHANGED <<held, wvars>>
    BY <1>3 DEF ReadInvoke, loop
  <2>2. \/ pending' = pending
        \/ n \notin Malformed /\ pending' = Append(pending, n)
    BY <1>3 DEF ReadInvoke, Consume
  <2>3. pending' = Append(pending, n) => Seen(pending') = Seen(pending) \cup {n}
    BY SeenAppend DEF QueuesTypeOK
  <2>4. \A c \in Malformed : ~Queued(c)'
    BY <2>2, <2>3 DEF Queued, Seen
  <2>5. QED
    BY <2>1, <2>4 DEF wvars, Slot
<1>4. CASE PollResult
  <2>1. held' = result /\ pending' = pending
    BY <1>4 DEF PollResult
  <2>2. QED
    BY <1>4, <2>1, SlotPolled DEF Queued, Seen
<1>5. CASE RecvCmd
  <2>1. /\ pending \in Seq(Commands) /\ pending # << >>
        /\ held' = Head(pending) /\ pending' = Tail(pending) /\ UNCHANGED wvars
    BY <1>5 DEF RecvCmd, PopPending, QueuesTypeOK
  <2>2. /\ Head(pending) = pending[1] /\ 1 \in DOMAIN pending
        /\ \A j \in DOMAIN Tail(pending) :
             j + 1 \in DOMAIN pending /\ Tail(pending)[j] = pending[j + 1]
    BY <2>1
  <2>3. held' \in Seen(pending) /\ Seen(pending') \subseteq Seen(pending)
    BY <2>1, <2>2 DEF Seen
  <2>4. QED
    BY <2>1, <2>3 DEF wvars, Slot, Queued
<1>6. CASE SubmitHeld
  <2>1. held' = NoCmd /\ pending' = pending
    BY <1>6 DEF SubmitHeld
  <2>2. QED
    BY <1>6, <2>1, SlotFilled DEF Queued, Seen
<1>7. CASE InlineStart \/ InlineFinish
  BY <1>7 DEF InlineStart, InlineFinish, fields, Slot, Queued, Seen
<1>8. CASE CallReturns \/ ToolReturns \/ ThreadMoves
  <2>1. UNCHANGED <<pending, held>>
    BY <1>8 DEF CallReturns, ToolReturns, ThreadMoves, loop
  <2>2. QED
    BY <1>8, <2>1, SlotKept DEF Queued, Seen
<1>9. CASE UNCHANGED nvars
  BY <1>9 DEF nvars, wvars, loop, Slot, Queued, Seen
<1>10. QED
  BY <1>1, <1>2, <1>3, <1>4, <1>5, <1>6, <1>7, <1>8, <1>9 DEF Next, LoopStep

LEMMA CacheSentStep ==
  ASSUME NTypeOK, Parsed, CacheSent, [Next]_nvars
  PROVE CacheSent'
<1>1. CASE ReplyPolled \/ ReplyInline
  <2>1. /\ held \in Commands /\ held \notin Malformed
        /\ cache' = Cached(cache, KeyOf[held], held, Window)
        /\ replies' = Append(replies, Reply(held, held))
    BY <1>1, SendFacts DEF Parsed
  <2>2. Seen(replies') = Seen(replies) \cup {Reply(held, held)}
    BY <2>1, ReplyAdded
  <2>3. \A k \in DOMAIN cache'.results :
          \/ cache'.results[k] = held
          \/ k \in DOMAIN cache.results /\ cache'.results[k] = cache.results[k]
    BY <2>1 DEF Cached, Trimmed, Put
  <2>4. QED
    BY <2>1, <2>2, <2>3 DEF CacheSent
<1>2. CASE ~ReplyPolled /\ ~ReplyInline
  <2>1. UNCHANGED cache
    BY <1>2, OthersKeep
  <2>2. Seen(replies) \subseteq Seen(replies')
    <3>1. CASE UNCHANGED replies
      BY <3>1 DEF Seen
    <3>2. ASSUME NEW n \in Commands, ReadInvoke(n) PROVE Seen(replies) \subseteq Seen(replies')
      BY <3>2, ReadReplies, ReplyAdded DEF Seen
    <3>3. QED
      BY <1>2, <3>1, <3>2, OthersKeep
  <2>3. QED
    BY <2>1, <2>2 DEF CacheSent
<1>3. QED
  BY <1>1, <1>2

LEMMA AlwaysSent == Spec => [](Parsed /\ CacheSent)
<1>1. Init => Parsed /\ CacheSent
  <2> SUFFICES ASSUME Init PROVE Parsed /\ CacheSent
    OBVIOUS
  <2>1. /\ pending = << >> /\ held = NoCmd /\ Slot = NoCmd /\ cache = EmptyCache
    BY DEF Init, WInit, Slot
  <2>2. QED
    BY <2>1, CommandAssumption, NodeAssumption
    DEF Parsed, CacheSent, EmptyCache, Queued, Seen
<1>2. NTypeOK /\ OneCommand /\ Parsed /\ CacheSent /\ [Next]_nvars => Parsed' /\ CacheSent'
  BY ParsedStep, CacheSentStep
<1>3. QED
  BY <1>1, <1>2, NTyping, OneAtATimeInNode, PTL DEF Spec

-----------------------------------------------------------------------------
(* What was served before the queue, and the queue with one more.          *)
LEMMA InFront ==
  ASSUME NEW S, NEW s \in Seq(S), NEW x \in S
  PROVE /\ <<x>> \o s # << >>
        /\ Head(<<x>> \o s) = x
        /\ Tail(<<x>> \o s) = s
        /\ Seen(<<x>> \o s) = Seen(s) \cup {x}
<1> DEFINE t == <<x>> \o s
<1>1. /\ t \in Seq(S) /\ Len(t) = Len(s) + 1 /\ Len(s) \in Nat
      /\ DOMAIN t = 1..(Len(s) + 1) /\ DOMAIN s = 1..Len(s)
      /\ t[1] = x /\ \A j \in 1..Len(s) : t[j + 1] = s[j]
  OBVIOUS
<1>2. t # << >> /\ Head(t) = x
  BY <1>1
<1>3. Tail(t) = s
  <2>1. /\ Tail(t) \in Seq(S) /\ Len(Tail(t)) = Len(s)
        /\ \A j \in 1..Len(s) : Tail(t)[j] = t[j + 1]
    BY <1>1, <1>2
  <2>2. QED
    BY <1>1, <2>1
<1>4. Seen(t) = Seen(s) \cup {x}
  <2>1. ASSUME NEW y \in Seen(t) PROVE y \in Seen(s) \cup {x}
    <3>1. PICK j \in DOMAIN t : y = t[j]
      BY <2>1 DEF Seen
    <3>2. CASE j = 1
      BY <1>1, <3>1, <3>2
    <3>3. CASE j # 1
      <4>1. j - 1 \in 1..Len(s) /\ (j - 1) + 1 = j
        BY <1>1, <3>1, <3>3
      <4>2. y = s[j - 1] /\ j - 1 \in DOMAIN s
        BY <1>1, <3>1, <4>1
      <4>3. QED
        BY <4>2 DEF Seen
    <3>4. QED
      BY <3>2, <3>3
  <2>2. ASSUME NEW y \in Seen(s) PROVE y \in Seen(t)
    <3>1. PICK j \in DOMAIN s : y = s[j]
      BY <2>2 DEF Seen
    <3>2. j + 1 \in DOMAIN t /\ t[j + 1] = y
      BY <1>1, <3>1
    <3>3. QED
      BY <3>2 DEF Seen
  <2>3. x \in Seen(t)
    <3>1. 1 \in DOMAIN t /\ t[1] = x
      BY <1>1
    <3>2. QED
      BY <3>1 DEF Seen
  <2>4. QED
    BY <2>1, <2>2, <2>3
<1>5. QED
  BY <1>2, <1>3, <1>4

LEMMA FrontAppend ==
  ASSUME NEW S, NEW s \in Seq(S), NEW x \in S, NEW y \in S
  PROVE <<x>> \o Append(s, y) = Append(<<x>> \o s, y)
OBVIOUS

(* The command between queue and tool is a command, or there is none.      *)
LEMMA UnrunTyped ==
  ASSUME NTypeOK
  PROVE Unrun \in Slots
BY DEF Unrun, NTypeOK, WTypeOK, LoopTypeOK, Slots

(* An invoke the Gateway has not sent before is nowhere in the service.    *)
LEMMA UnreadIsNew ==
  ASSUME NBase, NoInvokeLost, NEW c \in Commands, c \notin Seen(arrivals)
  PROVE Service!New(c)
<1> USE CommandAssumption
<1>1. ~Queued(c) /\ held # c /\ Slot # c /\ ~Answered(c) /\ c # NoCmd
  BY DEF NoInvokeLost, InPlace
<1>2. pendingCmd # c /\ result # c /\ (thread.at \in {"execute", "store"} => thread.cmd # c)
  BY <1>1 DEF NBase, OneCommand, Slot
<1>3. Unrun # c /\ Unreplied # c
  BY <1>1, <1>2 DEF Unrun, Unreplied
<1>4. Unrun \in Slots
  BY UnrunTyped DEF NBase
<1>5. c \notin Seen(Waiting)
  <2>1. pending \in Seq(Commands)
    BY DEF NBase, NTypeOK, QueuesTypeOK
  <2>2. CASE Unrun = NoCmd
    BY <1>1, <2>2 DEF Waiting, Queued
  <2>3. CASE Unrun # NoCmd
    <3>1. PICK u \in Commands : u = Unrun
      BY <1>4, <2>3 DEF Slots
    <3>2. Seen(<<u>> \o pending) = Seen(pending) \cup {u}
      BY <2>1, InFront
    <3>3. QED
      BY <1>1, <1>3, <2>3, <3>1, <3>2 DEF Waiting, Queued
  <2>4. QED
    BY <2>2, <2>3
<1>6. \A j \in DOMAIN Waiting : Waiting[j] # c
  BY <1>5 DEF Seen
<1>7. \A j \in DOMAIN replies : replies[j].for # c
  BY <1>1 DEF Answered, Seen
<1>8. QED
  BY <1>3, <1>6, <1>7 DEF Service!New, Service!Replied

(* An invoke that is read is queued behind all others, answered because it *)
(* does not parse, or answered with what an earlier invoke was answered.   *)
LEMMA ReadServes ==
  ASSUME NBase, NoInvokeLost, CacheRan, CacheSent, NEW c \in Commands, ReadInvoke(c)
  PROVE Service!Accept(c) \/ Service!Refuse(c) \/ Service!Replay(c)
<1> USE CommandAssumption
<1>1. /\ c \notin Seen(arrivals) /\ Consume(c)
      /\ UNCHANGED <<main, held, wvars>>
  BY DEF ReadInvoke, loop
<1>2. Unrun' = Unrun /\ Unreplied' = Unreplied
  BY <1>1 DEF wvars, Unrun, Unreplied
<1>3. Service!New(c)
  BY <1>1, UnreadIsNew
<1>4. CASE c \in Malformed
  <2>1. replies' = Append(replies, Reply(c, c)) /\ pending' = pending
    BY <1>1, <1>4 DEF Consume
  <2>2. Waiting' = Waiting
    BY <1>2, <2>1 DEF Waiting
  <2>3. QED
    BY <1>2, <1>3, <1>4, <2>1, <2>2 DEF Service!Refuse, Service!Answers, Reply
<1>5. CASE c \notin Malformed /\ Known(cache, KeyOf[c])
  <2>1. /\ replies' = Append(replies, Reply(c, cache.results[KeyOf[c]]))
        /\ pending' = pending
    BY <1>1, <1>5 DEF Consume
  <2>2. PICK d : d = cache.results[KeyOf[c]]
    OBVIOUS
  <2>3. /\ d \in Commands /\ d \notin Malformed /\ KeyOf[d] = KeyOf[c]
        /\ Reply(d, d) \in Seen(replies)
    BY <1>5, <2>2 DEF Known, CacheRan, CacheSent, NBase, NTypeOK, QueuesTypeOK
  <2>4. \E j \in DOMAIN replies : replies[j] = [for |-> d, id |-> d]
    BY <2>3 DEF Seen, Reply
  <2>5. Waiting' = Waiting
    BY <1>2, <2>1 DEF Waiting
  <2>6. QED
    BY <1>2, <1>3, <1>5, <2>1, <2>2, <2>3, <2>4, <2>5
    DEF Service!Replay, Service!Answers, Reply
<1>6. CASE c \notin Malformed /\ ~Known(cache, KeyOf[c])
  <2>1. pending' = Append(pending, c) /\ replies' = replies
    BY <1>1, <1>6 DEF Consume
  <2>2. Waiting' = Append(Waiting, c)
    <3>1. pending \in Seq(Commands)
      BY DEF NBase, NTypeOK, QueuesTypeOK
    <3>2. CASE Unrun = NoCmd
      BY <1>2, <2>1, <3>2 DEF Waiting
    <3>3. CASE Unrun # NoCmd
      <4>1. PICK u \in Commands : u = Unrun
        BY <3>3, UnrunTyped DEF NBase, Slots
      <4>2. <<u>> \o Append(pending, c) = Append(<<u>> \o pending, c)
        BY <3>1, FrontAppend
      <4>3. QED
        BY <1>2, <2>1, <3>3, <4>1, <4>2 DEF Waiting
    <3>4. QED
      BY <3>2, <3>3
  <2>3. QED
    BY <1>2, <1>3, <1>6, <2>1, <2>2 DEF Service!Accept
<1>7. QED
  BY <1>4, <1>5, <1>6

(* Between reads, what waits in the service stays, until the first of them *)
(* has run: then it waits for its reply.                                   *)
LEMMA QueueServes ==
  ASSUME NBase, Handing, [Next]_nvars, ~\E n \in Commands : ReadInvoke(n)
  PROVE \/ Waiting' = Waiting /\ UNCHANGED runs
        \/ Runs /\ Waiting # << >> /\ Unrun = Head(Waiting) /\ Waiting' = Tail(Waiting)
<1> USE CommandAssumption
<1>1. pending \in Seq(Commands)
  BY DEF NBase, NTypeOK, QueuesTypeOK
<1>2. CASE Stays
  BY <1>2 DEF Stays, Waiting
<1>3. CASE Pops
  <2>1. pending = <<Head(pending)>> \o Tail(pending) /\ Head(pending) \in Commands
    BY <1>1, <1>3 DEF Pops
  <2>2. QED
    BY <1>3, <2>1 DEF Pops, Waiting
<1>4. CASE Runs
  <2>1. PICK u \in Commands : u = Unrun
    BY <1>4 DEF Runs
  <2>2. Waiting = <<u>> \o pending /\ Waiting' = pending
    BY <1>4, <2>1 DEF Runs, Waiting
  <2>3. QED
    BY <1>1, <1>4, <2>1, <2>2, InFront
<1>5. QED
  BY <1>2, <1>3, <1>4, UnrunMoves

LEMMA ServiceStep ==
  ASSUME NBase, Handing, NoInvokeLost, CacheRan, CacheSent, [Next]_nvars
  PROVE [Service!Serve]_(Service!ivars)
<1> USE CommandAssumption
<1>1. ASSUME NEW c \in Commands, ReadInvoke(c) PROVE Service!Serve
  BY <1>1, ReadServes DEF Service!Serve
<1>2. CASE ~\E n \in Commands : ReadInvoke(n)
  <2>0. runs \in Seq(Commands)
    BY DEF NBase, NTypeOK, QueuesTypeOK
  <2>1. CASE Lingers /\ ~ReplyPolled /\ ~ReplyInline
    <3>1. UNCHANGED <<runs, replies>>
      BY <1>2, <2>1, OthersKeep DEF Lingers
    <3>2. ~Runs
      BY <2>0, <3>1 DEF Runs
    <3>3. QED
      BY <1>2, <2>1, <3>1, <3>2, QueueServes DEF Lingers, Service!ivars
  <2>2. CASE Ends
    <3>1. runs' # runs
      BY <2>0, <2>2 DEF Ends
    <3>2. Runs /\ Waiting # << >> /\ Unrun = Head(Waiting) /\ Waiting' = Tail(Waiting)
      BY <1>2, <3>1, QueueServes
    <3>3. Unreplied' = Unrun
      <4>1. PICK u \in Commands, v \in Commands : u = Unrun /\ v = Unreplied'
        BY <2>2, <3>2 DEF Ends, Runs
      <4>2. Append(runs, u) = Append(runs, v)
        BY <2>2, <3>2, <4>1 DEF Ends, Runs
      <4>3. u = v
        BY <2>0, <4>2
      <4>4. QED
        BY <4>1, <4>3
    <3>4. Service!Run
      BY <2>2, <3>2, <3>3 DEF Ends, Service!Run
    <3>5. QED
      BY <3>4 DEF Service!Serve
  <2>3. CASE Leaves
    <3>1. UNCHANGED runs
      BY <2>3 DEF Leaves
    <3>2. ~Runs
      BY <2>0, <3>1 DEF Runs
    <3>3. Waiting' = Waiting
      BY <1>2, <3>2, QueueServes
    <3>4. Service!Send
      BY <2>3, <3>3 DEF Leaves, Reply, Service!Send, Service!Answers
    <3>5. QED
      BY <3>4 DEF Service!Serve
  <2>4. QED
    BY <2>1, <2>2, <2>3, UnrepliedMoves
<1>3. QED
  BY <1>1, <1>2

(* To the Gateway the node is the service it promises: whatever sessions   *)
(* break, whichever thread runs the tools and however small the window is, *)
(* tools run one at a time in the order of arrival, every invoke has one   *)
(* reply, and an old result answers only a repeated key (agent.py 111-148, *)
(* transport 129-135 and 262-303, command_worker.py 44-127).               *)
THEOREM NodeKeepsService == Spec => KeepsService
<1>1. Init => Service!Idle
  <2> SUFFICES ASSUME Init PROVE Service!Idle
    OBVIOUS
  <2>1. /\ Unrun = NoCmd /\ Unreplied = NoCmd /\ pending = << >> /\ replies = << >>
    BY DEF Init, WInit, Ready, Frame, Unrun, Unreplied
  <2>2. QED
    BY <2>1 DEF Waiting, Service!Idle
<1>2. /\ NBase /\ Handing /\ NoInvokeLost /\ Truth /\ CacheSent /\ [Next]_nvars
      => [Service!Serve]_(Service!ivars)
  BY ServiceStep DEF Truth
<1>3. QED
  BY <1>1, <1>2, AlwaysInLine, AlwaysHanding, EveryInvokeInOnePlace, AlwaysTrue, AlwaysSent,
     PTL DEF Spec, KeepsService, Service!ServiceSpec
=============================================================================
