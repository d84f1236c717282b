---------------------------- MODULE CommandWorker ----------------------------
(***************************************************************************)
(* CommandWorker (command_worker.py) and the part of RuntimeState that     *)
(* tells operators what the worker does (runtime_state.py).                *)
(*                                                                         *)
(* The main thread submits a command and polls for its result; a second    *)
(* thread executes it.  The three fields of the worker change under its    *)
(* lock; the status in RuntimeState is written after the lock is released, *)
(* by either thread, so these writes are steps of their own.               *)
(***************************************************************************)
EXTENDS Naturals, FiniteSets

CONSTANTS Commands, NoCmd

ASSUME CommandAssumption == NoCmd \notin Commands

VARIABLES
  pendingCmd,   \* _pending_cmd
  result,       \* _result: the command whose result waits to be polled
  executing,    \* _executing
  thread,       \* the worker thread: where it is, its cmd and busy locals
  caller,       \* the main thread inside submit or poll_result, likewise
  inflight,     \* RuntimeState.inflight_cmd_id
  busy          \* RuntimeState.worker_busy

fields == <<pendingCmd, result, executing>>
status == <<inflight, busy>>
wvars == <<pendingCmd, result, executing, thread, caller, inflight, busy>>

Frame(step, cmd, isBusy) == [at |-> step, cmd |-> cmd, busy |-> isBusy]
Ready == Frame("ready", NoCmd, FALSE)

WInit ==
  /\ pendingCmd = NoCmd
  /\ result = NoCmd
  /\ executing = FALSE
  /\ thread = Ready
  /\ caller = Ready
  /\ inflight = NoCmd
  /\ busy = FALSE

-----------------------------------------------------------------------------
(* The main thread. *)

Free == pendingCmd = NoCmd /\ result = NoCmd /\ ~executing

(* submit: the slot is taken under the lock, the status noted afterwards. *)
Submit(c) ==
  /\ caller.at = "ready"
  /\ Free
  /\ pendingCmd' = c
  /\ caller' = Frame("start", c, TRUE)
  /\ UNCHANGED <<result, executing, thread, inflight, busy>>

NoteStart ==
  /\ caller.at = "start"
  /\ inflight' = caller.cmd
  /\ caller' = [caller EXCEPT !.at = "status"]
  /\ UNCHANGED <<fields, thread, busy>>

(* poll_result, which returns the waiting result, if any. *)
Poll ==
  /\ caller.at = "ready"
  /\ result' = NoCmd
  /\ caller' = Frame("status", NoCmd, pendingCmd # NoCmd \/ executing)
  /\ UNCHANGED <<pendingCmd, executing, thread, inflight, busy>>

NoteCaller ==
  /\ caller.at = "status"
  /\ busy' = caller.busy
  /\ caller' = Ready
  /\ UNCHANGED <<fields, thread, inflight>>

-----------------------------------------------------------------------------
(* The worker thread. *)

(* Mutant: the slot is not tested before the thread takes it. *)
TakeNothing ==
  /\ thread.at = "ready"
  /\ result = NoCmd /\ ~executing
  /\ thread' = Frame("execute", pendingCmd, FALSE)
  /\ pendingCmd' = NoCmd
  /\ executing' = TRUE
  /\ UNCHANGED <<result, caller, status>>

(* Mutant: the slot keeps the command the thread takes. *)
TakeCopy ==
  /\ thread.at = "ready"
  /\ pendingCmd # NoCmd /\ result = NoCmd /\ ~executing
  /\ thread' = Frame("execute", pendingCmd, FALSE)
  /\ executing' = TRUE
  /\ UNCHANGED <<pendingCmd, result, caller, status>>

Take ==
  /\ thread.at = "ready"
  /\ pendingCmd # NoCmd /\ result = NoCmd /\ ~executing
  /\ thread' = Frame("execute", pendingCmd, FALSE)
  /\ pendingCmd' = NoCmd
  /\ executing' = TRUE
  /\ UNCHANGED <<result, caller, status>>

(* The tool returns or raises; either way there is a result. *)
Execute ==
  /\ thread.at = "execute"
  /\ thread' = [thread EXCEPT !.at = "store"]
  /\ UNCHANGED <<fields, caller, status>>

(* Mutant: the result is not stored. *)
StoreForgotten ==
  /\ thread.at = "store"
  /\ executing' = FALSE
  /\ thread' = [thread EXCEPT !.at = "finish", !.busy = TRUE]
  /\ UNCHANGED <<pendingCmd, result, caller, status>>

(* Mutant: the result is stored, but the worker still counts as executing. *)
StoreStaysBusy ==
  /\ thread.at = "store"
  /\ result' = thread.cmd
  /\ thread' = [thread EXCEPT !.at = "finish", !.busy = TRUE]
  /\ UNCHANGED <<pendingCmd, executing, caller, status>>

(* busy is computed after _result is set, so it is true here. *)
Store ==
  /\ thread.at = "store"
  /\ result' = thread.cmd
  /\ executing' = FALSE
  /\ thread' = [thread EXCEPT !.at = "finish", !.busy = TRUE]
  /\ UNCHANGED <<pendingCmd, caller, status>>

NoteFinish ==
  /\ thread.at = "finish"
  /\ inflight' = NoCmd
  /\ thread' = [thread EXCEPT !.at = "status"]
  /\ UNCHANGED <<fields, caller, busy>>

NoteThread ==
  /\ thread.at = "status"
  /\ busy' = thread.busy
  /\ thread' = Ready
  /\ UNCHANGED <<fields, caller, inflight>>

CallerNotes == NoteStart \/ NoteCaller
ThreadStep == Take \/ Execute \/ Store \/ NoteFinish \/ NoteThread

WNext ==
  \/ \E c \in Commands : Submit(c)
  \/ Poll
  \/ CallerNotes
  \/ ThreadStep

WSpec == WInit /\ [][WNext]_wvars

(* The threads run, and the main loop polls again and again, as it does    *)
(* while it is online again and again.  Execute is not fair: nothing in    *)
(* the code bounds the time of a tool.                                     *)
WFairSpec ==
  /\ WSpec
  /\ WF_wvars(Take \/ Store \/ NoteFinish \/ NoteThread)
  /\ WF_wvars(CallerNotes)
  /\ SF_wvars(Poll)

-----------------------------------------------------------------------------
Slots == Commands \cup {NoCmd}

WTypeOK ==
  /\ pendingCmd \in Slots
  /\ result \in Slots
  /\ executing \in BOOLEAN
  /\ thread \in [at : {"ready", "execute", "store", "finish", "status"},
                 cmd : Slots, busy : BOOLEAN]
  /\ caller \in [at : {"ready", "start", "status"}, cmd : Slots, busy : BOOLEAN]
  /\ inflight \in Slots
  /\ busy \in BOOLEAN
  /\ thread.at \in {"execute", "store"} => thread.cmd \in Commands
  /\ caller.at = "start" => caller.cmd \in Commands

(* A command is in one place: waiting, running or finished.  Otherwise a   *)
(* result is overwritten before it is polled, or a tool runs beside        *)
(* another one on the same modem.                                          *)
OneCommand ==
  /\ executing <=> thread.at \in {"execute", "store"}
  /\ executing => pendingCmd = NoCmd /\ result = NoCmd
  /\ pendingCmd # NoCmd => result = NoCmd

(* A submitted command runs once, and its result stays until it is polled, *)
(* whatever the two threads interleave.                                    *)
Slot == IF executing THEN thread.cmd
        ELSE IF result # NoCmd THEN result ELSE pendingCmd
Promise == INSTANCE CommandSlot WITH slot <- Slot, finished <- (result # NoCmd)
KeepsSlot == Promise!SlotSpec

(* A submitted command has its result, unless its own tool never ends; and *)
(* the result is collected, which leaves the worker free for the next one. *)
Hangs(c) == thread.at = "execute" /\ thread.cmd = c
EveryCommandReturns ==
  \A c \in Commands :
    /\ pendingCmd = c ~> (result = c \/ []Hangs(c))
    /\ result = c ~> Free

(* docs/validation/72h-soak-P0...: inflight_cmd and worker_status tell the *)
(* operator what the worker does.  At rest nothing should be in flight;    *)
(* the code does not keep this, and no run asks for it.                    *)
AtRest == Free /\ thread.at = "ready" /\ caller.at = "ready"
InflightAtRest == AtRest => inflight = NoCmd
=============================================================================
