------------------------- MODULE CommandWorkerProofs -------------------------
(***************************************************************************)
(* Theorems about CommandWorker, for every set of commands: its types, the *)
(* exclusion of two commands at once, and that it implements CommandSlot.  *)
(***************************************************************************)
EXTENDS CommandWorker, TLAPS

(* The initial values have their types. *)
LEMMA WTypingInit == WInit => WTypeOK
<1> SUFFICES ASSUME WInit PROVE WTypeOK
  OBVIOUS
<1>1. thread = Ready /\ caller = Ready
  BY DEF WInit
<1>2. Ready = [at |-> "ready", cmd |-> NoCmd, busy |-> FALSE]
  BY DEF Ready, Frame
<1>3. executing \in BOOLEAN /\ busy \in BOOLEAN
  BY DEF WInit
<1>4. QED
  BY <1>1, <1>2, <1>3 DEF WInit, WTypeOK, Slots

(* Every step keeps the types. *)
LEMMA WTypingStep ==
  ASSUME WTypeOK, [WNext]_wvars
  PROVE WTypeOK'
<1> USE CommandAssumption DEF WTypeOK, Slots, fields, status
<1>1. ASSUME NEW c \in Commands, Submit(c) PROVE WTypeOK'
  BY <1>1 DEF Submit, Frame
<1>2. CASE Poll
  BY <1>2 DEF Poll, Frame
<1>3. CASE NoteStart
  BY <1>3 DEF NoteStart
<1>4. CASE NoteCaller
  BY <1>4 DEF NoteCaller, Ready, Frame
<1>5. CASE Take
  BY <1>5 DEF Take, Frame
<1>6. CASE Execute
  BY <1>6 DEF Execute
<1>7. CASE Store
  BY <1>7 DEF Store
<1>8. CASE NoteFinish
  BY <1>8 DEF NoteFinish
<1>9. CASE NoteThread
  BY <1>9 DEF NoteThread, Ready, Frame
<1>10. CASE UNCHANGED wvars
  BY <1>10 DEF wvars
<1>11. QED
  BY <1>1, <1>2, <1>3, <1>4, <1>5, <1>6, <1>7, <1>8, <1>9, <1>10
  DEF WNext, CallerNotes, ThreadStep

(* The worker's fields keep their types, and a thread that works on a      *)
(* command holds one (command_worker.py, _run_forever and submit).         *)
THEOREM WTyping == WSpec => []WTypeOK
  BY WTypingInit, WTypingStep, PTL DEF WSpec

(* No step of either thread puts a second command beside the first:        *)
(* OneCommand is inductive once the types are known.                       *)
LEMMA OneCommandStep ==
  ASSUME WTypeOK, OneCommand, [WNext]_wvars
  PROVE OneCommand'
<1> USE CommandAssumption DEF WTypeOK, OneCommand, Slots, fields, status
<1>1. ASSUME NEW c \in Commands, Submit(c) PROVE OneCommand'
  BY <1>1 DEF Submit, Free
<1>2. CASE Poll
  BY <1>2 DEF Poll
<1>3. CASE CallerNotes
  BY <1>3 DEF CallerNotes, NoteStart, NoteCaller
<1>4. CASE Take
  BY <1>4 DEF Take, Frame
<1>5. CASE Execute
  BY <1>5 DEF Execute
<1>6. CASE Store
  BY <1>6 DEF Store
<1>7. CASE NoteFinish
  BY <1>7 DEF NoteFinish
<1>8. CASE NoteThread
  BY <1>8 DEF NoteThread, Ready, Frame
<1>9. CASE UNCHANGED wvars
  BY <1>9 DEF wvars
<1>10. QED
  BY <1>1, <1>2, <1>3, <1>4, <1>5, <1>6, <1>7, <1>8, <1>9 DEF WNext, ThreadStep

(* At any moment the worker holds one command, in one place: no result is  *)
(* overwritten, and no two tools run at once (command_worker.py, 93-125).  *)
THEOREM OneAtATime == WSpec => []OneCommand
<1>1. WInit => OneCommand
  BY DEF WInit, OneCommand, Ready, Frame
<1>2. QED
  BY <1>1, OneCommandStep, WTyping, PTL DEF WSpec

(* A step of the worker is a step of the slot or leaves it alone.          *)
LEMMA SlotStep ==
  ASSUME WTypeOK, OneCommand, OneCommand', [WNext]_wvars
  PROVE [Promise!Fill \/ Promise!Finish \/ Promise!Collect]_(Promise!svars)
<1> USE CommandAssumption DEF WTypeOK, OneCommand, Slots, fields, status, Slot,
      Promise!Fill, Promise!Finish, Promise!Collect, Promise!svars
<1>1. ASSUME NEW c \in Commands, Submit(c) PROVE Promise!Fill
  BY <1>1 DEF Submit, Free
<1>2. CASE Poll /\ result # NoCmd
  <2>1. Promise!Collect
    BY <1>2 DEF Poll
  <2>2. QED
    BY <2>1
<1>3. CASE Poll /\ result = NoCmd
  BY <1>3 DEF Poll
<1>4. CASE CallerNotes
  BY <1>4 DEF CallerNotes, NoteStart, NoteCaller
<1>5. CASE Take
  BY <1>5 DEF Take, Frame
<1>6. CASE Execute
  BY <1>6 DEF Execute
<1>7. CASE Store
  <2>1. Promise!Finish
    BY <1>7 DEF Store
  <2>2. QED
    BY <2>1
<1>8. CASE NoteFinish
  BY <1>8 DEF NoteFinish
<1>9. CASE NoteThread
  BY <1>9 DEF NoteThread, Ready, Frame
<1>10. CASE UNCHANGED wvars
  BY <1>10 DEF wvars
<1>11. QED
  BY <1>1, <1>2, <1>3, <1>4, <1>5, <1>6, <1>7, <1>8, <1>9, <1>10 DEF WNext, ThreadStep

(* Whatever the threads interleave, a submitted command runs once and its  *)
(* result stays until it is polled: the worker implements CommandSlot.     *)
THEOREM ImplementsSlot == WSpec => KeepsSlot
<1>1. WInit => Promise!Empty
  BY DEF WInit, Promise!Empty, Slot
<1>2. QED
  BY <1>1, SlotStep, WTyping, OneAtATime, PTL DEF WSpec, KeepsSlot, Promise!SlotSpec
=============================================================================
