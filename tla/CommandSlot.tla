----------------------------- MODULE CommandSlot -----------------------------
(***************************************************************************)
(* What the command worker promises to agent.run, without its thread: a    *)
(* slot for one command, which is filled, becomes finished, and is emptied *)
(* by whoever collects the result.  CommandWorker implements it.           *)
(***************************************************************************)
CONSTANTS Commands, NoCmd

VARIABLES slot, finished    \* the command in the slot, and whether it has run

svars == <<slot, finished>>

Empty == slot = NoCmd /\ finished = FALSE

Fill == /\ slot = NoCmd
        /\ slot' \in Commands
        /\ UNCHANGED finished

Finish == /\ slot # NoCmd
          /\ ~finished
          /\ finished' = TRUE
          /\ UNCHANGED slot

Collect == /\ finished
           /\ slot' = NoCmd
           /\ finished' = FALSE

SlotSpec == Empty /\ [][Fill \/ Finish \/ Collect]_svars
=============================================================================
