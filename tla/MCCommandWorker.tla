-------------------------- MODULE MCCommandWorker --------------------------
(* Model values for checking CommandWorker on small instances. *)
EXTENDS CommandWorker

CONSTANTS c1, c2, c3

MCCommands == {c1, c2, c3}
=============================================================================
