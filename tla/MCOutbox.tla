------------------------------ MODULE MCOutbox ------------------------------
(* Model values for checking Outbox on small instances. *)
EXTENDS Outbox

CONSTANTS main, repl

OneFlusher == {main}
TwoFlushers == {main, repl}
=============================================================================
