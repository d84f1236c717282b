--------------------------- MODULE MCNodeRuntime ---------------------------
(* Model values for checking NodeRuntime: i2 repeats i1 under the same key, *)
(* bad has parameters that do not parse.                                    *)
EXTENDS NodeRuntime, TLC

CONSTANTS i1, i2, i3, bad, k1, k3, kb

Three == {i1, i2, i3}
Four == {i1, i2, i3, bad}
Keys == (i1 :> k1) @@ (i2 :> k1) @@ (i3 :> k3) @@ (bad :> kb)
OneBad == {bad}
NoneBad == {}
KeysOfThree == [c \in Three |-> Keys[c]]
=============================================================================
