------------------------- MODULE MCInteractiveDrain -------------------------
(* Small instances of InteractiveDrain: which troubles strike how often.   *)
EXTENDS InteractiveDrain, TLC

SomeTrouble == [f \in Trouble |-> 1]
=============================================================================
