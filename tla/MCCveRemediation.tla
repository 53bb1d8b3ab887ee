--------------------------- MODULE MCCveRemediation ---------------------------
(* A small instance of CveRemediation: every routine watches every advisory. *)
EXTENDS CveRemediation

CONSTANTS x, y

Everything == [j \in Job |-> Advisory]
=============================================================================
