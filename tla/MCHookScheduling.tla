------------------------- MODULE MCHookScheduling -------------------------
(* A small instance of HookScheduling: three reviews, a CVE and a big job  *)
(* for three workers.                                                      *)
EXTENDS HookScheduling, TLC

CONSTANTS a, b, c, d, e

Ranks   == a :> 1 @@ b :> 1 @@ c :> 1 @@ d :> 0 @@ e :> 2
Updates == a :> 1 @@ b :> 2 @@ c :> 0 @@ d :> 0 @@ e :> 0
=============================================================================
