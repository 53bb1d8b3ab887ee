----------------------------- MODULE MCHookDrain -----------------------------
(* Small instances of HookDrain: which deliveries share a thread, which    *)
(* threads are reviews, and which troubles may strike in a run.            *)
EXTENDS HookDrain, TLC

CONSTANTS m1, m2, m3, r1, w1, review, work, cve

(* Two routines of one agent, a review among them, coalesce on one thread; *)
(* the continuation of a CVE remediation on a thread beside it.            *)
SharedThread == m1 :> r1 @@ m2 :> r1 @@ m3 :> w1
SharedJob    == m1 :> review @@ m2 :> work @@ m3 :> cve

(* One review and one work delivery. *)
LiveThread == m1 :> r1 @@ m2 :> w1
LiveJob    == m1 :> review @@ m2 :> work

Ranks == review :> 1 @@ work :> 2 @@ cve :> 0

NoFault == [f \in Fault |-> 0]
Faults(S) == [f \in Fault |-> IF f \in S THEN 1 ELSE 0]

SafeBudget == Faults(Fault)
LiveBudget == Faults({"crash", "reload", "limit", "throw"})

(* At most a crash, at any point, and one other trouble of any kind. *)
OneBesideACrash == Fault \ {"crash"}

(* A crash, a limit, and either a vanishing routine or a throw. *)
LiveRivals == {"reload", "throw"}
=============================================================================
