----------------------------- MODULE MCCronJobs -----------------------------
(* Small instances of CronJobs, with the daemon's own backoff table.       *)
EXTENDS CronJobs, Backoff

FibTable == [n \in 1..Top |-> FibBackoff(n)]
=============================================================================
