---------------------------- MODULE RetryPolicy ----------------------------
(***************************************************************************)
(* The pure retry policy of the hook queue: nextQueueAction (hookQueue.ts) *)
(* and what runQueuedBatch passes it.  The specification follows the rows  *)
(* of one thread through the batches they are run in: a batch is whatever  *)
(* is ready, so rows with different histories share it.                    *)
(***************************************************************************)
EXTENDS Backoff, FiniteSets

CONSTANTS
  Row,   \* rows that may come to share a batch
  Cap,   \* HOOK_RETRY_CAP
  Tries  \* bound: where the counters of a row stop; by then they no longer
         \* matter, for the cap is passed and both backoffs are at theirs

ASSUME PolicyAssumption ==
  IsFiniteSet(Row) /\ Cap \in Nat \ {0} /\ Tries \in Nat /\ Tries > Cap /\ Tries >= 9

-----------------------------------------------------------------------------
(* Slips: the two ends of the batch the other way round (P0-14). *)
CapAttemptsOldest(tries) == Most(tries)
PriorAttemptsFreshest(tries) == Least(tries)

(* What runQueuedBatch passes of the rows' attempts: the least tried row   *)
(* for the cap, the most tried one for the backoff.                        *)
CapAttempts(tries)   == Least(tries)
PriorAttempts(tries) == Most(tries)

Outcome(action, after) == [action |-> action, after |-> after]

NextQueueAction(exit, limited, tries, capacityTries) ==
  CASE exit = "budget" -> Outcome("fail", 0)
    [] exit # "budget" /\ limited ->
         Outcome("defer", FibBackoff(Most(capacityTries) + 1))
    [] exit = "ok" /\ ~limited -> Outcome("done", 0)
    [] exit = "error" /\ ~limited ->
         IF CapAttempts(tries) + 1 > Cap
         THEN Outcome("fail", 0)
         ELSE Outcome("defer", FailureBackoff(PriorAttempts(tries)))

-----------------------------------------------------------------------------
VARIABLES
  waiting,   \* rows of the thread not finished yet
  attempts,  \* per row: counted failures
  capacity,  \* per row: rate_limit_attempts
  last,      \* the last decision: batch, exit code class, limit message, outcome
  failures,  \* history: failed runs a row took part in
  inARow     \* history: limited runs of a row since its last other run

retryVars == <<waiting, attempts, capacity, last, failures, inARow>>

Exit == {"ok", "error", "budget"}

RetryInit ==
  /\ waiting = Row
  /\ attempts = [r \in Row |-> 0]
  /\ capacity = [r \in Row |-> 0]
  /\ last = [batch |-> {}, exit |-> "ok", limited |-> FALSE, outcome |-> Outcome("done", 0)]
  /\ failures = [r \in Row |-> 0]
  /\ inARow = [r \in Row |-> 0]

Bump(f, S) == [r \in Row |-> IF r \in S /\ f[r] < Tries THEN f[r] + 1 ELSE f[r]]
Zero(f, S) == [r \in Row |-> IF r \in S THEN 0 ELSE f[r]]

(* Slip: a counted failure leaves the capacity counter where it was. *)
DeferKeepingCapacity(S, countAttempt) ==
  IF countAttempt
  THEN attempts' = Bump(attempts, S) /\ UNCHANGED capacity
  ELSE capacity' = Bump(capacity, S) /\ UNCHANGED attempts

(* defer: a failure counts and restarts the capacity backoff, a capacity   *)
(* hold only lengthens it.                                                 *)
Defer(S, countAttempt) ==
  IF countAttempt
  THEN attempts' = Bump(attempts, S) /\ capacity' = Zero(capacity, S)
  ELSE capacity' = Bump(capacity, S) /\ UNCHANGED attempts

(* One run of the ready rows S, and complete or defer by the decision. *)
RunBatch(S, exit, limited) ==
  LET decision == NextQueueAction(exit, limited, {attempts[r] : r \in S},
                                  {capacity[r] : r \in S})
  IN
  /\ last' = [batch |-> S, exit |-> exit, limited |-> limited, outcome |-> decision]
  /\ IF decision.action = "defer"
     THEN Defer(S, ~limited) /\ UNCHANGED waiting
     ELSE waiting' = waiting \ S /\ UNCHANGED <<attempts, capacity>>
  /\ failures' = IF exit = "error" /\ ~limited THEN Bump(failures, S) ELSE failures
  /\ inARow' = IF limited THEN Bump(inARow, S) ELSE Zero(inARow, S)

RetryNext ==
  \E S \in (SUBSET waiting) \ {{}}, exit \in Exit, limited \in BOOLEAN :
    RunBatch(S, exit, limited)

RetrySpec == RetryInit /\ [][RetryNext]_retryVars

-----------------------------------------------------------------------------
Fib[n \in Nat] == IF n <= 1 THEN n ELSE Fib[n - 1] + Fib[n - 2]

(* A capacity hold lasts the Fibonacci number of its turn and at most 30 s *)
(* (rate-limit.ts: "1, 1, 2, 3, 5, 8, 13, 21, then 30").  The turn is the  *)
(* longest unbroken series of limited runs a row of the batch was in, this *)
(* one included: a failure in between starts the series anew.              *)
CapacityHoldIsFibonacci ==
  last.outcome.action = "defer" /\ last.limited =>
    last.outcome.after = Least({30, Fib[Most({inARow[r] : r \in last.batch})]})

(* A batch is given up on for failing only when every row in it took part  *)
(* in more than Cap failed runs, however batches were put together.        *)
FailedRowsExhausted ==
  last.outcome.action = "fail" /\ last.exit = "error" =>
    \A r \in last.batch : failures[r] > Cap

(* After a failed run no row comes back sooner than its own failures call  *)
(* for: it is slowed down, never sped up, by the company it keeps.         *)
BackoffCoversEveryRow ==
  last.outcome.action = "defer" /\ ~last.limited =>
    \A r \in last.batch : last.outcome.after >= FailureBackoff(failures[r] - 1)
=============================================================================
