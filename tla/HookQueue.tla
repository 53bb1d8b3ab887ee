------------------------------ MODULE HookQueue ------------------------------
(***************************************************************************)
(* The durable hook message queue (errandd/app/hookQueue.ts): one SQLite   *)
(* row per webhook delivery, keyed by delivery id and routed to a thread.  *)
(* This module holds the rows and one operator per method of the class     *)
(* HookQueue; the drain worker that calls them is module HookDrain.        *)
(*                                                                         *)
(* Time is abstracted: a row with `not_before` in the future is "held",    *)
(* and a hold ends at an arbitrary later moment (HoldEnds), so a property  *)
(* that holds here holds for every backoff the code computes.  Payload,    *)
(* scope, keys and fields play no part in the control and are left out.    *)
(***************************************************************************)
EXTENDS Integers, FiniteSets

CONSTANTS
  Msg,       \* delivery ids (the primary key `id`)
  Thread,    \* thread ids (`thread_id`)
  ThreadOf,  \* the thread each delivery is routed to
  RetryCap   \* HOOK_RETRY_CAP, 5 in the code

ASSUME QueueAssumption ==
  /\ IsFiniteSet(Msg)
  /\ IsFiniteSet(Thread)
  /\ ThreadOf \in [Msg -> Thread]
  /\ RetryCap \in Nat \ {0}

VARIABLES
  status,    \* the column `status`, or "absent" when the table has no such row
  attempts,  \* the column `attempts`, saturated at RetryCap (see Counted)
  held,      \* the rows whose `not_before` is still in the future
  spent      \* the rows whose `error` records a spend-cap stop

queueVars == <<status, attempts, held, spent>>

Status   == {"absent", "pending", "running", "done", "failed"}
Terminal == {"done", "failed"}

(* The code compares attempts with the cap only as attempts + 1 > RetryCap,*)
(* so counts from RetryCap up are one class.                               *)
Counted(n) == IF n < RetryCap THEN n + 1 ELSE n

With(S, s) == [m \in Msg |-> IF m \in S THEN s ELSE status[m]]

QueueInit ==
  /\ status   = [m \in Msg |-> "absent"]
  /\ attempts = [m \in Msg |-> 0]
  /\ held     = {}
  /\ spent    = {}

QueueTypeOK ==
  /\ status \in [Msg -> Status]
  /\ attempts \in [Msg -> 0..RetryCap]
  /\ held \subseteq Msg
  /\ spent \subseteq Msg

-----------------------------------------------------------------------------
(* Reads.                                                                  *)

(* The pending rows of a thread that are not held. *)
Ready(t) ==
  {m \in Msg : ThreadOf[m] = t /\ status[m] = "pending" /\ m \notin held}

-----------------------------------------------------------------------------
(* Writes.  Every operator is one synchronous method.                      *)

(* A delivery is inserted once; a known id is ignored.  `later` is a       *)
(* debounce deadline (notBefore) in the future.                            *)
Enqueue(m, later) ==
  IF status[m] = "absent"
  THEN /\ status'   = With({m}, "pending")
       /\ attempts' = [attempts EXCEPT ![m] = 0]
       /\ held'     = IF later THEN held \cup {m} ELSE held \ {m}
       /\ spent'    = spent \ {m}
  ELSE UNCHANGED queueVars

(* Slip: the table has no CHECK on status, so a misspelt value is stored. *)
ClaimThreadMisspelt(S) ==
  /\ status' = With(S, "claimed")
  /\ UNCHANGED <<attempts, held, spent>>

(* claimThread marks the rows it selected (always Ready(t)) running. *)
ClaimThread(S) ==
  /\ status' = With(S, "running")
  /\ UNCHANGED <<attempts, held, spent>>

(* Slip: completing by thread also finishes what arrived during the run. *)
CompleteWholeThread(S, s, spendCap) ==
  /\ status' = With({m \in Msg : \E n \in S : /\ ThreadOf[m] = ThreadOf[n]
                                              /\ status[m] \in {"pending", "running"}}, s)
  /\ spent'  = IF spendCap THEN spent \cup S ELSE spent \ S
  /\ UNCHANGED <<attempts, held>>

(* complete has no status guard: it overwrites whatever the rows hold. *)
Complete(S, s, spendCap) ==
  /\ status' = With(S, s)
  /\ spent'  = IF spendCap THEN spent \cup S ELSE spent \ S
  /\ UNCHANGED <<attempts, held>>

(* releaseClaim returns running rows and touches no retry counter. *)
ReleaseClaim(S) ==
  /\ status' = With({m \in S : status[m] = "running"}, "pending")
  /\ UNCHANGED <<attempts, held, spent>>

(* defer has no status guard either; a capacity deferral leaves attempts   *)
(* alone (its own counter only drives the length of the hold).             *)
Defer(S, countAttempt) ==
  /\ status'   = With(S, "pending")
  /\ held'     = held \cup S
  /\ attempts' = [m \in Msg |-> IF m \in S /\ countAttempt
                                THEN Counted(attempts[m]) ELSE attempts[m]]
  /\ spent'    = spent \ S

(* Slip: a replay also re-arms rows a worker is running. *)
RequeueAnyRow(S) ==
  LET rows == {m \in S : status[m] # "absent"} IN
  /\ status'   = With(rows, "pending")
  /\ attempts' = [m \in Msg |-> IF m \in rows THEN 0 ELSE attempts[m]]
  /\ held'     = held \ rows
  /\ spent'    = spent \ rows

(* A replay re-arms finished rows only, with every counter cleared. *)
Requeue(S) ==
  LET rows == {m \in S : status[m] \in Terminal} IN
  /\ status'   = With(rows, "pending")
  /\ attempts' = [m \in Msg |-> IF m \in rows THEN 0 ELSE attempts[m]]
  /\ held'     = held \ rows
  /\ spent'    = spent \ rows

(* Slip: nothing is replayed at boot. *)
RequeueStuckRunningSkipped == UNCHANGED queueVars

(* Boot recovery: what a killed worker left running is pending again. *)
RequeueStuckRunning ==
  /\ status' = With({m \in Msg : status[m] = "running"}, "pending")
  /\ UNCHANGED <<attempts, held, spent>>

(* Only waiting CVE rows are resolved; S is what the advisory matches. *)
ResolvePendingCve(S) ==
  Complete({m \in S : status[m] = "pending"}, "done", FALSE)

(* Retention: finished rows older than the TTL are deleted. *)
Prune(S) ==
  LET rows == {m \in S : status[m] \in Terminal} IN
  /\ status'   = With(rows, "absent")
  /\ attempts' = [m \in Msg |-> IF m \in rows THEN 0 ELSE attempts[m]]
  /\ held'     = held \ rows
  /\ spent'    = spent \ rows

(* `not_before` passes. *)
HoldEnds(m) ==
  /\ m \in held
  /\ held' = held \ {m}
  /\ UNCHANGED <<status, attempts, spent>>
=============================================================================
