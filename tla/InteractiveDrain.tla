-------------------------- MODULE InteractiveDrain --------------------------
(***************************************************************************)
(* Chat messages that arrive while the provider limits the daemon: they    *)
(* are kept in a durable queue (errandd/app/messaging/interactiveQueue.ts) *)
(* and drained one after the other once the hold ends (start.ts,           *)
(* drainInteractiveQueue).  Rows survive a crash; the drain, its claim and *)
(* the hold do not.                                                        *)
(*                                                                         *)
(* A message id is a number in order of arrival.  A row whose `not_before` *)
(* is in the future is "held" until an arbitrary later moment.             *)
(***************************************************************************)
EXTENDS Integers, FiniteSets

CONSTANTS
  Messages,    \* bound: chat messages that arrive during a hold
  RetryCap,    \* INTERACTIVE_RETRY_CAP, 5 in the code
  ClaimLimit,  \* the LIMIT of claimReady, 100 in the code
  Budget       \* how often each kind of trouble may strike

Trouble == {"crash", "limit", "fail", "throw", "unwired"}
Msg == 1..Messages

ASSUME InteractiveAssumption ==
  /\ Messages \in Nat
  /\ RetryCap \in Nat \ {0}
  /\ ClaimLimit \in Nat \ {0}
  /\ Budget \in [Trouble -> Nat]

VARIABLES
  status,    \* the column `status`; "absent" before arrival, "pruned" after deletion
  attempts,  \* the column `attempts`
  held,      \* the rows whose `not_before` is still in the future
  up,        \* the daemon runs (its boot replay is over)
  todo,      \* the claimed messages the drain has not settled, the oldest first
  at,        \* what the drain awaits: "off" (draining = FALSE), "run", "hit"
             \* (the run met the limit), "send", "sent" or "note" (the apology)
  current,   \* the message of the loop's iteration, 0 when there is none
  limited,   \* isRateLimited()
  troubles,  \* what is left of Budget
  replies,   \* history: how often a platform accepted the answer, up to 2
  failures   \* history: settlements of a message that count as a retry

rows == <<status, attempts, held>>
past == <<replies, failures>>
vars == <<rows, up, todo, at, current, limited, troubles, past>>

Status == {"absent", "pending", "running", "done", "failed", "pruned"}

Init ==
  /\ status = [m \in Msg |-> "absent"]
  /\ attempts = [m \in Msg |-> 0]
  /\ held = {}
  /\ up = TRUE
  /\ todo = {}
  /\ at = "off" /\ current = 0
  /\ limited = TRUE
  /\ troubles = Budget
  /\ replies = [m \in Msg |-> 0]
  /\ failures = [m \in Msg |-> 0]

TypeOK ==
  /\ status \in [Msg -> Status]
  /\ attempts \in [Msg -> Nat]
  /\ held \subseteq Msg
  /\ up \in BOOLEAN
  /\ todo \subseteq Msg
  /\ at \in {"off", "run", "hit", "send", "sent", "note"}
  /\ current \in Msg \cup {0}
  /\ limited \in BOOLEAN
  /\ troubles \in [Trouble -> Nat]
  /\ replies \in [Msg -> 0..2]
  /\ failures \in [Msg -> Nat]

-----------------------------------------------------------------------------
(* Helpers.                                                                *)

Strikes(f) == troubles[f] > 0 /\ troubles' = [troubles EXCEPT ![f] = @ - 1]

Ready == {m \in Msg : status[m] = "pending" /\ m \notin held}

(* The n oldest of S. *)
Oldest(S, n) == {m \in S : Cardinality({k \in S : k < m}) < n}

With(S, s) == [m \in Msg |-> IF m \in S THEN s ELSE status[m]]

(* The loop goes on with the oldest of S, or ends.                         *)
GoesOn(S) ==
  IF S = {} THEN at' = "off" /\ current' = 0
  ELSE at' = "run" /\ current' \in S /\ \A k \in S : current' <= k

-----------------------------------------------------------------------------
(* The current message is completed or deferred and the loop goes on: to   *)
(* the next run, or, when the hold is back, by deferring all the others    *)
(* uncounted; the drain ends with the last of them.                        *)
Settle(s, wait, counted) ==
  LET rest    == todo \ {current}
      stopped == IF limited THEN rest ELSE {}
  IN
  /\ status' = [With(stopped, "pending") EXCEPT ![current] = s]
  /\ held' = (IF wait THEN held \cup {current} ELSE held) \cup stopped
  /\ attempts' = IF counted THEN [attempts EXCEPT ![current] = @ + 1] ELSE attempts
  /\ todo' = rest \ stopped
  /\ GoesOn(todo')

Complete(s) == Settle(s, FALSE, FALSE)

(* Slip: a capacity hold uses up a retry. *)
DeferAlwaysCounting(counted) == Settle("pending", TRUE, TRUE)

Defer(counted) == Settle("pending", TRUE, counted)

(* Deferred because something other than capacity went wrong. *)
Retry ==
  /\ Defer(TRUE)
  /\ failures' = [failures EXCEPT ![current] = @ + 1]

-----------------------------------------------------------------------------
(* A platform handler finds the daemon limited and enqueues.  A message    *)
(* that arrives outside a hold is run at once and never gets here.         *)
Enqueue(m) ==
  /\ up /\ limited
  /\ status[m] = "absent"
  /\ \A k \in Msg : k < m => status[k] # "absent"
  /\ status' = With({m}, "pending")
  /\ UNCHANGED <<attempts, held, up, todo, at, current, limited, troubles, past>>

(* Slip: the tick does not look at `draining`. *)
BeginOverlapping ==
  /\ up /\ ~limited
  /\ Ready # {}
  /\ todo' = Oldest(Ready, ClaimLimit)
  /\ status' = With(todo', "running")
  /\ GoesOn(todo')
  /\ UNCHANGED <<attempts, held, up, limited, troubles, past>>

(* The 3 s tick and the kick at boot: claimReady, then the first run. *)
Begin ==
  /\ up /\ at = "off" /\ ~limited
  /\ Ready # {}
  /\ todo' = Oldest(Ready, ClaimLimit)
  /\ status' = With(todo', "running")
  /\ GoesOn(todo')
  /\ UNCHANGED <<attempts, held, up, limited, troubles, past>>

(* runUserMessage met the limit: recordRateLimit inside the run, the       *)
(* deferral after its last await.                                          *)
RunHitsLimit ==
  /\ up /\ at = "run"
  /\ Strikes("limit")
  /\ limited' = TRUE
  /\ at' = "hit"
  /\ UNCHANGED <<rows, up, todo, current, past>>

DeferLimited ==
  /\ up /\ at = "hit"
  /\ Defer(FALSE)
  /\ UNCHANGED <<up, limited, troubles, past>>

(* Exit 0: the reply goes to the platform, if a notifier is registered.    *)
(* A clean run lifts a hold.                                               *)
RunSucceeds ==
  /\ up /\ at = "run"
  /\ at' = "send"
  /\ limited' = FALSE
  /\ UNCHANGED <<rows, up, todo, current, troubles, past>>

(* Any other exit code: retried up to the cap, then an apology is sent. *)
RunFails ==
  /\ up /\ at = "run"
  /\ Strikes("fail")
  /\ IF attempts[current] + 1 >= RetryCap
     THEN at' = "note" /\ UNCHANGED <<rows, todo, current, past>>
     ELSE Retry /\ UNCHANGED replies
  /\ UNCHANGED <<up, limited>>

(* The apology is sent or not: its error is swallowed. *)
GiveUp ==
  /\ up /\ at = "note"
  /\ Complete("failed")
  /\ UNCHANGED <<up, limited, troubles, past>>

(* The platform accepts the (first part of the) reply. *)
Deliver ==
  /\ up /\ at = "send"
  /\ replies' = [replies EXCEPT ![current] = IF @ < 2 THEN @ + 1 ELSE @]
  /\ at' = "sent"
  /\ UNCHANGED <<rows, up, todo, current, limited, troubles, failures>>

Delivered ==
  /\ up /\ at = "sent"
  /\ Complete("done")
  /\ UNCHANGED <<up, limited, troubles, past>>

(* Slip: the answer of notify() is not looked at. *)
NotifierMissingIgnored ==
  /\ up /\ at = "send"
  /\ Strikes("unwired")
  /\ Complete("done")
  /\ UNCHANGED <<up, limited, past>>

(* No notifier for the platform: the whole message is retried, counted. *)
NotifierMissing ==
  /\ up /\ at = "send"
  /\ Strikes("unwired")
  /\ Retry
  /\ UNCHANGED <<up, limited, replies>>

(* The run or the sending throws, the latter perhaps after a first part    *)
(* went out: deferred and counted, without a cap.                          *)
Throws ==
  /\ up /\ at \in {"run", "send", "sent"}
  /\ Strikes("throw")
  /\ Retry
  /\ UNCHANGED <<up, limited, replies>>

-----------------------------------------------------------------------------
HoldEnds(m) ==
  /\ m \in held
  /\ held' = held \ {m}
  /\ UNCHANGED <<status, attempts, up, todo, at, current, limited, troubles, past>>

LimitEnds ==
  /\ limited
  /\ limited' = FALSE
  /\ UNCHANGED <<rows, up, todo, at, current, troubles, past>>

(* Another run of the process meets the limit. *)
LimitStarts ==
  /\ up /\ ~limited
  /\ Strikes("limit")
  /\ limited' = TRUE
  /\ UNCHANGED <<rows, up, todo, at, current, past>>

Prune ==
  /\ up
  /\ \E S \in SUBSET {m \in Msg : status[m] \in {"done", "failed"}} :
       S # {} /\ status' = With(S, "pruned")
  /\ UNCHANGED <<attempts, held, up, todo, at, current, limited, troubles, past>>

Crash ==
  /\ up /\ Strikes("crash")
  /\ up' = FALSE
  /\ todo' = {} /\ at' = "off" /\ current' = 0 /\ limited' = FALSE
  /\ UNCHANGED <<rows, past>>

(* Slip: what a killed drain left running is not replayed. *)
BootSkippingReplay ==
  /\ ~up /\ up' = TRUE
  /\ UNCHANGED <<rows, todo, at, current, limited, troubles, past>>

(* requeueStuckRunning, before the first drain. *)
Boot ==
  /\ ~up /\ up' = TRUE
  /\ status' = With({m \in Msg : status[m] = "running"}, "pending")
  /\ UNCHANGED <<attempts, held, todo, at, current, limited, troubles, past>>

-----------------------------------------------------------------------------
Drain ==
  \/ Begin \/ DeferLimited \/ RunSucceeds \/ GiveUp \/ Deliver \/ Delivered

Next ==
  \/ Drain
  \/ RunHitsLimit \/ RunFails \/ NotifierMissing \/ Throws
  \/ \E m \in Msg : Enqueue(m) \/ HoldEnds(m)
  \/ LimitEnds \/ LimitStarts \/ Prune \/ Crash \/ Boot

Spec == Init /\ [][Next]_vars

(* The tick fires and every await comes back; holds end (RateLimit's       *)
(* HoldsEnd); the supervisor restarts the daemon.  A hold may interrupt    *)
(* both the tick and a message's own wait, hence strong fairness.          *)
FairSpec ==
  /\ Spec
  /\ SF_vars(Drain) /\ SF_vars(LimitEnds) /\ WF_vars(Boot)
  /\ \A m \in Msg : WF_vars(HoldEnds(m))

-----------------------------------------------------------------------------
(* While the daemon is up the running rows are exactly the claimed ones of *)
(* the drain in flight; so overlapping ticks, a limit that comes back in   *)
(* the middle of a drain, and kills neither strand a row nor let two       *)
(* drains answer it.                                                       *)
RunningRowsClaimed ==
  /\ up => {m \in Msg : status[m] = "running"} = todo
  /\ (at = "off") <=> (todo = {})

(* A message is done only if its platform accepted the answer, whichever   *)
(* drain, of whichever process, produced it.                               *)
DoneMeansAnswered == \A m \in Msg : status[m] = "done" => replies[m] > 0

(* A message is given up only at its RetryCap-th failure: a capacity hold, *)
(* however often it strikes in a drain or before it, uses up no retry      *)
(* (interactiveQueue.ts:207-208).                                          *)
GivenUpAfterOwnFailures ==
  \A m \in Msg : status[m] = "failed" => failures[m] + 1 >= RetryCap

(* No queued message is lost or kept waiting for ever. *)
EveryMessageSettles ==
  \A m \in Msg : (status[m] = "pending") ~> (status[m] \in {"done", "failed", "pruned"})

(* start.ts:2314-2316: "Mark done only once the reply actually went out    *)
(* ... Don't double-send: completed rows are never re-claimed."  It does   *)
(* not hold across a crash (README).                                       *)
AnsweredOnce == \A m \in Msg : replies[m] <= 1
=============================================================================
