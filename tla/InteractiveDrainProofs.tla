----------------------- MODULE InteractiveDrainProofs -----------------------
(***************************************************************************)
(* The chat queue for any number of messages, claims of any size, any      *)
(* retry cap and any troubles: the rows marked running are those of the    *)
(* drain in flight, an answered row was answered, and no row is given up   *)
(* before its own failures used up its retries.                            *)
(***************************************************************************)
EXTENDS InteractiveDrain, TLAPS

(* The ranges of the constants. *)
LEMMA QueueRanges == RetryCap \in Nat /\ Budget \in [Trouble -> Nat] /\ Msg \subseteq Nat
  BY InteractiveAssumption DEF Msg

(* The drain works on one of the rows it claimed, and there is none without *)
(* it or while the daemon is down.                                         *)
Working ==
  /\ (at = "off") <=> (todo = {})
  /\ at # "off" => current \in todo
  /\ ~up => at = "off"

(* Rows and claim agree while the daemon is up. *)
Claimed == up => {m \in Msg : status[m] = "running"} = todo

(* The column `attempts` counts the row's own failures, and the loop gives *)
(* a row up, and calls it answered, for what happened to that row.         *)
Accounted ==
  /\ \A m \in Msg : failures[m] = attempts[m]
  /\ at = "note" => attempts[current] + 1 >= RetryCap
  /\ at = "sent" => replies[current] > 0

DrainInv ==
  /\ TypeOK /\ Working /\ Claimed /\ Accounted
  /\ DoneMeansAnswered /\ GivenUpAfterOwnFailures

(* The inductive invariant holds initially. *)
LEMMA DrainInvInit == Init => DrainInv
<1> SUFFICES ASSUME Init PROVE DrainInv
  OBVIOUS
<1>1. TypeOK
  BY QueueRanges DEF Init, TypeOK, Status
<1>2. Working /\ Claimed /\ Accounted
  BY DEF Init, Working, Claimed, Accounted
<1>3. DoneMeansAnswered /\ GivenUpAfterOwnFailures
  BY DEF Init, DoneMeansAnswered, GivenUpAfterOwnFailures
<1> QED BY <1>1, <1>2, <1>3 DEF DrainInv

(* A trouble leaves the budget a budget. *)
LEMMA StrikeTyped ==
  ASSUME troubles \in [Trouble -> Nat], NEW f \in Trouble, Strikes(f)
  PROVE  troubles' \in [Trouble -> Nat]
  BY DEF Strikes

(* The settlement of the current row, whatever is counted.                 *)
LEMMA SettleKeeps ==
  ASSUME DrainInv, up, at # "off", up' = up,
         NEW s \in {"pending", "done", "failed"},
         NEW wait \in BOOLEAN, NEW counted \in BOOLEAN,
         Settle(s, wait, counted)
  PROVE  /\ status' \in [Msg -> Status] /\ held' \subseteq Msg
         /\ attempts' \in [Msg -> Nat]
         /\ todo' \subseteq Msg /\ current' \in Msg \cup {0}
         /\ at' \in {"off", "run"}
         /\ current \in Msg /\ current \in todo
         /\ Working' /\ Claimed'
         /\ status'[current] = s
         /\ \A m \in Msg \ {current} : status'[m] \in {status[m], "pending"}
         /\ attempts' = IF counted THEN [attempts EXCEPT ![current] = @ + 1] ELSE attempts
<1> DEFINE rest    == todo \ {current}
           stopped == IF limited THEN rest ELSE {}
<1>0. /\ TypeOK /\ Working /\ Claimed
      /\ current \in Msg /\ current \in todo /\ todo \subseteq Msg
  BY DEF DrainInv, Working, TypeOK
<1>1. /\ status' = [With(stopped, "pending") EXCEPT ![current] = s]
      /\ held' = (IF wait THEN held \cup {current} ELSE held) \cup stopped
      /\ attempts' = IF counted THEN [attempts EXCEPT ![current] = @ + 1] ELSE attempts
      /\ todo' = rest \ stopped
      /\ GoesOn(todo')
  BY DEF Settle
<1>2. /\ status' \in [Msg -> Status]
      /\ status'[current] = s
      /\ \A m \in Msg \ {current} : status'[m] = IF m \in stopped THEN "pending" ELSE status[m]
  BY <1>0, <1>1 DEF With, TypeOK, Status
<1>3. held' \subseteq Msg /\ todo' \subseteq Msg
  BY <1>0, <1>1 DEF TypeOK
<1>4. attempts' \in [Msg -> Nat]
  BY <1>0, <1>1 DEF TypeOK
<1>5. /\ at' \in {"off", "run"} /\ current' \in Msg \cup {0}
      /\ (at' = "off") <=> (todo' = {})
      /\ at' # "off" => current' \in todo'
  BY <1>1, <1>3 DEF GoesOn
<1>6. Claimed'
  <2>1. \A m \in Msg : status'[m] = "running" <=> m \in todo'
    <3> SUFFICES ASSUME NEW m \in Msg PROVE status'[m] = "running" <=> m \in todo'
      OBVIOUS
    <3>1. CASE m = current
      BY <3>1, <1>1, <1>2
    <3>2. CASE m # current
      BY <3>2, <1>0, <1>1, <1>2 DEF Claimed
    <3> QED BY <3>1, <3>2
  <2> QED BY <2>1, <1>3 DEF Claimed
<1>7. Working'
  BY <1>5 DEF Working
<1> QED BY <1>0, <1>1, <1>2, <1>3, <1>4, <1>5, <1>6, <1>7

(* A row settled as pending with its failure counted, the way of every     *)
(* retry.                                                                  *)
LEMMA RetryKeeps ==
  ASSUME DrainInv, up, at # "off", up' = up, limited' \in BOOLEAN,
         troubles' \in [Trouble -> Nat], Retry, UNCHANGED replies
  PROVE  DrainInv'
<1>0. TypeOK /\ Accounted /\ DoneMeansAnswered /\ GivenUpAfterOwnFailures
  BY DEF DrainInv
<1>1. /\ Settle("pending", TRUE, TRUE)
      /\ failures' = [failures EXCEPT ![current] = @ + 1]
  BY DEF Retry, Defer
<1>2. /\ status' \in [Msg -> Status] /\ held' \subseteq Msg
      /\ attempts' \in [Msg -> Nat]
      /\ todo' \subseteq Msg /\ current' \in Msg \cup {0}
      /\ at' \in {"off", "run"}
      /\ current \in Msg
      /\ Working' /\ Claimed'
      /\ status'[current] = "pending"
      /\ \A m \in Msg \ {current} : status'[m] \in {status[m], "pending"}
      /\ attempts' = [attempts EXCEPT ![current] = @ + 1]
  BY <1>1, SettleKeeps
<1>3. TypeOK'
  <2>1. failures' \in [Msg -> Nat]
    <3>1. failures \in [Msg -> Nat] /\ failures' = [failures EXCEPT ![current] = @ + 1]
      BY <1>0, <1>1 DEF TypeOK
    <3>2. current \in Msg
      BY <1>2
    <3> QED BY <3>1, <3>2
  <2>2. replies' \in [Msg -> 0..2]
    BY <1>0 DEF TypeOK
  <2>3. up' \in BOOLEAN
    BY <1>0 DEF TypeOK
  <2> QED BY <1>2, <2>1, <2>2, <2>3 DEF TypeOK
<1>4. Accounted'
  BY <1>0, <1>1, <1>2 DEF Accounted, TypeOK
<1>5. DoneMeansAnswered'
  BY <1>0, <1>2 DEF DoneMeansAnswered
<1>6. GivenUpAfterOwnFailures'
  BY <1>0, <1>1, <1>2 DEF GivenUpAfterOwnFailures, TypeOK
<1> QED BY <1>2, <1>3, <1>4, <1>5, <1>6 DEF DrainInv

(* A row settled without counting: given back, answered or given up.       *)
LEMMA SettleUncounted ==
  ASSUME DrainInv, up, at # "off",
         NEW s \in {"pending", "done", "failed"}, NEW wait \in BOOLEAN,
         Settle(s, wait, FALSE), UNCHANGED <<up, limited, troubles, past>>,
         s = "done" => at = "sent", s = "failed" => at = "note"
  PROVE  DrainInv'
<1>0. TypeOK /\ Accounted /\ DoneMeansAnswered /\ GivenUpAfterOwnFailures
  BY DEF DrainInv
<1>1. /\ up' = up /\ limited' = limited /\ troubles' = troubles
      /\ replies' = replies /\ failures' = failures
  BY DEF past
<1>2. /\ status' \in [Msg -> Status] /\ held' \subseteq Msg
      /\ attempts' \in [Msg -> Nat]
      /\ todo' \subseteq Msg /\ current' \in Msg \cup {0}
      /\ at' \in {"off", "run"}
      /\ current \in Msg
      /\ Working' /\ Claimed'
      /\ status'[current] = s
      /\ \A m \in Msg \ {current} : status'[m] \in {status[m], "pending"}
      /\ attempts' = attempts
  BY <1>1, SettleKeeps
<1>3. TypeOK'
  BY <1>0, <1>1, <1>2 DEF TypeOK
<1>4. Accounted'
  BY <1>0, <1>1, <1>2 DEF Accounted
<1>5. DoneMeansAnswered'
  BY <1>0, <1>1, <1>2 DEF DoneMeansAnswered, Accounted
<1>6. GivenUpAfterOwnFailures'
  BY <1>0, <1>1, <1>2 DEF GivenUpAfterOwnFailures, Accounted
<1> QED BY <1>2, <1>3, <1>4, <1>5, <1>6 DEF DrainInv

(* Steps that leave the rows' bookkeeping alone: what the drain awaits and *)
(* what the columns other than status say may move.                        *)
LEMMA Undisturbed ==
  ASSUME DrainInv, TypeOK', Working', Claimed',
         \A m \in Msg : status'[m] = status[m] \/ status'[m] \in {"pending", "running", "pruned"},
         \A m \in Msg : replies'[m] >= replies[m],
         UNCHANGED <<attempts, failures>>,
         at' = "note" => attempts'[current'] + 1 >= RetryCap,
         at' = "sent" => replies'[current'] > 0
  PROVE  DrainInv'
<1>0. TypeOK /\ Accounted /\ DoneMeansAnswered /\ GivenUpAfterOwnFailures
  BY DEF DrainInv
<1>1. Accounted'
  BY <1>0 DEF Accounted
<1>2. DoneMeansAnswered'
  <2> SUFFICES ASSUME NEW m \in Msg, status'[m] = "done" PROVE replies'[m] > 0
    BY DEF DoneMeansAnswered
  <2>1. status[m] = "done"
    OBVIOUS
  <2>2. replies[m] > 0 /\ replies'[m] >= replies[m] /\ replies[m] \in Nat /\ replies'[m] \in Nat
    BY <1>0, <2>1 DEF DoneMeansAnswered, TypeOK
  <2> QED BY <2>2
<1>3. GivenUpAfterOwnFailures'
  BY <1>0 DEF GivenUpAfterOwnFailures
<1> QED BY <1>1, <1>2, <1>3 DEF DrainInv

(* Every step preserves the inductive invariant. *)
LEMMA DrainInvStep == DrainInv /\ [Next]_vars => DrainInv'
<1> SUFFICES ASSUME DrainInv, [Next]_vars PROVE DrainInv'
  OBVIOUS
<1>0. TypeOK /\ Working /\ Claimed /\ Accounted
  BY DEF DrainInv
<1>same. \A m \in Msg : replies[m] >= replies[m]
  BY <1>0 DEF TypeOK
<1>1. CASE Begin
  <2>1. /\ up /\ up' = up /\ at = "off"
        /\ todo' = Oldest(Ready, ClaimLimit)
        /\ status' = With(todo', "running")
        /\ GoesOn(todo') /\ limited' = limited /\ troubles' = troubles
        /\ attempts' = attempts /\ held' = held /\ replies' = replies /\ failures' = failures
    BY <1>1 DEF Begin, past
  <2>2. todo' \subseteq Ready /\ todo' \subseteq Msg
    BY <2>1 DEF Oldest, Ready
  <2>3. status' \in [Msg -> Status]
    BY <1>0, <2>1 DEF With, TypeOK, Status
  <2>4. /\ at' \in {"off", "run"} /\ current' \in Msg \cup {0}
        /\ (at' = "off") <=> (todo' = {})
        /\ at' # "off" => current' \in todo'
    BY <2>1, <2>2 DEF GoesOn
  <2>5. TypeOK'
    BY <1>0, <2>1, <2>2, <2>3, <2>4 DEF TypeOK
  <2>6. Working'
    BY <2>1, <2>4 DEF Working
  <2>7. {m \in Msg : status[m] = "running"} = {}
    BY <1>0, <2>1 DEF Claimed, Working
  <2>8. \A m \in Msg : status'[m] = IF m \in todo' THEN "running" ELSE status[m]
    BY <2>1 DEF With
  <2>9. Claimed'
    <3>1. \A m \in Msg : status[m] # "running"
      BY <2>7
    <3>2. \A m \in Msg : status'[m] = "running" <=> m \in todo'
      BY <2>8, <3>1
    <3> QED BY <2>2, <3>2 DEF Claimed
  <2> QED BY <1>same, <2>1, <2>4, <2>5, <2>6, <2>8, <2>9, Undisturbed
<1>2. CASE DeferLimited
  BY <1>2, SettleUncounted DEF DeferLimited, Defer
<1>3. CASE GiveUp
  BY <1>3, SettleUncounted DEF GiveUp, Complete
<1>4. CASE Delivered
  BY <1>4, SettleUncounted DEF Delivered, Complete
<1>5. CASE RunSucceeds
  <2>1. /\ up' = up /\ todo' = todo /\ current' = current /\ troubles' = troubles
        /\ status' = status /\ attempts' = attempts /\ held' = held
        /\ replies' = replies /\ failures' = failures
        /\ at' = "send" /\ at = "run" /\ limited' = FALSE /\ up
    BY <1>5 DEF RunSucceeds, rows, past
  <2>2. TypeOK'
    BY <1>0, <2>1 DEF TypeOK
  <2>3. Working' /\ Claimed'
    BY <1>0, <2>1 DEF Working, Claimed
  <2> QED BY <1>same, <2>1, <2>2, <2>3, Undisturbed
<1>6. CASE Deliver
  <2>1. /\ up' = up /\ todo' = todo /\ current' = current /\ troubles' = troubles
        /\ status' = status /\ attempts' = attempts /\ held' = held
        /\ failures' = failures /\ limited' = limited
        /\ at' = "sent" /\ at = "send" /\ up
        /\ replies' = [replies EXCEPT ![current] = IF @ < 2 THEN @ + 1 ELSE @]
    BY <1>6 DEF Deliver, rows
  <2>2. current \in Msg
    BY <1>0, <2>1 DEF Working, TypeOK
  <2>3. /\ replies' \in [Msg -> 0..2] /\ replies'[current] > 0
        /\ \A m \in Msg : replies'[m] >= replies[m]
    BY <1>0, <2>1, <2>2 DEF TypeOK
  <2>4. TypeOK'
    BY <1>0, <2>1, <2>3 DEF TypeOK
  <2>5. Working' /\ Claimed'
    BY <1>0, <2>1 DEF Working, Claimed
  <2> QED BY <2>1, <2>3, <2>4, <2>5, Undisturbed
<1>7. CASE RunHitsLimit
  <2>1. /\ up' = up /\ todo' = todo /\ current' = current
        /\ status' = status /\ attempts' = attempts /\ held' = held
        /\ replies' = replies /\ failures' = failures
        /\ at' = "hit" /\ at = "run" /\ limited' = TRUE /\ up /\ Strikes("limit")
    BY <1>7 DEF RunHitsLimit, rows, past
  <2>2. troubles' \in [Trouble -> Nat]
    BY <1>0, <2>1, StrikeTyped DEF TypeOK, Trouble
  <2>3. TypeOK'
    BY <1>0, <2>1, <2>2 DEF TypeOK
  <2>4. Working' /\ Claimed'
    BY <1>0, <2>1 DEF Working, Claimed
  <2> QED BY <1>same, <2>1, <2>3, <2>4, Undisturbed
<1>8. CASE RunFails
  <2>1. /\ up /\ at = "run" /\ up' = up /\ limited' = limited /\ Strikes("fail")
    BY <1>8 DEF RunFails
  <2>2. troubles' \in [Trouble -> Nat] /\ limited' \in BOOLEAN
    BY <1>0, <2>1, StrikeTyped DEF TypeOK, Trouble
  <2>3. CASE attempts[current] + 1 >= RetryCap
    <3>1. /\ at' = "note" /\ todo' = todo /\ current' = current
          /\ status' = status /\ attempts' = attempts /\ held' = held
          /\ replies' = replies /\ failures' = failures
      BY <1>8, <2>3 DEF RunFails, rows, past
    <3>2. TypeOK'
      BY <1>0, <2>1, <2>2, <3>1 DEF TypeOK
    <3>3. Working' /\ Claimed'
      BY <1>0, <2>1, <3>1 DEF Working, Claimed
    <3> QED BY <1>same, <2>3, <3>1, <3>2, <3>3, Undisturbed
  <2>4. CASE ~(attempts[current] + 1 >= RetryCap)
    BY <1>8, <2>1, <2>2, <2>4, RetryKeeps DEF RunFails
  <2> QED BY <2>3, <2>4
<1>9. CASE NotifierMissing \/ Throws
  <2>1. /\ up /\ at # "off" /\ up' = up /\ limited' = limited /\ replies' = replies /\ Retry
        /\ \E f \in Trouble : Strikes(f)
    BY <1>9 DEF NotifierMissing, Throws, Trouble
  <2>2. troubles' \in [Trouble -> Nat] /\ limited' \in BOOLEAN
    BY <1>0, <2>1, StrikeTyped DEF TypeOK
  <2> QED BY <2>1, <2>2, RetryKeeps
<1>10. ASSUME NEW m \in Msg, Enqueue(m) PROVE DrainInv'
  <2>1. /\ up' = up /\ todo' = todo /\ current' = current /\ at' = at
        /\ attempts' = attempts /\ held' = held /\ limited' = limited /\ troubles' = troubles
        /\ replies' = replies /\ failures' = failures
        /\ status[m] = "absent" /\ status' = With({m}, "pending")
    BY <1>10 DEF Enqueue, past
  <2>2. /\ status' \in [Msg -> Status]
        /\ \A k \in Msg : status'[k] = IF k = m THEN "pending" ELSE status[k]
    BY <1>0, <2>1 DEF With, TypeOK, Status
  <2>3. TypeOK'
    BY <1>0, <2>1, <2>2 DEF TypeOK
  <2>4. Working'
    BY <1>0, <2>1 DEF Working
  <2>5. \A k \in Msg : status'[k] = "running" <=> status[k] = "running"
    BY <2>1, <2>2
  <2>6. Claimed'
    BY <1>0, <2>1, <2>5 DEF Claimed
  <2> QED BY <1>0, <1>same, <2>1, <2>2, <2>3, <2>4, <2>6, Undisturbed DEF Accounted
<1>11. ASSUME NEW m \in Msg, HoldEnds(m) PROVE DrainInv'
  <2>1. /\ up' = up /\ todo' = todo /\ current' = current /\ at' = at /\ status' = status
        /\ attempts' = attempts /\ held' = held \ {m} /\ limited' = limited
        /\ troubles' = troubles /\ replies' = replies /\ failures' = failures
    BY <1>11 DEF HoldEnds, past
  <2>2. TypeOK'
    BY <1>0, <2>1 DEF TypeOK
  <2>3. Working' /\ Claimed'
    BY <1>0, <2>1 DEF Working, Claimed
  <2> QED BY <1>0, <1>same, <2>1, <2>2, <2>3, Undisturbed DEF Accounted
<1>12. CASE LimitEnds \/ LimitStarts
  <2>1. /\ up' = up /\ todo' = todo /\ current' = current /\ at' = at /\ status' = status
        /\ attempts' = attempts /\ held' = held
        /\ replies' = replies /\ failures' = failures
    BY <1>12 DEF LimitEnds, LimitStarts, rows, past
  <2>2. limited' \in BOOLEAN
    BY <1>12 DEF LimitEnds, LimitStarts
  <2>3. troubles' \in [Trouble -> Nat]
    BY <1>0, <1>12, StrikeTyped DEF LimitEnds, LimitStarts, TypeOK, Trouble
  <2>4. TypeOK'
    BY <1>0, <2>1, <2>2, <2>3 DEF TypeOK
  <2>5. Working' /\ Claimed'
    BY <1>0, <2>1 DEF Working, Claimed
  <2> QED BY <1>0, <1>same, <2>1, <2>4, <2>5, Undisturbed DEF Accounted
<1>13. CASE Prune
  <2>1. /\ up' = up /\ todo' = todo /\ current' = current /\ at' = at
        /\ attempts' = attempts /\ held' = held /\ limited' = limited /\ troubles' = troubles
        /\ replies' = replies /\ failures' = failures
    BY <1>13 DEF Prune, past
  <2>2. PICK S \in SUBSET {m \in Msg : status[m] \in {"done", "failed"}} :
          status' = With(S, "pruned")
    BY <1>13 DEF Prune
  <2>3. /\ status' \in [Msg -> Status]
        /\ \A k \in Msg : status'[k] = IF k \in S THEN "pruned" ELSE status[k]
    BY <1>0, <2>2 DEF With, TypeOK, Status
  <2>4. TypeOK'
    BY <1>0, <2>1, <2>3 DEF TypeOK
  <2>5. Working'
    BY <1>0, <2>1 DEF Working
  <2>6. \A k \in Msg : status'[k] = "running" <=> status[k] = "running"
    BY <2>2, <2>3
  <2>7. Claimed'
    BY <1>0, <2>1, <2>6 DEF Claimed
  <2> QED BY <1>0, <1>same, <2>1, <2>3, <2>4, <2>5, <2>7, Undisturbed DEF Accounted
<1>14. CASE Crash
  <2>1. /\ up' = FALSE /\ todo' = {} /\ current' = 0 /\ at' = "off" /\ limited' = FALSE
        /\ status' = status /\ attempts' = attempts /\ held' = held
        /\ replies' = replies /\ failures' = failures /\ Strikes("crash")
    BY <1>14 DEF Crash, rows, past
  <2>2. troubles' \in [Trouble -> Nat]
    BY <1>0, <2>1, StrikeTyped DEF TypeOK, Trouble
  <2>3. TypeOK'
    BY <1>0, <2>1, <2>2 DEF TypeOK
  <2>4. Working' /\ Claimed'
    BY <2>1 DEF Working, Claimed
  <2> QED BY <1>same, <2>1, <2>3, <2>4, Undisturbed
<1>15. CASE Boot
  <2>1. /\ ~up /\ up' = TRUE /\ todo' = todo /\ current' = current /\ at' = at
        /\ attempts' = attempts /\ held' = held /\ limited' = limited /\ troubles' = troubles
        /\ replies' = replies /\ failures' = failures
        /\ status' = With({m \in Msg : status[m] = "running"}, "pending")
    BY <1>15 DEF Boot, past
  <2>2. /\ status' \in [Msg -> Status]
        /\ \A k \in Msg : status'[k] = IF status[k] = "running" THEN "pending" ELSE status[k]
    BY <1>0, <2>1 DEF With, TypeOK, Status
  <2>3. TypeOK'
    BY <1>0, <2>1, <2>2 DEF TypeOK
  <2>4. at' = "off" /\ todo' = {}
    BY <1>0, <2>1 DEF Working
  <2>5. Working' /\ Claimed'
    BY <2>1, <2>2, <2>4 DEF Working, Claimed
  <2> QED BY <1>same, <2>1, <2>2, <2>3, <2>4, <2>5, Undisturbed
<1>16. CASE UNCHANGED vars
  <2>1. /\ up' = up /\ todo' = todo /\ current' = current /\ at' = at /\ status' = status
        /\ attempts' = attempts /\ held' = held /\ limited' = limited /\ troubles' = troubles
        /\ replies' = replies /\ failures' = failures
    BY <1>16 DEF vars, rows, past
  <2>2. TypeOK'
    BY <1>0, <2>1 DEF TypeOK
  <2>3. Working' /\ Claimed'
    BY <1>0, <2>1 DEF Working, Claimed
  <2> QED BY <1>0, <1>same, <2>1, <2>2, <2>3, Undisturbed DEF Accounted
<1> QED
  BY <1>1, <1>2, <1>3, <1>4, <1>5, <1>6, <1>7, <1>8, <1>9, <1>10, <1>11, <1>12,
     <1>13, <1>14, <1>15, <1>16 DEF Next, Drain

(* The inductive invariant is an invariant. *)
LEMMA DrainInvAlways == Spec => []DrainInv
  BY DrainInvInit, DrainInvStep, PTL DEF Spec

-----------------------------------------------------------------------------
(* While the daemon is up the rows marked running are exactly those the    *)
(* drain in flight has claimed and not settled: no tick, limit or kill     *)
(* strands one (drainInteractiveQueue, claimReady, requeueStuckRunning).   *)
THEOREM ChatRowsClaimed == Spec => []RunningRowsClaimed
<1>1. DrainInv => RunningRowsClaimed
  BY DEF DrainInv, Working, Claimed, RunningRowsClaimed
<1> QED BY <1>1, DrainInvAlways, PTL

(* A row is called done only after its platform accepted the answer        *)
(* (drainInteractiveQueue's complete after notify).                        *)
THEOREM ChatDoneAnswered == Spec => []DoneMeansAnswered
<1>1. DrainInv => DoneMeansAnswered
  BY DEF DrainInv
<1> QED BY <1>1, DrainInvAlways, PTL

(* A row is given up only when its own failures, and no capacity hold,     *)
(* have used up its retries.                                               *)
THEOREM ChatGivenUpLate == Spec => []GivenUpAfterOwnFailures
<1>1. DrainInv => GivenUpAfterOwnFailures
  BY DEF DrainInv
<1> QED BY <1>1, DrainInvAlways, PTL
=============================================================================
