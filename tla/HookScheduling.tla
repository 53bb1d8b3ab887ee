--------------------------- MODULE HookScheduling ---------------------------
(***************************************************************************)
(* Which ready threads a drain of the hook queue starts on the model pool: *)
(* selectHookThreads (errandd/app/hookQueueScheduler.ts) over the order of *)
(* readyThreads (hookQueue.ts).  drainHookQueue gives every thread a class *)
(* (`classes`), which selects by class and then by eligibility; without    *)
(* classes the function keeps lanes for reviews and for other work.        *)
(*                                                                         *)
(* HookDrain models the same choice without the order inside a class; here *)
(* the order is the subject, and batches are only started and ended.       *)
(***************************************************************************)
EXTENDS Integers, FiniteSets

CONSTANTS
  Thread,
  Rank,         \* the class of a thread: 0 = cve, 1 = small, 2 = big
  Reviews,      \* the threads whose job is "pr-review"
  Updated,      \* latestPrUpdateAt, 0 when no pull_request event is ready
  Limit,        \* the pool's ceiling (ERRANDD_MAX_HOOK_DRAINS, 3 by default)
  Reserve,      \* reserveReviews: a pr-review routine is loaded
  Places        \* bound: places in the order of eligibility

ASSUME SchedulingAssumption ==
  /\ IsFiniteSet(Thread)
  /\ Rank \in [Thread -> 0..2]
  /\ Reviews \subseteq Thread
  /\ Updated \in [Thread -> Nat]
  /\ Limit \in Nat \ {0}
  /\ Reserve \in BOOLEAN
  /\ Places \in Nat \ {0}

VARIABLES
  due,     \* due[t]: the place of thread t in the order of eligibility
           \* (readyThreads), 0 when it has no ready row
  active,  \* active[t]: "no", or the lane of the batch in flight: "plain",
           \* "fresh" or "backlog"
  classes  \* the caller gives the threads a class; fixed from the start

poolVars == <<due, active, classes>>

PoolInit ==
  /\ due = [t \in Thread |-> 0]
  /\ active = [t \in Thread |-> "no"]
  /\ classes \in BOOLEAN

-----------------------------------------------------------------------------
Picked == [t \in Thread |-> "no"]

In(lanes, S) == {t \in S : lanes[t] # "no"}
Busy(lanes)  == In(lanes, Thread)

(* Slip: threads in flight do not count against the ceiling. *)
RoomIgnoringActive(picks) == Cardinality(Busy(picks)) < Limit

(* active.length + selected.length < limit *)
Room(picks) == Cardinality(Busy(active)) + Cardinality(Busy(picks)) < Limit

Idle(picks, t) == active[t] = "no" /\ picks[t] = "no"

Ready == {t \in Thread : due[t] > 0}

-----------------------------------------------------------------------------
(* The branch without classes. *)

(* Slip: no slot is kept for the other lane. *)
LaneLimitWithoutReserve == Limit

LaneLimit == IF Reserve /\ Limit > 1 THEN Limit - 1 ELSE Limit

(* `reviews' and `background': in flight and selected. *)
InLane(picks, S) == Cardinality(In(active, S)) + Cardinality(In(picks, S))

Kind(t) == IF t \in Reviews THEN Reviews ELSE Thread \ Reviews

LaneRoom(picks, t) == InLane(picks, Kind(t)) < LaneLimit

(* With three workers or more the most recently updated review is started  *)
(* first, unless a live review is in flight.                               *)
FreshPick ==
  LET candidates == {t \in Ready \cap Reviews : active[t] = "no"}
      newest == CHOOSE t \in candidates : \A u \in candidates :
                  \/ Updated[t] > Updated[u]
                  \/ Updated[t] = Updated[u] /\ due[t] <= due[u]
  IN  IF /\ Reserve /\ Limit >= 3 /\ candidates # {}
         /\ InLane(Picked, Reviews) < LaneLimit /\ Room(Picked)
         /\ \A t \in Thread : active[t] # "fresh"
      THEN [Picked EXCEPT ![newest] = "fresh"] ELSE Picked

-----------------------------------------------------------------------------
(* Slip: sorting by class loses the order of eligibility. *)
TurnUnstable(t) == IF classes THEN Places * (Rank[t] + 1) + 1 - due[t] ELSE due[t]

(* When it is a thread's turn: toSorted by class is stable. *)
Turn(t) == IF classes THEN Places * Rank[t] + due[t] ELSE due[t]

(* Slip: lanes are kept for classified threads, too. *)
TakesWithinLane(picks, t) == Room(picks) /\ Idle(picks, t) /\ LaneRoom(picks, t)

Takes(picks, t) ==
  Room(picks) /\ Idle(picks, t) /\ (classes \/ LaneRoom(picks, t))

LaneOf(t) ==
  IF ~classes /\ t \in Reviews /\ Reserve /\ Limit >= 3 THEN "backlog" ELSE "plain"

(* What is selected after so many turns of the loop. *)
Selected[turns \in Nat] ==
  IF turns = 0
  THEN IF classes THEN Picked ELSE FreshPick
  ELSE LET picks == Selected[turns - 1] IN
       [t \in Thread |-> IF t \in Ready /\ Turn(t) = turns /\ Takes(picks, t)
                         THEN LaneOf(t) ELSE picks[t]]

SelectHookThreads == Selected[3 * Places]

-----------------------------------------------------------------------------
(* A row of a thread becomes ready, by its time: a delivery, a retry, or a *)
(* row given back by an inspection.  The earliest row of a thread counts.  *)
Arrive(t, place) ==
  /\ due[t] = 0 \/ place < due[t]
  /\ \A u \in Thread : due[u] # place
  /\ due' = [due EXCEPT ![t] = place]
  /\ UNCHANGED <<active, classes>>

Drain ==
  LET picks == SelectHookThreads IN
  /\ Busy(picks) # {}
  /\ active' = [t \in Thread |-> IF picks[t] # "no" THEN picks[t] ELSE active[t]]
  /\ due' = [t \in Thread |-> IF picks[t] # "no" THEN 0 ELSE due[t]]
  /\ UNCHANGED classes

Finish(t) ==
  /\ active[t] # "no"
  /\ active' = [active EXCEPT ![t] = "no"]
  /\ UNCHANGED <<due, classes>>

PoolNext ==
  \/ \E t \in Thread, place \in 1..Places : Arrive(t, place)
  \/ Drain
  \/ \E t \in Thread : Finish(t)

PoolSpec == PoolInit /\ [][PoolNext]_poolVars

-----------------------------------------------------------------------------
Waiting == {t \in Ready : active[t] = "no"}

(* The pool never holds more than Limit batches, whatever was in flight    *)
(* when a drain chose (the ceiling may have been filled by earlier ones).  *)
CeilingKept == Cardinality(Busy(active)) <= Limit

(* README: "strict priority: CVEs first, PR review/merge maintenance next, *)
(* bulk coding work last, FIFO within each class".  No thread is started   *)
(* while one that should go first is left waiting, although a waiting      *)
(* thread may have rejoined in front and batches of its own may be in      *)
(* flight.                                                                 *)
StartsInOrder ==
  [][classes => \A t, u \in Thread :
       (active[t] = "no" /\ active'[t] # "no" /\ u \in Waiting /\ active'[u] = "no")
         => \/ Rank[t] < Rank[u]
            \/ Rank[t] = Rank[u] /\ due[t] < due[u]]_poolVars

(* A classified drain leaves no slot empty that a waiting thread could     *)
(* take.                                                                   *)
NoIdleSlot ==
  [][classes /\ active' # active /\ Busy(active) \subseteq Busy(active')
       => \/ Cardinality(Busy(active')) = Limit
          \/ Waiting' = {}]_poolVars

(* hookQueueScheduler.ts:42: "Keep a lane available for reviews and a lane *)
(* for other work".  Without classes a drain never leaves one kind waiting *)
(* while the other has the whole pool, when a pr-review routine is loaded  *)
(* and there is more than one worker.                                      *)
LaneForEachKind ==
  [][~classes /\ active' # active /\ Busy(active) \subseteq Busy(active') /\ Reserve /\ Limit > 1
       => /\ Waiting' \cap Reviews # {} => In(active', Reviews) # {}
          /\ Waiting' \ Reviews # {} => In(active', Thread \ Reviews) # {}]_poolVars
=============================================================================
