-------------------------- MODULE AdmissionProofs --------------------------
(***************************************************************************)
(* Theorems on when work may go: the provider's hold (RateLimit), the runs *)
(* and retries of a routine under it (CronJobs), the retries of the hook   *)
(* queue's rows (RetryPolicy) and the threads its pool starts              *)
(* (HookScheduling), for every value of their constants.                   *)
(***************************************************************************)
EXTENDS CronJobs, RetryPolicy, HookScheduling,
        FiniteSetTheorems, WellFoundedInduction, TLAPS

-----------------------------------------------------------------------------
(***************************************************************************)
(* The provider's hold: RateLimit.                                         *)
(***************************************************************************)

(* What makes the bound inductive: a hit moves a run from the runs in      *)
(* flight to the counter, and while the counter is not 0 no gated run is   *)
(* added, because a hold is in force.                                      *)
Backlog ==
  /\ TypeOK
  /\ stray <= strays
  /\ hold = None => consecutive = 0
  /\ consecutive + gated + stray <= Slots + strays
  /\ hold # None /\ ~weekly /\ consecutive > 0 => hold <= Step[consecutive]
  /\ hold # None => consecutive > 0

(* The ranges of the constants, without the shape of the backoff table. *)
LEMMA Ranges ==
  /\ Slots \in Nat /\ MaxStrays \in Nat /\ Week \in Nat
  /\ Top \in Nat /\ Top > 0
  /\ None \notin Int
  BY RateLimitAssumption

(* The inductive invariant holds initially. *)
LEMMA BacklogInit == Init => Backlog
<1> SUFFICES ASSUME Init PROVE Backlog
  OBVIOUS
<1>1. hold \in Nat \cup {None} /\ weekly \in BOOLEAN
  BY DEF Init
<1>2. consecutive \in 0..Top
  BY Ranges DEF Init
<1>3. gated \in 0..Slots
  BY Ranges DEF Init
<1>4. stray \in 0..MaxStrays /\ strays \in 0..MaxStrays
  BY Ranges DEF Init
<1>6. TypeOK
  BY <1>1, <1>2, <1>3, <1>4 DEF TypeOK
<1> QED
  BY <1>6, Ranges DEF Init, Backlog

(* A run that ends makes room for the count it may add. *)
LEMMA FewerRuns ==
  ASSUME NEW c \in Nat, NEW g \in Nat, NEW s \in Nat, NEW g1 \in Nat, NEW s1 \in Nat,
         NEW bound \in Nat, g1 + s1 = g + s - 1, c + g + s <= bound
  PROVE  c + g1 + s1 <= bound
  OBVIOUS

(* Every step of the daemon preserves the inductive invariant. *)
LEMMA BacklogStep == Backlog /\ [Next]_vars => Backlog'
<1> SUFFICES ASSUME Backlog, [Next]_vars PROVE Backlog'
  OBVIOUS
<1>0. ASSUME RunEnds
      PROVE  /\ gated' + stray' = gated + stray - 1
             /\ stray' <= stray
             /\ gated' \in 0..Slots /\ stray' \in 0..MaxStrays /\ strays' = strays
  <2>1. CASE gated > 0 /\ gated' = gated - 1 /\ UNCHANGED <<stray, strays>>
    BY <2>1, Ranges DEF Backlog, TypeOK
  <2>2. CASE stray > 0 /\ stray' = stray - 1 /\ UNCHANGED <<gated, strays>>
    BY <2>2, Ranges DEF Backlog, TypeOK
  <2> QED BY <1>0, <2>1, <2>2 DEF RunEnds
<1>1. CASE Poll
  BY <1>1, Ranges DEF Backlog, TypeOK, Poll, Release, Clear, runs
<1>2. CASE Start
  BY <1>2, Ranges DEF Backlog, TypeOK, Start, Release, Clear
<1>3. CASE StartStray
  BY <1>3, Ranges DEF Backlog, TypeOK, StartStray
<1>4. ASSUME Hit
      PROVE  /\ Recorded \in 1..Top
             /\ consecutive' = Recorded
             /\ Recorded + gated' + stray' <= Slots + strays'
             /\ stray' <= strays'
             /\ gated' \in 0..Slots /\ stray' \in 0..MaxStrays /\ strays' \in 0..MaxStrays
  <2>1. /\ Recorded \in 1..Top
        /\ Recorded <= consecutive + 1
        /\ consecutive' = Recorded
    BY <1>4, Ranges DEF Backlog, TypeOK, Hit, Recorded
  <2>2. RunEnds
    BY <1>4 DEF Hit
  <2>4. Recorded + gated' + stray' <= Slots + strays'
    BY <1>0, <2>1, <2>2, Ranges DEF Backlog, TypeOK
  <2>5. stray' <= strays'
    BY <1>0, <2>2, Ranges DEF Backlog, TypeOK
  <2>6. strays' \in 0..MaxStrays
    BY <1>0, <2>2 DEF Backlog, TypeOK
  <2> QED BY <1>0, <2>1, <2>2, <2>4, <2>5, <2>6
<1>5. CASE HitsLimit
  <2>1. Step[Recorded] \in Nat \ {0}
    BY <1>4, <1>5, RateLimitAssumption DEF HitsLimit
  <2>2. hold' = Step[Recorded] /\ weekly' = FALSE /\ Hit
    BY <1>5 DEF HitsLimit
  <2>3. hold' \in Nat
    BY <2>1, <2>2
  <2>4. hold' <= Step[Recorded]
    BY <2>1, <2>2
  <2>5. weekly' \in BOOLEAN
    BY <2>2
  <2>6. consecutive' \in 0..Top
    BY <1>4, <2>2, Ranges
  <2>7. /\ gated' \in 0..Slots /\ stray' \in 0..MaxStrays /\ strays' \in 0..MaxStrays
    BY <1>4, <2>2
  <2>8. TypeOK'
    BY <2>3, <2>5, <2>6, <2>7 DEF TypeOK
  <2>9. hold' # None /\ hold' <= Step[consecutive'] /\ consecutive' > 0
    BY <1>4, <2>2, <2>3, <2>4, Ranges
  <2> QED BY <1>4, <2>2, <2>8, <2>9 DEF Backlog
<1>6. CASE \E d \in 1..Week : HitsWeeklyLimit(d)
  <2>1. PICK d \in 1..Week : hold' = d /\ weekly' = TRUE /\ Hit
    BY <1>6 DEF HitsWeeklyLimit
  <2>2. TypeOK'
    BY <1>4, <2>1, Ranges DEF TypeOK
  <2> QED BY <1>4, <2>1, <2>2, Ranges DEF Backlog
<1>7. CASE Succeeds
  <2>1. hold' = None /\ consecutive' = 0 /\ weekly' \in BOOLEAN
    BY <1>7 DEF Backlog, TypeOK, Succeeds, Clear
  <2>2. /\ gated' \in 0..Slots /\ stray' \in 0..MaxStrays
        /\ stray' <= stray /\ strays' = strays
    BY <1>0, <1>7 DEF Succeeds
  <2>3. TypeOK'
    BY <2>1, <2>2, Ranges DEF Backlog, TypeOK
  <2> QED BY <2>1, <2>2, <2>3, Ranges DEF Backlog, TypeOK
<1>8. CASE Fails
  <2>1. UNCHANGED <<hold, consecutive, weekly>>
    BY <1>8 DEF Fails
  <2>2. /\ gated' + stray' = gated + stray - 1 /\ stray' <= stray
        /\ gated' \in 0..Slots /\ stray' \in 0..MaxStrays /\ strays' = strays
    BY <1>0, <1>8 DEF Fails
  <2>3. TypeOK'
    BY <2>1, <2>2, Ranges DEF Backlog, TypeOK
  <2>4. consecutive' + gated' + stray' <= Slots + strays'
    <3>1. /\ consecutive \in Nat /\ gated \in Nat /\ stray \in Nat /\ strays \in Nat
          /\ gated' \in Nat /\ stray' \in Nat /\ Slots + strays \in Nat
          /\ consecutive + gated + stray <= Slots + strays
      BY <2>2, Ranges DEF Backlog, TypeOK
    <3>2. gated' + stray' = gated + stray - 1
      BY <2>2
    <3>3. consecutive + gated' + stray' <= Slots + strays
      BY <3>1, <3>2, FewerRuns
    <3>4. consecutive' = consecutive /\ strays' = strays
      BY <2>1, <2>2
    <3> QED BY <3>3, <3>4
  <2>5. stray' <= strays'
    BY <2>2, Ranges DEF Backlog, TypeOK
  <2> QED BY <2>1, <2>3, <2>4, <2>5 DEF Backlog
<1>9. CASE Second
  <2>1. Step[consecutive] \in Nat
    BY <1>9, RateLimitAssumption DEF Backlog, TypeOK, Second
  <2> QED BY <1>9, <2>1, Ranges DEF Backlog, TypeOK, Second, runs
<1>10. CASE UNCHANGED vars
  BY <1>10 DEF Backlog, TypeOK, vars
<1>11. CASE Restart
  <2>1. hold' = None /\ consecutive' = 0 /\ weekly' = FALSE
    BY <1>11 DEF Restart, Clear
  <2>2. gated' = 0 /\ stray' = 0 /\ strays' = strays
    BY <1>11 DEF Restart
  <2>3. TypeOK'
    <3>1. hold' \in Nat \cup {None} /\ weekly' \in BOOLEAN
      BY <2>1
    <3>2. consecutive' \in 0..Top /\ gated' \in 0..Slots /\ stray' \in 0..MaxStrays
      BY <2>1, <2>2, Ranges
    <3>3. strays' \in 0..MaxStrays
      BY <2>2 DEF Backlog, TypeOK
    <3> QED BY <3>1, <3>2, <3>3 DEF TypeOK
  <2>4. strays \in Nat /\ Slots \in Nat
    BY Ranges DEF Backlog, TypeOK
  <2>5. 0 <= strays /\ 0 + 0 + 0 <= Slots + strays
    BY <2>4
  <2>6. ~(hold' # None)
    BY <2>1
  <2>7. stray' <= strays' /\ consecutive' + gated' + stray' <= Slots + strays'
    BY <2>1, <2>2, <2>5
  <2> QED BY <2>1, <2>3, <2>6, <2>7 DEF Backlog
<1> QED
  BY <1>11, <1>1, <1>2, <1>3, <1>5, <1>6, <1>7, <1>8, <1>9, <1>10 DEF Next

(* The variables of the hold keep their types. *)
THEOREM HoldTypeCorrect == Spec => []TypeOK
<1>1. Backlog => TypeOK
  BY DEF Backlog
<1> QED BY <1>1, BacklogInit, BacklogStep, PTL DEF Spec

(* The backoff counter never exceeds the runs past the gate when the hold  *)
(* began, and a short hold never the step of that count (rate-limit.ts).   *)
THEOREM BackoffBounded == Spec => []BackoffBoundedByRuns
<1>1. Backlog => BackoffBoundedByRuns
  BY RateLimitAssumption DEF RateLimitAssumption, Backlog, TypeOK, BackoffBoundedByRuns
<1> QED BY <1>1, BacklogInit, BacklogStep, PTL DEF Spec

-----------------------------------------------------------------------------
(***************************************************************************)
(* A routine's runs under it: CronJobs.                                    *)
(***************************************************************************)

(* The ranges of the constants. *)
LEMMA CronRanges == MaxRetry \in Nat /\ MaxEdits \in Nat /\ MaxFlights \in Nat
  BY CronAssumption

(* A step of the routine is a step of the hold, or none. *)
LEMMA StepOfHold == [CronNext]_cronVars => [Next]_vars
<1> SUFFICES ASSUME [CronNext]_cronVars PROVE [Next]_vars
  OBVIOUS
<1> USE DEF Next
<1>1. ASSUME NEW f \in Flight, Goes(f) PROVE [Next]_vars
  <2>1. CASE Refused(f)
    BY <2>1 DEF Refused
  <2>2. CASE Snapshot(f)
    BY <2>2 DEF Snapshot
  <2>3. CASE Settles(f)
    BY <2>3 DEF Settles
  <2>4. CASE Cleared(f)
    BY <2>4 DEF Cleared
  <2>5. ASSUME NEW exit \in {"ok", "error", "thrown"}, AgentEnds(f, exit) PROVE [Next]_vars
    BY <2>5 DEF AgentEnds
  <2> QED BY <1>1, <2>1, <2>2, <2>3, <2>4, <2>5 DEF Goes
<1>2. ASSUME NEW f \in Flight, RetryFires(f) \/ CronFires(f) \/ FiresByHand(f) \/ HookFires(f)
      PROVE  [Next]_vars
  BY <1>2 DEF RetryFires, CronFires, FiresByHand, HookFires
<1>3. CASE RetryComesDue \/ AgentEdits \/ EditedByHand \/ Reload
  BY <1>3 DEF RetryComesDue, AgentEdits, EditedByHand, Reload
<1>4. CASE Reboot
  BY <1>4 DEF Reboot
<1>5. CASE Hold
  BY <1>5 DEF Hold
<1>6. CASE UNCHANGED cronVars
  BY <1>6 DEF cronVars
<1> QED BY <1>1, <1>2, <1>3, <1>4, <1>5, <1>6 DEF CronNext

(* The routine's runs obey the provider hold as RateLimit describes it,    *)
(* though they overlap, throw, are refused and are cut off by restarts.    *)
THEOREM CronObeysHold == CronSpec => Spec
<1>1. CronInit => Init
  BY DEF CronInit
<1> QED BY <1>1, StepOfHold, PTL DEF CronSpec, Spec

(* The backoff counter is bounded by the runs past the gate in the         *)
(* composition as well (rate-limit.ts).                                    *)
THEOREM CronBackoffBounded == CronSpec => []BackoffBoundedByRuns
  BY CronObeysHold, BackoffBounded, PTL

-----------------------------------------------------------------------------
(* The routine's own variables keep their types. *)
JobTypes ==
  /\ routine \in Routine
  /\ file \in BOOLEAN /\ loaded \in BOOLEAN
  /\ failCount \in Nat /\ retryAt \in {"none", "later", "due", "never"}
  /\ flight \in [Flight -> Run]
  /\ meant \in BOOLEAN /\ done \in BOOLEAN /\ spoiled \in BOOLEAN
  /\ fired \in Nat /\ edits \in 0..MaxEdits

(* A retry that is to come was paid for by a failure no retry has used. *)
Paid ==
  /\ failCount <= routine.retry /\ fired <= failCount
  /\ retryAt \in {"later", "due"} => fired < failCount
  /\ \A f \in Flight : flight[f].tries <= routine.retry

(* While a run has a snapshot, every snapshot is of the schedule as meant, *)
(* so whichever run ends last puts that back; without one the file has it. *)
HasSnapshot(f) == flight[f].at \in {"running", "over"}

Kept ==
  routine.recurring =>
    /\ \A f \in Flight : flight[f].at # "clearing"
    /\ ~spoiled =>
         /\ \A f \in Flight : HasSnapshot(f) => flight[f].saved = meant
         /\ \A f \in Flight : flight[f].at = "over" => flight[f].exit # "thrown"
         /\ (\A f \in Flight : ~HasSnapshot(f)) => file = meant

CronInv == JobTypes /\ Paid /\ Kept

(* A flight that is not in the air is a run. *)
LEMMA OffIsRun == Off \in Run /\ Off.at = "off" /\ Off.tries = 0
  BY CronRanges DEF Off, Run

(* The inductive invariant holds initially. *)
LEMMA CronInvInit == CronInit => CronInv
<1> SUFFICES ASSUME CronInit PROVE CronInv
  OBVIOUS
<1>1. flight \in [Flight -> Run] /\ \A f \in Flight : flight[f] = Off
  BY OffIsRun DEF CronInit
<1>2. routine.retry \in Nat
  BY CronRanges DEF CronInit, Routine
<1>3. JobTypes
  <2>1. /\ routine \in Routine /\ file \in BOOLEAN /\ loaded \in BOOLEAN
        /\ meant \in BOOLEAN /\ done \in BOOLEAN /\ spoiled \in BOOLEAN
    BY DEF CronInit
  <2>2. failCount \in Nat /\ fired \in Nat /\ edits \in 0..MaxEdits
    BY CronRanges DEF CronInit
  <2>3. retryAt \in {"none", "later", "due", "never"}
    BY DEF CronInit
  <2> QED BY <1>1, <2>1, <2>2, <2>3 DEF JobTypes
<1>4. Paid
  BY <1>1, <1>2, OffIsRun DEF CronInit, Paid
<1>5. file = meant
  BY DEF CronInit
<1>6. Kept
  BY <1>1, <1>5, OffIsRun DEF Kept, HasSnapshot
<1> QED BY <1>3, <1>4, <1>6 DEF CronInv

(* One flight changes. *)
LEMMA OneFlight ==
  ASSUME flight \in [Flight -> Run], NEW f \in Flight, NEW run \in Run,
         flight' = [flight EXCEPT ![f] = run]
  PROVE  /\ flight' \in [Flight -> Run]
         /\ flight'[f] = run
         /\ \A g \in Flight \ {f} : flight'[g] = flight[g]
  OBVIOUS

(* A run is launched. *)
LEMMA LaunchedRun ==
  ASSUME CronInv, NEW f \in Flight, NEW by \in {"tick", "retry", "hand"},
         NEW tries \in {0, routine.retry}, Launched(f, by, tries), Free(f),
         UNCHANGED <<routine, file, meant, spoiled>>
  PROVE  /\ flight' \in [Flight -> Run]
         /\ \A g \in Flight : flight'[g].tries <= routine.retry
         /\ Kept'
<1> DEFINE run ==
      [at |-> "starting", by |-> by, tries |-> tries, saved |-> FALSE, exit |-> "ok"]
<1>1. routine.retry \in Nat /\ routine.retry \in 0..MaxRetry
  BY CronRanges DEF CronInv, JobTypes, Routine
<1>2. run \in Run /\ run.at = "starting" /\ run.tries = tries
  <2>1. tries \in 0..MaxRetry
    BY <1>1, CronRanges
  <2> QED BY <2>1 DEF Run
<1>3. flight' = [flight EXCEPT ![f] = run]
  BY DEF Launched
<1> HIDE DEF run
<1>4. /\ flight' \in [Flight -> Run]
      /\ flight'[f] = run
      /\ \A g \in Flight \ {f} : flight'[g] = flight[g]
  BY <1>2, <1>3, OneFlight DEF CronInv, JobTypes
<1>5. \A g \in Flight : flight'[g].tries <= routine.retry
  BY <1>1, <1>2, <1>4 DEF CronInv, Paid
<1>6. flight[f].at = "off"
  BY DEF Free, InFlight
<1>7. Kept'
  BY <1>2, <1>4, <1>6 DEF CronInv, Kept, HasSnapshot
<1> QED BY <1>4, <1>5, <1>7

(* Every launch keeps the invariant. *)
LEMMA LaunchStep ==
  ASSUME CronInv, NEW f \in Flight,
         RetryFires(f) \/ CronFires(f) \/ FiresByHand(f) \/ HookFires(f)
  PROVE  CronInv'
<1>1. /\ Free(f)
      /\ UNCHANGED <<routine, file, loaded, failCount, meant, done, spoiled, edits>>
      /\ \E by \in {"tick", "retry", "hand"}, tries \in {0, routine.retry} : Launched(f, by, tries)
  BY DEF RetryFires, CronFires, FiresByHand, HookFires, entry, jobHistory
<1>2. /\ flight' \in [Flight -> Run]
      /\ \A g \in Flight : flight'[g].tries <= routine.retry
      /\ Kept'
  BY <1>1, LaunchedRun
<1>3. \/ retryAt = "due" /\ retryAt' = "never" /\ fired' = fired + 1
      \/ UNCHANGED <<retryAt, fired>>
  BY DEF RetryFires, CronFires, FiresByHand, HookFires, entry, jobHistory
<1>4. JobTypes'
  <2>1. fired' \in Nat
    BY <1>3 DEF CronInv, JobTypes
  <2>2. retryAt' \in {"none", "later", "due", "never"}
    BY <1>3 DEF CronInv, JobTypes
  <2> QED BY <1>1, <1>2, <2>1, <2>2 DEF CronInv, JobTypes
<1>5. Paid'
  <2>1. routine.retry \in Nat
    BY CronRanges DEF CronInv, JobTypes, Routine
  <2>2. fired' <= failCount /\ (retryAt' \in {"later", "due"} => fired' < failCount)
    BY <1>3 DEF CronInv, JobTypes, Paid
  <2> QED BY <1>1, <1>2, <2>2 DEF CronInv, Paid
<1> QED BY <1>2, <1>4, <1>5 DEF CronInv

(* A run is dropped that has no snapshot. *)
LEMMA DroppedRun ==
  ASSUME CronInv, NEW f \in Flight, flight' = [flight EXCEPT ![f] = Off],
         flight[f].at = "starting", UNCHANGED <<routine, file, meant>>,
         (spoiled' = TRUE) \/ (spoiled' = spoiled)
  PROVE  /\ flight' \in [Flight -> Run]
         /\ \A g \in Flight : flight'[g].tries <= routine.retry
         /\ Kept'
<1>1. routine.retry \in Nat
  BY CronRanges DEF CronInv, JobTypes, Routine
<1>2. /\ flight' \in [Flight -> Run]
      /\ flight'[f] = Off
      /\ \A g \in Flight \ {f} : flight'[g] = flight[g]
  BY OffIsRun, OneFlight DEF CronInv, JobTypes
<1>3. \A g \in Flight : flight'[g].tries <= routine.retry
  BY <1>1, <1>2, OffIsRun DEF CronInv, Paid
<1>4. CASE spoiled' = TRUE
  <2>1. \A g \in Flight : flight[g].at # "clearing" => flight'[g].at # "clearing"
    BY <1>2, OffIsRun
  <2> QED BY <1>2, <1>3, <1>4, <2>1 DEF CronInv, Kept
<1>5. CASE spoiled' = spoiled
  BY <1>2, <1>3, <1>5, OffIsRun DEF CronInv, Kept, HasSnapshot
<1> QED BY <1>4, <1>5

(* A refusal keeps the invariant. *)
LEMMA RefusedStep ==
  ASSUME CronInv, NEW f \in Flight, Refused(f)
  PROVE  CronInv'
<1>1. /\ flight[f].at = "starting" /\ flight' = [flight EXCEPT ![f] = Off]
      /\ UNCHANGED <<routine, file, loaded, failCount, retryAt, meant, fired, done>>
      /\ (spoiled' = TRUE) \/ (spoiled' = spoiled)
      /\ (edits' = edits) \/ (edits < MaxEdits /\ edits' = edits + 1)
  BY DEF Refused, Edit, entry
<1>2. /\ flight' \in [Flight -> Run]
      /\ \A g \in Flight : flight'[g].tries <= routine.retry
      /\ Kept'
  BY <1>1, DroppedRun
<1>3. edits' \in 0..MaxEdits
  BY <1>1, CronRanges DEF CronInv, JobTypes
<1>4. spoiled' \in BOOLEAN
  BY <1>1 DEF CronInv, JobTypes
<1>5. JobTypes'
  BY <1>1, <1>2, <1>3, <1>4 DEF CronInv, JobTypes
<1> QED BY <1>1, <1>2, <1>5 DEF CronInv, Paid

(* A snapshot keeps the invariant. *)
LEMMA SnapshotStep ==
  ASSUME CronInv, NEW f \in Flight, Snapshot(f)
  PROVE  CronInv'
<1> DEFINE run == [flight[f] EXCEPT !.at = "running", !.saved = file]
<1>1. /\ flight[f].at = "starting" /\ flight' = [flight EXCEPT ![f] = run]
      /\ UNCHANGED <<routine, file, loaded, failCount, retryAt, meant, fired, done, edits>>
      /\ spoiled' = (spoiled \/ file # meant)
  BY DEF Snapshot, entry
<1>2. run \in Run /\ run.at = "running" /\ run.saved = file /\ run.tries = flight[f].tries
  BY DEF CronInv, JobTypes, Run
<1> HIDE DEF run
<1>3. /\ flight' \in [Flight -> Run]
      /\ flight'[f] = run
      /\ \A g \in Flight \ {f} : flight'[g] = flight[g]
  BY <1>1, <1>2, OneFlight DEF CronInv, JobTypes
<1>4. spoiled' \in BOOLEAN
  BY <1>1
<1>5. JobTypes'
  BY <1>1, <1>3, <1>4 DEF CronInv, JobTypes
<1>6. Paid'
  BY <1>1, <1>2, <1>3 DEF CronInv, Paid
<1>7. ~spoiled' => ~spoiled /\ file = meant
  BY <1>1
<1>8. Kept'
  BY <1>1, <1>2, <1>3, <1>7 DEF CronInv, Kept, HasSnapshot
<1> QED BY <1>5, <1>6, <1>8 DEF CronInv

(* The end of an agent's run keeps the invariant. *)
LEMMA AgentEndsStep ==
  ASSUME CronInv, NEW f \in Flight, NEW exit \in {"ok", "error", "thrown"}, AgentEnds(f, exit)
  PROVE  CronInv'
<1> DEFINE run == [flight[f] EXCEPT !.at = "over", !.exit = exit]
<1>1. /\ flight[f].at = "running" /\ flight' = [flight EXCEPT ![f] = run]
      /\ UNCHANGED <<routine, file, loaded, failCount, retryAt, meant, fired, done>>
      /\ (spoiled' = TRUE) \/ (spoiled' = spoiled /\ exit # "thrown")
      /\ (edits' = edits) \/ (edits < MaxEdits /\ edits' = edits + 1)
  BY DEF AgentEnds, Edit, entry
<1>2. /\ run \in Run /\ run.at = "over" /\ run.exit = exit
      /\ run.saved = flight[f].saved /\ run.tries = flight[f].tries
  BY DEF CronInv, JobTypes, Run
<1> HIDE DEF run
<1>3. /\ flight' \in [Flight -> Run]
      /\ flight'[f] = run
      /\ \A g \in Flight \ {f} : flight'[g] = flight[g]
  BY <1>1, <1>2, OneFlight DEF CronInv, JobTypes
<1>4. edits' \in 0..MaxEdits
  BY <1>1, CronRanges DEF CronInv, JobTypes
<1>5. spoiled' \in BOOLEAN
  BY <1>1 DEF CronInv, JobTypes
<1>6. JobTypes'
  BY <1>1, <1>3, <1>4, <1>5 DEF CronInv, JobTypes
<1>7. Paid'
  BY <1>1, <1>2, <1>3 DEF CronInv, Paid
<1>8. Kept'
  <2>1. CASE spoiled' = TRUE
    BY <1>1, <1>2, <1>3, <2>1 DEF CronInv, Kept
  <2>2. CASE spoiled' = spoiled /\ exit # "thrown"
    BY <1>1, <1>2, <1>3, <2>2 DEF CronInv, Kept, HasSnapshot
  <2> QED BY <1>1, <2>1, <2>2
<1> QED BY <1>6, <1>7, <1>8 DEF CronInv

(* The handling of a result keeps the invariant. *)
LEMMA SettlesStep ==
  ASSUME CronInv, NEW f \in Flight, Settles(f)
  PROVE  CronInv'
<1> DEFINE ends == routine.recurring \/ routine.hooked \/ retryAt' # "none"
           run == IF ends THEN Off ELSE [flight[f] EXCEPT !.at = "clearing"]
<1>1. /\ flight[f].at = "over" /\ flight' = [flight EXCEPT ![f] = run]
      /\ Restores(flight[f]) /\ Recounted(flight[f])
      /\ done' = TRUE
      /\ UNCHANGED <<routine, loaded, meant, spoiled, edits>>
  BY DEF Settles
<1>2. /\ run \in Run /\ run.at \in {"off", "clearing"}
      /\ run.tries \in {0, flight[f].tries}
      /\ routine.recurring => run = Off
  <2>1. [flight[f] EXCEPT !.at = "clearing"] \in Run
    BY DEF CronInv, JobTypes, Run
  <2>2. /\ [flight[f] EXCEPT !.at = "clearing"].at = "clearing"
        /\ [flight[f] EXCEPT !.at = "clearing"].tries = flight[f].tries
    BY DEF CronInv, JobTypes, Run
  <2> QED BY <2>1, <2>2, OffIsRun
<1> HIDE DEF run
<1>3. /\ flight' \in [Flight -> Run]
      /\ flight'[f] = run
      /\ \A g \in Flight \ {f} : flight'[g] = flight[g]
  BY <1>1, <1>2, OneFlight DEF CronInv, JobTypes
<1>4. /\ flight[f].tries \in Nat /\ routine.retry \in Nat
      /\ flight[f].tries <= routine.retry
  BY CronRanges DEF CronInv, JobTypes, Paid, Routine, Run
<1>5. \/ UNCHANGED <<failCount, retryAt, fired>>
      \/ failCount' = 0 /\ retryAt' = "none" /\ fired' = 0
      \/ /\ failCount + 1 <= flight[f].tries
         /\ failCount' = failCount + 1 /\ retryAt' = "later" /\ fired' = fired
  <2>1. CASE flight[f].exit = "thrown"
    BY <1>1, <2>1 DEF Recounted, entry
  <2>2. CASE flight[f].exit = "ok"
    BY <1>1, <2>2 DEF Recounted, NoEntry
  <2>3. CASE flight[f].exit \notin {"thrown", "ok"}
    <3>1. CASE flight[f].tries = 0
      BY <1>1, <2>3, <3>1 DEF Recounted, entry
    <3>2. CASE flight[f].tries # 0 /\ failCount + 1 > flight[f].tries
      BY <1>1, <2>3, <3>2 DEF Recounted, NoEntry
    <3>3. CASE flight[f].tries # 0 /\ ~(failCount + 1 > flight[f].tries)
      BY <1>1, <1>4, <2>3, <3>3 DEF Recounted, CronInv, JobTypes
    <3> QED BY <3>1, <3>2, <3>3
  <2> QED BY <2>1, <2>2, <2>3
<1>6. /\ failCount' \in Nat /\ fired' \in Nat
      /\ retryAt' \in {"none", "later", "due", "never"}
  BY <1>5 DEF CronInv, JobTypes
<1>7. file' = flight[f].saved \/ file' = file
  BY <1>1 DEF Restores
<1>8. file' \in BOOLEAN
  BY <1>7 DEF CronInv, JobTypes, Run
<1>9. done' \in BOOLEAN
  BY <1>1
<1>10. JobTypes'
  BY <1>1, <1>3, <1>6, <1>8, <1>9 DEF CronInv, JobTypes
<1>11. Paid'
  <2>1. \A g \in Flight : flight'[g].tries <= routine.retry
    BY <1>2, <1>3, <1>4 DEF CronInv, Paid
  <2>2. /\ failCount' <= routine.retry /\ fired' <= failCount'
        /\ retryAt' \in {"later", "due"} => fired' < failCount'
    BY <1>4, <1>5 DEF CronInv, JobTypes, Paid
  <2> QED BY <1>1, <2>1, <2>2 DEF Paid
<1>12. Kept'
  <2> SUFFICES ASSUME routine.recurring PROVE Kept'
    BY <1>1 DEF Kept
  <2>1. flight'[f].at = "off" /\ \A g \in Flight : flight'[g].at # "clearing"
    BY <1>2, <1>3, OffIsRun DEF CronInv, Kept
  <2>2. ASSUME ~spoiled PROVE file' = meant
    BY <1>1, <2>2 DEF Restores, CronInv, Kept, HasSnapshot
  <2> QED BY <1>1, <1>3, <2>1, <2>2 DEF CronInv, Kept, HasSnapshot
<1> QED BY <1>10, <1>11, <1>12 DEF CronInv

(* Clearing a one-shot schedule keeps the invariant. *)
LEMMA ClearedStep ==
  ASSUME CronInv, NEW f \in Flight, Cleared(f)
  PROVE  CronInv'
<1>1. /\ flight[f].at = "clearing" /\ flight' = [flight EXCEPT ![f] = Off]
      /\ UNCHANGED <<routine, loaded, failCount, retryAt, fired, spoiled>>
      /\ \/ file' = FALSE /\ meant' = FALSE /\ UNCHANGED <<edits, done>>
         \/ edits < MaxEdits /\ edits' = edits + 1 /\ done' = FALSE /\ UNCHANGED <<file, meant>>
  BY DEF Cleared, Edit, entry
<1>2. /\ flight' \in [Flight -> Run]
      /\ flight'[f] = Off
      /\ \A g \in Flight \ {f} : flight'[g] = flight[g]
  BY <1>1, OffIsRun, OneFlight DEF CronInv, JobTypes
<1>3. edits' \in 0..MaxEdits
  BY <1>1, CronRanges DEF CronInv, JobTypes
<1>4. file' \in BOOLEAN /\ meant' \in BOOLEAN /\ done' \in BOOLEAN
  BY <1>1 DEF CronInv, JobTypes
<1>5. JobTypes'
  BY <1>1, <1>2, <1>3, <1>4 DEF CronInv, JobTypes
<1>6. routine.retry \in Nat
  BY CronRanges DEF CronInv, JobTypes, Routine
<1>7. Paid'
  BY <1>1, <1>2, <1>6, OffIsRun DEF CronInv, Paid
<1>8. ~routine.recurring
  BY <1>1 DEF CronInv, Kept
<1>9. Kept'
  BY <1>1, <1>8 DEF Kept
<1> QED BY <1>5, <1>7, <1>9 DEF CronInv

(* An edit, by an agent or by hand, keeps the invariant. *)
LEMMA EditStep ==
  ASSUME CronInv, AgentEdits \/ EditedByHand
  PROVE  CronInv'
<1>1. /\ edits < MaxEdits /\ edits' = edits + 1
      /\ UNCHANGED <<routine, loaded, failCount, retryAt, flight, fired>>
  BY DEF AgentEdits, EditedByHand, Edit, entry, jobHistory
<1>2. edits' \in 0..MaxEdits
  BY <1>1, CronRanges DEF CronInv, JobTypes
<1>3. CASE AgentEdits
  <2>1. /\ \E f \in Flight : flight[f].at = "running"
        /\ file' = ~file /\ UNCHANGED <<meant, done, spoiled>>
    BY <1>3 DEF AgentEdits, jobHistory
  <2>2. file' \in BOOLEAN
    BY <2>1
  <2>3. JobTypes'
    BY <1>1, <1>2, <2>1, <2>2 DEF CronInv, JobTypes
  <2>4. Kept'
    BY <1>1, <2>1 DEF CronInv, Kept, HasSnapshot
  <2> QED BY <1>1, <2>3, <2>4 DEF CronInv, Paid
<1>4. CASE EditedByHand
  <2>1. /\ file' = meant' /\ file' \in BOOLEAN
        /\ done' = FALSE /\ spoiled' = (spoiled \/ InFlight # {})
    BY <1>4 DEF EditedByHand
  <2>2. spoiled' \in BOOLEAN /\ done' \in BOOLEAN /\ meant' \in BOOLEAN
    BY <2>1
  <2>3. JobTypes'
    BY <1>1, <1>2, <2>1, <2>2 DEF CronInv, JobTypes
  <2>4. ~spoiled' => ~spoiled /\ \A f \in Flight : flight[f].at = "off"
    BY <2>1 DEF InFlight
  <2>5. Kept'
    BY <1>1, <2>1, <2>4 DEF CronInv, Kept, HasSnapshot
  <2> QED BY <1>1, <2>3, <2>5 DEF CronInv, Paid
<1> QED BY <1>3, <1>4

(* A restart keeps the invariant. *)
LEMMA RebootStep ==
  ASSUME CronInv, Reboot
  PROVE  CronInv'
<1>1. /\ edits < MaxEdits /\ edits' = edits + 1
      /\ failCount' = 0 /\ retryAt' = "none" /\ fired' = 0
      /\ flight' = [f \in Flight |-> Off]
      /\ loaded' = file /\ done' = FALSE /\ spoiled' = (spoiled \/ file # meant)
      /\ UNCHANGED <<routine, file, meant>>
  BY DEF Reboot, Edit, NoEntry
<1>2. edits' \in 0..MaxEdits
  BY <1>1, CronRanges DEF CronInv, JobTypes
<1>3. flight' \in [Flight -> Run] /\ \A f \in Flight : flight'[f] = Off
  BY <1>1, OffIsRun
<1>4. spoiled' \in BOOLEAN /\ done' \in BOOLEAN /\ loaded' \in BOOLEAN
  BY <1>1 DEF CronInv, JobTypes
<1>5. JobTypes'
  BY <1>1, <1>2, <1>3, <1>4 DEF CronInv, JobTypes
<1>6. routine.retry \in Nat
  BY CronRanges DEF CronInv, JobTypes, Routine
<1>7. Paid'
  BY <1>1, <1>3, <1>6, OffIsRun DEF Paid
<1>8. ~spoiled' => file = meant
  BY <1>1
<1>9. Kept'
  BY <1>1, <1>3, <1>8, OffIsRun DEF Kept, HasSnapshot
<1> QED BY <1>5, <1>7, <1>9 DEF CronInv

(* Every step of the routine preserves the inductive invariant. *)
LEMMA CronInvStep == CronInv /\ [CronNext]_cronVars => CronInv'
<1> SUFFICES ASSUME CronInv, [CronNext]_cronVars PROVE CronInv'
  OBVIOUS
<1>1. ASSUME NEW f \in Flight, Goes(f) PROVE CronInv'
  <2>1. ASSUME NEW exit \in {"ok", "error", "thrown"}, AgentEnds(f, exit) PROVE CronInv'
    BY <2>1, AgentEndsStep
  <2> QED BY <1>1, <2>1, RefusedStep, SnapshotStep, SettlesStep, ClearedStep DEF Goes
<1>2. ASSUME NEW f \in Flight, RetryFires(f) \/ CronFires(f) \/ FiresByHand(f) \/ HookFires(f)
      PROVE  CronInv'
  BY <1>2, LaunchStep
<1>3. CASE RetryComesDue
  <2>1. /\ retryAt = "later" /\ retryAt' = "due"
        /\ UNCHANGED <<routine, file, loaded, failCount, flight, meant, fired, done, spoiled, edits>>
    BY <1>3 DEF RetryComesDue, jobHistory
  <2> QED BY <2>1 DEF CronInv, JobTypes, Paid, Kept, HasSnapshot
<1>4. CASE AgentEdits \/ EditedByHand
  BY <1>4, EditStep
<1>5. CASE Reload
  <2>1. /\ loaded' = file
        /\ UNCHANGED <<routine, file, failCount, retryAt, flight, meant, fired, done, spoiled, edits>>
    BY <1>5 DEF Reload, entry, jobHistory
  <2> QED BY <2>1 DEF CronInv, JobTypes, Paid, Kept, HasSnapshot
<1>6. CASE Reboot
  BY <1>6, RebootStep
<1>7. CASE Hold \/ UNCHANGED cronVars
  <2>1. UNCHANGED <<routine, file, loaded, failCount, retryAt, flight, meant, fired, done, spoiled, edits>>
    BY <1>7 DEF Hold, cronVars, jobVars, entry, jobHistory
  <2> QED BY <2>1 DEF CronInv, JobTypes, Paid, Kept, HasSnapshot
<1> QED BY <1>1, <1>2, <1>3, <1>4, <1>5, <1>6, <1>7 DEF CronNext

(* The inductive invariant holds in every reachable state. *)
LEMMA AlwaysCronInv == CronSpec => []CronInv
  BY CronInvInit, CronInvStep, PTL DEF CronSpec

(* Every variable of the routine and of the hold keeps its type. *)
THEOREM CronTypeCorrect == CronSpec => []CronTypeOK
<1>1. CronInv /\ TypeOK => CronTypeOK
  <2> SUFFICES ASSUME CronInv, TypeOK PROVE CronTypeOK
    OBVIOUS
  <2>1. failCount \in 0..MaxRetry
    BY CronRanges DEF CronInv, JobTypes, Paid, Routine
  <2> QED BY <2>1 DEF CronInv, JobTypes, CronTypeOK
<1> QED BY <1>1, AlwaysCronInv, CronObeysHold, HoldTypeCorrect, PTL

(* However runs by schedule, by hand and by hooks overlap, a failure is    *)
(* retried at most as often as the routine asks (start.ts:1933-1946).      *)
THEOREM RetriesStayBounded == CronSpec => []RetriesBounded
<1>1. CronInv => RetriesBounded
  BY DEF CronInv, Paid, RetriesBounded
<1> QED BY <1>1, AlwaysCronInv, PTL

(* A recurring routine has the schedule it was given whenever none of its  *)
(* runs is in flight (jobs.ts:412-450).                                    *)
THEOREM RecurringScheduleKept == CronSpec => []ScheduleKept
<1>1. CronInv => ScheduleKept
  BY DEF CronInv, Kept, ScheduleKept, InFlight, HasSnapshot
<1> QED BY <1>1, AlwaysCronInv, PTL

-----------------------------------------------------------------------------
(***************************************************************************)
(* Numbers, and functions given step by step on them.                      *)
(***************************************************************************)

(* Every non-empty set of naturals has a least element, *)
LEMMA LeastElement ==
  ASSUME NEW T \in SUBSET Nat, T # {}
  PROVE  \E x \in T : \A y \in T : x <= y
<1> DEFINE Less == OpToRel(<, Nat)
<1>1. PICK x \in T : \A y \in T : ~(<<y, x>> \in Less)
  <2>1. IsWellFoundedOn(Less, Nat)
    BY NatLessThanWellFounded, Zenon
  <2> HIDE DEF Less
  <2> QED BY <2>1, WFMin
<1>2. ASSUME NEW y \in T, y < x PROVE FALSE
  <2>1. <<y, x>> \in {ss \in Nat \X Nat : ss[1] < ss[2]}
    BY <1>2
  <2>2. Less = {ss \in Nat \X Nat : ss[1] < ss[2]}
    BY Zenon DEF OpToRel
  <2> HIDE DEF Less
  <2> QED BY <1>1, <2>1, <2>2
<1> HIDE DEF Less
<1> QED BY <1>1, <1>2

(* and one with a bound a greatest. *)
LEMMA GreatestElement ==
  ASSUME NEW n \in Nat, NEW T \in SUBSET (0..n), T # {}
  PROVE  \E x \in T : \A y \in T : x >= y
<1> DEFINE B == {b \in Nat : \A y \in T : y <= b}
<1>1. PICK b \in B : \A d \in B : b <= d
  <2>1. n \in B
    OBVIOUS
  <2> QED BY <2>1, LeastElement
<1>2. PICK z \in T : TRUE
  OBVIOUS
<1>3. b \in T
  <2> SUFFICES ASSUME b \notin T PROVE FALSE
    OBVIOUS
  <2>1. z \in 0..n /\ z <= b
    BY <1>2
  <2>2. b - 1 \in Nat
    BY <2>1
  <2>3. \A y \in T : y <= b - 1
    BY <1>1
  <2>4. b - 1 \in B
    BY <2>2, <2>3
  <2> QED BY <1>1, <2>4
<1> QED BY <1>3, <1>1

(* What holds of 0 and of the successor of what it holds of, holds of all. *)
LEMMA SetInduction ==
  ASSUME NEW G \in SUBSET Nat, 0 \in G, \A n \in G : n + 1 \in G
  PROVE  G = Nat
<1> SUFFICES ASSUME Nat \ G # {} PROVE FALSE
  OBVIOUS
<1>1. PICK x \in Nat \ G : \A y \in Nat \ G : x <= y
  BY LeastElement
<1>2. x # 0 /\ x - 1 \in Nat
  BY <1>1
<1>3. x - 1 \in G
  BY <1>1, <1>2
<1>4. (x - 1) + 1 \in G
  BY <1>3
<1> QED BY <1>1, <1>4

(* So Least and Most are what they are called.                             *)
LEMMA LeastIs ==
  ASSUME NEW T \in SUBSET Nat, T # {}
  PROVE  Least(T) \in T /\ \A y \in T : Least(T) <= y
  BY LeastElement DEF Least

LEMMA MostIs ==
  ASSUME NEW n \in Nat, NEW T \in SUBSET (0..n), T # {}
  PROVE  Most(T) \in T /\ \A y \in T : Most(T) >= y
  BY GreatestElement DEF Most

(* A function on the naturals that is given by its value at 0 and by what  *)
(* follows each value: there is one. *)
Iterates(g, D, b, step) ==
  g \in [Nat -> D] /\ g = [n \in Nat |-> IF n = 0 THEN b ELSE step[g[n - 1]]]

LEMMA Iterated ==
  ASSUME NEW D, NEW b \in D, NEW step \in [D -> D]
  PROVE  \E g : Iterates(g, D, b, step)
<1> DEFINE Upto(n, g) == /\ g \in [0..n -> D]
                         /\ g[0] = b
                         /\ \A k \in 1..n : g[k] = step[g[k - 1]]
           G == {n \in Nat : \E g : Upto(n, g)}
<1>1. 0 \in G
  <2>1. Upto(0, [k \in 0..0 |-> b])
    OBVIOUS
  <2> QED BY <2>1
<1>2. ASSUME NEW n \in G PROVE n + 1 \in G
  <2>1. PICK g : Upto(n, g)
    OBVIOUS
  <2> DEFINE h == [k \in 0..(n + 1) |-> IF k = n + 1 THEN step[g[n]] ELSE g[k]]
  <2>2. h \in [0..(n + 1) -> D] /\ h[0] = b
    BY <2>1
  <2>3. ASSUME NEW k \in 1..(n + 1) PROVE h[k] = step[h[k - 1]]
    BY <2>1
  <2>4. Upto(n + 1, h)
    BY <2>2, <2>3
  <2>5. n \in Nat /\ n + 1 \in Nat
    OBVIOUS
  <2> HIDE DEF Upto, h
  <2> QED BY <2>4, <2>5
<1>3. G = Nat
  BY <1>1, <1>2, SetInduction
<1> HIDE DEF G
<1>4. ASSUME NEW n \in Nat PROVE \E g : Upto(n, g)
  BY <1>3 DEF G
(* They agree where both are defined. *)
<1>5. ASSUME NEW m \in Nat, NEW g, NEW h, NEW n \in Nat, m <= n, Upto(m, g), Upto(n, h)
      PROVE  \A k \in 0..m : g[k] = h[k]
  <2> DEFINE E == {k \in Nat : k <= m => g[k] = h[k]}
  <2>1. 0 \in E
    BY <1>5
  <2>2. ASSUME NEW k \in E PROVE k + 1 \in E
    <3> SUFFICES ASSUME k + 1 <= m PROVE g[k + 1] = h[k + 1]
      OBVIOUS
    <3>1. g[k] = h[k] /\ k + 1 \in 1..m /\ k + 1 \in 1..n /\ (k + 1) - 1 = k
      BY <1>5
    <3>2. g[k + 1] = step[g[k]] /\ h[k + 1] = step[h[k]]
      BY <3>1, <1>5
    <3> QED BY <3>1, <3>2
  <2>3. E = Nat
    BY <2>1, <2>2, SetInduction
  <2> QED BY <2>3
<1> DEFINE T(n) == CHOOSE g : Upto(n, g)
           r == [n \in Nat |-> T(n)[n]]
<1>6. ASSUME NEW n \in Nat PROVE Upto(n, T(n))
  BY <1>4
<1> HIDE DEF T
<1>7. r \in [Nat -> D]
  BY <1>6
<1>8. ASSUME NEW n \in Nat PROVE r[n] = IF n = 0 THEN b ELSE step[r[n - 1]]
  <2>1. CASE n = 0
    BY <2>1, <1>6
  <2>2. CASE n # 0
    <3>1. n - 1 \in Nat /\ n \in 1..n /\ n - 1 <= n /\ n - 1 \in 0..(n - 1)
      BY <2>2
    <3>2. T(n - 1)[n - 1] = T(n)[n - 1]
      <4>1. Upto(n - 1, T(n - 1)) /\ Upto(n, T(n))
        BY <3>1, <1>6
      <4> HIDE DEF Upto
      <4> QED BY <3>1, <4>1, <1>5
    <3>3. T(n)[n] = step[T(n)[n - 1]]
      BY <3>1, <1>6
    <3> QED BY <2>2, <3>1, <3>2, <3>3
  <2> QED BY <2>1, <2>2
<1>9. r = [n \in Nat |-> IF n = 0 THEN b ELSE step[r[n - 1]]]
  BY <1>7, <1>8
<1> QED BY <1>7, <1>9 DEF Iterates

-----------------------------------------------------------------------------
(***************************************************************************)
(* The two backoffs and the retry policy: Backoff, RetryPolicy.            *)
(***************************************************************************)

LEMMA LeastOfTwo ==
  ASSUME NEW a \in Nat, NEW b \in Nat
  PROVE  Least({a, b}) = IF a <= b THEN a ELSE b
<1>1. Least({a, b}) \in {a, b} /\ \A y \in {a, b} : Least({a, b}) <= y
  <2>1. {a, b} \in SUBSET Nat /\ {a, b} # {}
    OBVIOUS
  <2> QED BY <2>1, LeastIs
<1> QED BY <1>1

(* 60 s, doubled each time, *)
LEMMA DoubledIs ==
  /\ Doubled \in [Nat -> Nat]
  /\ Doubled[0] = 60
  /\ \A n \in Nat : Doubled[n + 1] = 2 * Doubled[n]
<1> DEFINE step == [n \in Nat |-> 2 * n]
<1>1. PICK g : Iterates(g, Nat, 60, step)
  <2>1. step \in [Nat -> Nat]
    OBVIOUS
  <2> HIDE DEF step
  <2> QED BY <2>1, Iterated
<1>2. g = [n \in Nat |-> IF n = 0 THEN 60 ELSE 2 * g[n - 1]]
  <2>1. ASSUME NEW n \in Nat, n # 0 PROVE step[g[n - 1]] = 2 * g[n - 1]
    <3>1. n - 1 \in Nat /\ g \in [Nat -> Nat]
      BY <1>1, <2>1 DEF Iterates
    <3> QED BY <3>1
  <2> HIDE DEF step
  <2> QED BY <1>1, <2>1 DEF Iterates
<1>3. Doubled = [n \in Nat |-> IF n = 0 THEN 60 ELSE 2 * Doubled[n - 1]]
  BY <1>2 DEF Doubled
<1> DEFINE E == {n \in Nat : Doubled[n] \in Nat}
<1>4. E = Nat
  <2>1. 0 \in E
    BY <1>3
  <2>2. ASSUME NEW n \in E PROVE n + 1 \in E
    <3>1. n + 1 \in Nat /\ n + 1 # 0 /\ (n + 1) - 1 = n /\ Doubled[n] \in Nat
      OBVIOUS
    <3>2. Doubled[n + 1] = 2 * Doubled[n]
      BY <1>3, <3>1
    <3> QED BY <3>1, <3>2
  <2> HIDE DEF E
  <2> QED BY <2>1, <2>2, SetInduction DEF E
<1>5. Doubled \in [Nat -> Nat]
  BY <1>3, <1>4
<1>6. ASSUME NEW n \in Nat PROVE Doubled[n + 1] = 2 * Doubled[n]
  <2>1. n + 1 \in Nat /\ n + 1 # 0 /\ (n + 1) - 1 = n
    OBVIOUS
  <2> QED BY <1>3, <2>1
<1> QED BY <1>3, <1>5, <1>6

(* never less than before. *)
LEMMA DoubledGrows == \A m, n \in Nat : m <= n => Doubled[m] <= Doubled[n]
<1> SUFFICES ASSUME NEW m \in Nat PROVE \A n \in Nat : m <= n => Doubled[m] <= Doubled[n]
  OBVIOUS
<1> DEFINE E == {n \in Nat : m <= n => Doubled[m] <= Doubled[n]}
<1>1. 0 \in E
  BY DoubledIs
<1>2. ASSUME NEW n \in E PROVE n + 1 \in E
  <2>1. Doubled[n + 1] = 2 * Doubled[n] /\ Doubled[n] \in Nat /\ Doubled[m] \in Nat
    BY DoubledIs
  <2>2. CASE m <= n
    BY <2>1, <2>2
  <2>3. CASE m = n + 1
    BY <2>1, <2>3
  <2> QED BY <2>2, <2>3
<1>3. E = Nat
  <2> HIDE DEF E
  <2> QED BY <1>1, <1>2, SetInduction DEF E
<1> QED BY <1>3

(* The recursion of the Fibonacci numbers defines them. *)
LEMMA FibIs ==
  /\ Fib \in [Nat -> Nat]
  /\ Fib[0] = 0 /\ Fib[1] = 1
  /\ \A n \in Nat : Fib[n + 2] = Fib[n + 1] + Fib[n]
<1> DEFINE step == [p \in Nat \X Nat |-> <<p[2], p[1] + p[2]>>]
<1>1. PICK h : Iterates(h, Nat \X Nat, <<0, 1>>, step)
  <2>1. step \in [Nat \X Nat -> Nat \X Nat] /\ <<0, 1>> \in Nat \X Nat
    OBVIOUS
  <2> HIDE DEF step
  <2> QED BY <2>1, Iterated
<1>2. h[0] = <<0, 1>>
  BY <1>1 DEF Iterates
<1>3. ASSUME NEW n \in Nat PROVE h[n + 1] = <<h[n][2], h[n][1] + h[n][2]>>
  <2>1. n + 1 \in Nat /\ n + 1 # 0 /\ (n + 1) - 1 = n /\ h[n] \in Nat \X Nat
    BY <1>1 DEF Iterates
  <2>2. h[n + 1] = step[h[n]]
    <3> HIDE DEF step
    <3> QED BY <1>1, <2>1 DEF Iterates
  <2> QED BY <2>1, <2>2
<1> DEFINE g == [n \in Nat |-> h[n][1]]
<1>4. ASSUME NEW n \in Nat PROVE g[n] \in Nat /\ g[n + 1] = h[n][2]
  <2>1. h[n] \in Nat \X Nat /\ n + 1 \in Nat
    BY <1>1 DEF Iterates
  <2>2. h[n + 1] = <<h[n][2], h[n][1] + h[n][2]>>
    BY <1>3
  <2> QED BY <2>1, <2>2
<1>5. g[0] = 0 /\ g[1] = 1
  BY <1>2, <1>3
<1>6. ASSUME NEW n \in Nat, n > 1 PROVE g[n] = g[n - 1] + g[n - 2]
  <2>1. n - 1 \in Nat /\ n - 2 \in Nat /\ (n - 2) + 1 = n - 1 /\ (n - 1) + 1 = n
    BY <1>6
  <2>2. g[n] = h[n - 1][2] /\ g[n - 1] = h[n - 2][2] /\ g[n - 2] = h[n - 2][1]
    BY <2>1, <1>4
  <2>3. h[n - 1][2] = h[n - 2][1] + h[n - 2][2] /\ h[n - 2] \in Nat \X Nat
    <3>1. h[(n - 2) + 1] = <<h[n - 2][2], h[n - 2][1] + h[n - 2][2]>>
      BY <2>1, <1>3
    <3>2. h[n - 2] \in Nat \X Nat
      BY <1>1, <2>1 DEF Iterates
    <3> QED BY <2>1, <3>1, <3>2
  <2>4. h[n - 2][1] \in Nat /\ h[n - 2][2] \in Nat
    BY <2>3
  <2> HIDE DEF g
  <2> QED BY <2>2, <2>3, <2>4
<1>7. g = [n \in Nat |-> IF n <= 1 THEN n ELSE g[n - 1] + g[n - 2]]
  <2>1. ASSUME NEW n \in Nat PROVE g[n] = IF n <= 1 THEN n ELSE g[n - 1] + g[n - 2]
    <3>1. CASE n <= 1
      BY <3>1, <1>5
    <3>2. CASE n > 1
      BY <3>2, <1>6
    <3> QED BY <3>1, <3>2
  <2> QED BY <2>1
<1> HIDE DEF g
<1>8. Fib = [n \in Nat |-> IF n <= 1 THEN n ELSE Fib[n - 1] + Fib[n - 2]]
  BY <1>7 DEF Fib
<1>9. Fib[0] = 0 /\ Fib[1] = 1
  BY <1>8
<1>10. ASSUME NEW n \in Nat PROVE Fib[n + 2] = Fib[n + 1] + Fib[n]
  <2>1. n + 2 \in Nat /\ ~(n + 2 <= 1) /\ (n + 2) - 1 = n + 1 /\ (n + 2) - 2 = n
    OBVIOUS
  <2> QED BY <1>8, <2>1
<1> DEFINE E == {n \in Nat : Fib[n] \in Nat /\ Fib[n + 1] \in Nat}
<1>11. E = Nat
  <2>1. 0 \in E
    BY <1>9
  <2>2. ASSUME NEW n \in E PROVE n + 1 \in E
    <3>1. n \in Nat /\ n + 1 \in Nat /\ (n + 1) + 1 = n + 2
          /\ Fib[n] \in Nat /\ Fib[n + 1] \in Nat
      OBVIOUS
    <3>2. Fib[n + 2] = Fib[n + 1] + Fib[n]
      BY <1>10, <3>1
    <3> QED BY <3>1, <3>2
  <2> HIDE DEF E
  <2> QED BY <2>1, <2>2, SetInduction DEF E
<1>12. Fib \in [Nat -> Nat]
  BY <1>8, <1>11
<1> QED BY <1>9, <1>10, <1>12

(* So does that of the loop's pair. *)
LEMMA FibPairIs ==
  /\ FibPair[0] = <<0, 1>>
  /\ \A n \in Nat : FibPair[n + 1] = FibStep(FibPair[n])
<1> DEFINE step == [p \in Nat \X Nat |-> FibStep(p)]
<1>1. step \in [Nat \X Nat -> Nat \X Nat] /\ <<0, 1>> \in Nat \X Nat
  BY DEF FibStep
<1>2. PICK g : Iterates(g, Nat \X Nat, <<0, 1>>, step)
  <2> HIDE DEF step
  <2> QED BY <1>1, Iterated
<1>3. g = [n \in Nat |-> IF n = 0 THEN <<0, 1>> ELSE FibStep(g[n - 1])]
  <2>1. ASSUME NEW n \in Nat, n # 0 PROVE step[g[n - 1]] = FibStep(g[n - 1])
    <3>1. n - 1 \in Nat /\ g \in [Nat -> Nat \X Nat]
      BY <1>2, <2>1 DEF Iterates
    <3> QED BY <3>1
  <2> HIDE DEF step
  <2> QED BY <1>2, <2>1 DEF Iterates
<1>4. FibPair = [n \in Nat |-> IF n = 0 THEN <<0, 1>> ELSE FibStep(FibPair[n - 1])]
  BY <1>3 DEF FibPair
<1>5. ASSUME NEW n \in Nat PROVE FibPair[n + 1] = FibStep(FibPair[n])
  <2>1. n + 1 \in Nat /\ n + 1 # 0 /\ (n + 1) - 1 = n
    OBVIOUS
  <2> QED BY <1>4, <2>1
<1> QED BY <1>4, <1>5

(* The loop of fibBackoffMs computes the Fibonacci numbers, up to its cap. *)
LEMMA LoopIsFibonacci ==
  \A n \in Nat : \/ FibPair[n] = <<Fib[n], Fib[n + 1]>>
                 \/ FibPair[n][2] \in Nat /\ FibPair[n][2] >= 30 /\ Fib[n + 1] >= 30
<1> DEFINE Same(n) == FibPair[n] = <<Fib[n], Fib[n + 1]>>
           Over(n) == FibPair[n][2] \in Nat /\ FibPair[n][2] >= 30 /\ Fib[n + 1] >= 30
           E == {n \in Nat : Same(n) \/ Over(n)}
<1>1. 0 \in E
  <2>1. FibPair[0] = <<Fib[0], Fib[0 + 1]>>
    BY FibPairIs, FibIs
  <2> QED BY <2>1
<1>2. ASSUME NEW n \in E PROVE n + 1 \in E
  <2>1. /\ FibPair[n + 1] = FibStep(FibPair[n])
        /\ Fib[n + 2] = Fib[n + 1] + Fib[n]
        /\ Fib[n] \in Nat /\ Fib[n + 1] \in Nat /\ (n + 1) + 1 = n + 2 /\ n + 1 \in Nat
    <3>1. n \in Nat /\ n + 1 \in Nat /\ (n + 1) + 1 = n + 2
      OBVIOUS
    <3>2. Fib[n + 2] = Fib[n + 1] + Fib[n] /\ Fib[n] \in Nat /\ Fib[n + 1] \in Nat
      BY <3>1, FibIs
    <3> QED BY <3>1, <3>2, FibPairIs
  <2>2. CASE Same(n) /\ Fib[n + 1] < 30
    <3>1. FibPair[n + 1] = <<Fib[n + 1], Fib[n] + Fib[n + 1]>>
      BY <2>1, <2>2 DEF FibStep
    <3>2. Same(n + 1)
      BY <2>1, <3>1
    <3> QED BY <2>1, <3>2
  <2>3. CASE Same(n) /\ Fib[n + 1] >= 30
    <3>1. FibPair[n + 1] = <<Fib[n], Fib[n + 1]>>
      BY <2>1, <2>3 DEF FibStep
    <3>2. FibPair[n + 1][2] = Fib[n + 1] /\ Fib[n + 2] >= 30
      BY <2>1, <2>3, <3>1
    <3>3. Over(n + 1)
      BY <2>1, <2>3, <3>2
    <3> QED BY <2>1, <3>3
  <2>4. CASE Over(n)
    <3>1. FibPair[n + 1] = FibPair[n]
      BY <2>1, <2>4 DEF FibStep
    <3>2. Fib[n + 2] >= 30
      BY <2>1, <2>4
    <3>3. Over(n + 1)
      BY <2>1, <2>4, <3>1, <3>2
    <3> QED BY <2>1, <3>3
  <2> QED BY <2>1, <2>2, <2>3, <2>4
<1>3. E = Nat
  <2> HIDE DEF E
  <2> QED BY <1>1, <1>2, SetInduction DEF E
<1> QED BY <1>3

(* fibBackoffMs is the Fibonacci number of the attempt, or 30 s, *)
LEMMA CapacityHold ==
  ASSUME NEW n \in Nat, n > 0
  PROVE  FibBackoff(n) = Least({30, Fib[n]})
<1>1. Most({1, n}) = n
  <2>1. {1, n} \in SUBSET (0..n) /\ {1, n} # {}
    OBVIOUS
  <2>2. Most({1, n}) \in {1, n} /\ \A y \in {1, n} : Most({1, n}) >= y
    BY <2>1, MostIs
  <2> QED BY <2>2
<1>2. n - 1 \in Nat /\ (n - 1) + 1 = n /\ Fib[n] \in Nat
  <2>1. n \in Nat /\ n - 1 \in Nat /\ (n - 1) + 1 = n
    OBVIOUS
  <2> QED BY <2>1, FibIs
<1>3. CASE FibPair[n - 1] = <<Fib[n - 1], Fib[n]>>
  <2>1. FibPair[n - 1][2] = Fib[n]
    BY <1>3
  <2> QED BY <1>1, <2>1 DEF FibBackoff
<1>4. CASE FibPair[n - 1][2] \in Nat /\ FibPair[n - 1][2] >= 30 /\ Fib[n] >= 30
  <2>1. Least({30, FibPair[n - 1][2]}) = 30
    BY <1>4, LeastOfTwo
  <2>2. Least({30, Fib[n]}) = 30
    BY <1>2, <1>4, LeastOfTwo
  <2> QED BY <1>1, <2>1, <2>2 DEF FibBackoff
<1> QED BY <1>2, <1>3, <1>4, LoopIsFibonacci

(* which is reached at the ninth. *)
LEMMA HoldAtCap ==
  ASSUME NEW n \in Nat, n >= 9
  PROVE  Least({30, Fib[n]}) = 30
<1> DEFINE E == {m \in Nat : Fib[m + 9] >= 30}
<1>1. 0 \in E
  <2>1. Fib[2] = 1 /\ Fib[3] = 2 /\ Fib[4] = 3 /\ Fib[5] = 5
    BY FibIs
  <2>2. Fib[6] = 8 /\ Fib[7] = 13 /\ Fib[8] = 21 /\ Fib[9] = 34
    BY <2>1, FibIs
  <2> QED BY <2>2
<1>2. ASSUME NEW m \in E PROVE m + 1 \in E
  <2>1. m + 8 \in Nat /\ (m + 8) + 1 = m + 9 /\ (m + 8) + 2 = (m + 1) + 9 /\ m + 9 \in Nat
    OBVIOUS
  <2>2. Fib[(m + 1) + 9] = Fib[m + 9] + Fib[m + 8] /\ Fib[m + 8] \in Nat /\ Fib[m + 9] \in Nat
    BY <2>1, FibIs
  <2> QED BY <2>2
<1>3. E = Nat
  <2> HIDE DEF E
  <2> QED BY <1>1, <1>2, SetInduction DEF E
<1>4. n - 9 \in Nat /\ (n - 9) + 9 = n
  OBVIOUS
<1>5. Fib[n] >= 30 /\ Fib[n] \in Nat
  BY <1>3, <1>4, FibIs
<1> QED BY <1>5, LeastOfTwo

-----------------------------------------------------------------------------
(* The ranges of the columns and of the history. *)
RetryTypes ==
  /\ waiting \subseteq Row
  /\ attempts \in [Row -> 0..Tries] /\ capacity \in [Row -> 0..Tries]
  /\ failures \in [Row -> 0..Tries] /\ inARow \in [Row -> 0..Tries]

(* The columns of a row that waits are its history. *)
Counted == \A r \in waiting : failures[r] = attempts[r] /\ inARow[r] = capacity[r]

(* The inductive invariant. *)
RetryInv ==
  /\ RetryTypes /\ Counted
  /\ CapacityHoldIsFibonacci /\ FailedRowsExhausted /\ BackoffCoversEveryRow

(* The ranges of the constants. *)
LEMMA PolicyRanges == Cap \in Nat /\ Tries \in Nat /\ Tries > Cap /\ Tries >= 9
  BY PolicyAssumption

(* Counting, and starting anew. *)
LEMMA Bumped ==
  ASSUME NEW g \in [Row -> 0..Tries], NEW S \in SUBSET Row
  PROVE  /\ Bump(g, S) \in [Row -> 0..Tries]
         /\ Zero(g, S) \in [Row -> 0..Tries]
         /\ \A r \in Row : r \notin S => Bump(g, S)[r] = g[r] /\ Zero(g, S)[r] = g[r]
         /\ \A r \in S : /\ Bump(g, S)[r] = IF g[r] < Tries THEN g[r] + 1 ELSE g[r]
                         /\ Zero(g, S)[r] = 0
  BY PolicyRanges DEF Bump, Zero

(* What nextQueueAction says, by what it is asked. *)
LEMMA Decision ==
  ASSUME NEW exit \in Exit, NEW limited \in BOOLEAN, NEW tries, NEW counts,
         NEW d, d = NextQueueAction(exit, limited, tries, counts)
  PROVE  /\ d.action = "fail" /\ exit = "error" => ~limited /\ Least(tries) + 1 > Cap
         /\ d.action = "defer" /\ limited => d.after = FibBackoff(Most(counts) + 1)
         /\ d.action = "defer" /\ ~limited =>
              exit = "error" /\ d.after = FailureBackoff(Most(tries))
<1>1. CASE exit = "budget"
  BY <1>1, Zenon DEF NextQueueAction, Outcome
<1>2. CASE exit # "budget" /\ limited
  BY <1>2, Zenon DEF NextQueueAction, Outcome
<1>3. CASE exit = "ok" /\ ~limited
  BY <1>3, Zenon DEF NextQueueAction, Outcome
<1>4. CASE exit = "error" /\ ~limited
  BY <1>4, Zenon DEF NextQueueAction, Outcome, CapAttempts, PriorAttempts
<1> QED BY <1>1, <1>2, <1>3, <1>4 DEF Exit

(* The counters of a batch: not empty, and in range. *)
LEMMA Counts ==
  ASSUME NEW g \in [Row -> 0..Tries], NEW S \in SUBSET Row, S # {}
  PROVE  /\ {g[r] : r \in S} \in SUBSET (0..Tries)
         /\ {g[r] : r \in S} \in SUBSET Nat
         /\ {g[r] : r \in S} # {}
         /\ \E r \in S : Most({g[q] : q \in S}) = g[r]
         /\ \A r \in S : Most({g[q] : q \in S}) >= g[r]
         /\ \A r \in S : Least({g[q] : q \in S}) <= g[r]
         /\ Least({g[q] : q \in S}) \in Nat
<1> DEFINE T == {g[r] : r \in S}
<1>1. T \in SUBSET (0..Tries) /\ T \in SUBSET Nat /\ T # {}
  BY PolicyRanges
<1>2. Most(T) \in T /\ \A y \in T : Most(T) >= y
  BY <1>1, MostIs, PolicyRanges
<1>3. Least(T) \in T /\ \A y \in T : Least(T) <= y
  BY <1>1, LeastIs
<1> QED BY <1>1, <1>2, <1>3

(* The invariant holds at first, *)
LEMMA RetryInitial == RetryInit => RetryInv
  BY PolicyRanges DEF RetryInit, RetryInv, RetryTypes, Counted, Outcome, CapacityHoldIsFibonacci,
     FailedRowsExhausted, BackoffCoversEveryRow

(* A batch keeps the columns in step with the history. *)
LEMMA BatchCounts ==
  ASSUME RetryInv, NEW S \in (SUBSET waiting) \ {{}}, NEW exit \in Exit, NEW limited \in BOOLEAN,
         RunBatch(S, exit, limited)
  PROVE  RetryTypes' /\ Counted'
<1> DEFINE d == NextQueueAction(exit, limited, {attempts[r] : r \in S}, {capacity[r] : r \in S})
<1>0. S \in SUBSET Row /\ RetryTypes /\ Counted
  BY DEF RetryInv, RetryTypes
<1>1. /\ IF d.action = "defer" THEN Defer(S, ~limited) /\ UNCHANGED waiting
         ELSE waiting' = waiting \ S /\ UNCHANGED <<attempts, capacity>>
      /\ failures' = IF exit = "error" /\ ~limited THEN Bump(failures, S) ELSE failures
      /\ inARow' = IF limited THEN Bump(inARow, S) ELSE Zero(inARow, S)
  BY DEF RunBatch
<1>2. d.action = "defer" /\ ~limited => exit = "error"
  BY Decision
<1> HIDE DEF d
<1>3. RetryTypes'
  BY <1>0, <1>1, Bumped DEF RetryTypes, Defer
<1>4. CASE d.action # "defer"
  <2>1. waiting' = waiting \ S /\ UNCHANGED <<attempts, capacity>>
    BY <1>1, <1>4
  <2>2. ASSUME NEW r \in waiting' PROVE failures'[r] = failures[r] /\ inARow'[r] = inARow[r]
    BY <1>0, <1>1, <2>1, Bumped DEF RetryTypes
  <2> QED BY <1>0, <1>3, <2>1, <2>2 DEF Counted
<1>5. CASE d.action = "defer" /\ limited
  <2>1. /\ waiting' = waiting /\ attempts' = attempts /\ failures' = failures
        /\ capacity' = Bump(capacity, S) /\ inARow' = Bump(inARow, S)
    BY <1>1, <1>5 DEF Defer
  <2> QED BY <1>0, <1>3, <2>1 DEF Counted, Bump, RetryTypes
<1>6. CASE d.action = "defer" /\ ~limited
  <2>1. /\ waiting' = waiting /\ attempts' = Bump(attempts, S) /\ failures' = Bump(failures, S)
        /\ capacity' = Zero(capacity, S) /\ inARow' = Zero(inARow, S)
    BY <1>1, <1>2, <1>6 DEF Defer
  <2> QED BY <1>0, <1>3, <2>1 DEF Counted, Bump, Zero, RetryTypes
<1> QED BY <1>3, <1>4, <1>5, <1>6

(* A batch that is given up on, or put off, is so by the history of its rows. *)
LEMMA BatchDecided ==
  ASSUME RetryInv, NEW S \in (SUBSET waiting) \ {{}}, NEW exit \in Exit, NEW limited \in BOOLEAN,
         RunBatch(S, exit, limited)
  PROVE  CapacityHoldIsFibonacci' /\ FailedRowsExhausted' /\ BackoffCoversEveryRow'
<1> DEFINE tries == {attempts[r] : r \in S}
           counts == {capacity[r] : r \in S}
           d == NextQueueAction(exit, limited, tries, counts)
<1>0. S \in SUBSET Row /\ S # {} /\ RetryTypes /\ Counted
  BY DEF RetryInv, RetryTypes
<1>1. /\ last' = [batch |-> S, exit |-> exit, limited |-> limited, outcome |-> d]
      /\ failures' = IF exit = "error" /\ ~limited THEN Bump(failures, S) ELSE failures
      /\ inARow' = IF limited THEN Bump(inARow, S) ELSE Zero(inARow, S)
  BY DEF RunBatch
<1>2. /\ d.action = "fail" /\ exit = "error" => ~limited /\ Least(tries) + 1 > Cap
      /\ d.action = "defer" /\ limited => d.after = FibBackoff(Most(counts) + 1)
      /\ d.action = "defer" /\ ~limited => exit = "error" /\ d.after = FailureBackoff(Most(tries))
  BY Decision
<1>3. /\ \A r \in S : Most(tries) >= attempts[r]
      /\ \A r \in S : Least(tries) <= attempts[r]
      /\ Least(tries) \in Nat
      /\ \E r \in S : Most(tries) = attempts[r]
  BY <1>0, Counts DEF RetryTypes
<1>4. /\ \E r \in S : Most(counts) = capacity[r]
      /\ \A r \in S : Most(counts) >= capacity[r]
  BY <1>0, Counts DEF RetryTypes
<1>5. \A r \in S : /\ attempts[r] = failures[r] /\ capacity[r] = inARow[r]
                   /\ attempts[r] \in 0..Tries /\ capacity[r] \in 0..Tries
                   /\ r \in Row
  BY <1>0 DEF Counted, RetryTypes
<1> HIDE DEF tries, counts, d
<1>6. FailedRowsExhausted'
  <2> SUFFICES ASSUME d.action = "fail", exit = "error", NEW r \in S
               PROVE  failures'[r] > Cap
    BY <1>1 DEF FailedRowsExhausted
  <2>1. failures' = Bump(failures, S) /\ Least(tries) + 1 > Cap
    BY <1>1, <1>2
  <2>2. failures'[r] = IF failures[r] < Tries THEN failures[r] + 1 ELSE failures[r]
    BY <1>0, <2>1, Bumped DEF RetryTypes
  <2>3. failures[r] + 1 > Cap /\ failures[r] \in 0..Tries
    BY <1>3, <1>5, <2>1, PolicyRanges
  <2> QED BY <2>2, <2>3, PolicyRanges
<1>7. BackoffCoversEveryRow'
  <2> SUFFICES ASSUME d.action = "defer", ~limited, NEW r \in S
               PROVE  d.after >= FailureBackoff(failures'[r] - 1)
    BY <1>1 DEF BackoffCoversEveryRow
  <2>1. failures' = Bump(failures, S) /\ d.after = FailureBackoff(Most(tries))
    BY <1>1, <1>2
  <2>2. failures'[r] = IF failures[r] < Tries THEN failures[r] + 1 ELSE failures[r]
    BY <1>0, <2>1, Bumped DEF RetryTypes
  <2>3. Most(tries) \in Nat /\ failures[r] \in 0..Tries /\ failures[r] <= Most(tries)
    BY <1>3, <1>5, PolicyRanges
  <2>4. failures'[r] - 1 \in Nat /\ failures'[r] - 1 <= Most(tries)
    BY <2>2, <2>3, PolicyRanges
  <2> DEFINE m == failures'[r] - 1
  <2>5. Doubled[m] <= Doubled[Most(tries)] /\ Doubled[m] \in Nat /\ Doubled[Most(tries)] \in Nat
    BY <2>3, <2>4, DoubledGrows, DoubledIs
  <2>6. FailureBackoff(Most(tries)) >= FailureBackoff(m)
    <3> HIDE DEF m
    <3>1. Least({Doubled[m], 1800}) = IF Doubled[m] <= 1800 THEN Doubled[m] ELSE 1800
      BY <2>5, LeastOfTwo
    <3>2. Least({Doubled[Most(tries)], 1800})
            = IF Doubled[Most(tries)] <= 1800 THEN Doubled[Most(tries)] ELSE 1800
      BY <2>5, LeastOfTwo
    <3> QED BY <2>5, <3>1, <3>2 DEF FailureBackoff
  <2> QED BY <2>1, <2>6
<1>8. CapacityHoldIsFibonacci'
  <2> DEFINE series == {inARow'[r] : r \in S}
  <2> SUFFICES ASSUME d.action = "defer", limited
               PROVE  d.after = Least({30, Fib[Most(series)]})
    BY <1>1 DEF CapacityHoldIsFibonacci
  <2>1. inARow' = Bump(inARow, S) /\ d.after = FibBackoff(Most(counts) + 1)
    BY <1>1, <1>2
  <2>2. \A r \in S : inARow'[r] = IF capacity[r] < Tries THEN capacity[r] + 1 ELSE capacity[r]
    BY <1>0, <1>5, <2>1, Bumped DEF RetryTypes
  <2>3. /\ \E r \in S : Most(series) = inARow'[r]
        /\ \A r \in S : Most(series) >= inARow'[r]
    <3>1. inARow' \in [Row -> 0..Tries]
      BY <1>0, <2>1, Bumped DEF RetryTypes
    <3> QED BY <1>0, <3>1, Counts
  <2> HIDE DEF series
  <2>4. Most(counts) \in 0..Tries
    BY <1>4, <1>5
  <2>5. CASE Most(counts) < Tries
    <3>1. Most(series) = Most(counts) + 1
      <4>1. PICK q \in S : Most(counts) = capacity[q]
        BY <1>4
      <4>2. inARow'[q] = Most(counts) + 1 /\ Most(series) >= Most(counts) + 1
        BY <1>5, <2>2, <2>3, <2>5, <4>1
      <4>3. PICK r \in S : Most(series) = inARow'[r]
        BY <2>3
      <4>4. capacity[r] <= Most(counts) /\ capacity[r] \in 0..Tries
        BY <1>4, <1>5
      <4>5. inARow'[r] <= Most(counts) + 1
        BY <2>2, <2>4, <2>5, <4>4, PolicyRanges
      <4> QED BY <2>2, <2>4, <4>2, <4>3, <4>4, <4>5, PolicyRanges
    <3> QED BY <2>1, <2>4, <3>1, CapacityHold
  <2>6. CASE Most(counts) = Tries
    <3>1. Most(series) = Tries
      <4>1. PICK q \in S : capacity[q] = Tries
        BY <1>4, <2>6
      <4>2. inARow'[q] = Tries /\ Most(series) >= Tries
        BY <2>2, <2>3, <4>1, PolicyRanges
      <4>3. PICK r \in S : Most(series) = inARow'[r]
        BY <2>3
      <4>4. inARow'[r] \in 0..Tries
        BY <1>5, <2>2, PolicyRanges
      <4> QED BY <4>2, <4>3, <4>4, PolicyRanges
    <3>2. Least({30, Fib[Tries]}) = 30 /\ Least({30, Fib[Tries + 1]}) = 30
      BY HoldAtCap, PolicyRanges
    <3>3. FibBackoff(Tries + 1) = Least({30, Fib[Tries + 1]})
      BY CapacityHold, PolicyRanges
    <3> QED BY <2>1, <2>6, <3>1, <3>2, <3>3
  <2> QED BY <2>4, <2>5, <2>6, PolicyRanges
<1> QED BY <1>6, <1>7, <1>8

(* every batch keeps it, *)
LEMMA RetryStep == RetryInv /\ [RetryNext]_retryVars => RetryInv'
<1> SUFFICES ASSUME RetryInv, [RetryNext]_retryVars PROVE RetryInv'
  OBVIOUS
<1>1. CASE RetryNext
  <2>1. PICK S \in (SUBSET waiting) \ {{}}, exit \in Exit, limited \in BOOLEAN :
          RunBatch(S, exit, limited)
    BY <1>1 DEF RetryNext
  <2> QED BY <2>1, BatchCounts, BatchDecided DEF RetryInv
<1>2. CASE UNCHANGED retryVars
  BY <1>2 DEF retryVars, RetryInv, RetryTypes, Counted, CapacityHoldIsFibonacci,
     FailedRowsExhausted, BackoffCoversEveryRow
<1> QED BY <1>1, <1>2

(* and so it always holds. *)
LEMMA RetryAlways == RetrySpec => []RetryInv
  BY RetryInitial, RetryStep, PTL DEF RetrySpec

(* Whatever rows batches are put together from: a batch is given up on for *)
(* failing only when every row of it took part in more than Cap failed     *)
(* runs (nextQueueAction with the least tried row's count).                *)
THEOREM RowsExhausted == RetrySpec => []FailedRowsExhausted
<1>1. RetryInv => FailedRowsExhausted
  BY DEF RetryInv
<1> QED BY <1>1, RetryAlways, PTL

(* After a failed run no row comes back sooner than its own failures call  *)
(* for (nextQueueAction with the most tried row's count).                  *)
THEOREM BackoffCovers == RetrySpec => []BackoffCoversEveryRow
<1>1. RetryInv => BackoffCoversEveryRow
  BY DEF RetryInv
<1> QED BY <1>1, RetryAlways, PTL

(* A capacity hold lasts the Fibonacci number of the longest unbroken      *)
(* series of limited runs in the batch, and at most 30 s: what the columns *)
(* of defer and the loop of fibBackoffMs come to.                          *)
THEOREM HoldIsFibonacci == RetrySpec => []CapacityHoldIsFibonacci
<1>1. RetryInv => CapacityHoldIsFibonacci
  BY DEF RetryInv
<1> QED BY <1>1, RetryAlways, PTL

-----------------------------------------------------------------------------
(***************************************************************************)
(* The threads the pool starts: HookScheduling.                            *)
(***************************************************************************)

(* The lanes, and what a drain can select. *)
Lane == {"no", "plain", "fresh", "backlog"}
Choices == [Thread -> Lane]

(* The values the variables take. *)
PoolTypes ==
  /\ due \in [Thread -> 0..Places]
  /\ active \in Choices
  /\ classes \in BOOLEAN

(* No two threads have the same place. *)
Apart == \A t, u \in Thread : due[t] > 0 /\ due[t] = due[u] => t = u

(* Without classes neither kind has more than its lane. *)
LanesKept ==
  ~classes => /\ Cardinality(In(active, Reviews)) <= LaneLimit
              /\ Cardinality(In(active, Thread \ Reviews)) <= LaneLimit

(* The inductive invariant: the ceiling needs the types only, the lanes    *)
(* that each kind was within its own before, and the order that no two     *)
(* threads are due at the same place.                                      *)
PoolInv == PoolTypes /\ Apart /\ CeilingKept /\ LanesKept

(* The ranges of the constants. *)
LEMMA PoolRanges ==
  /\ Rank \in [Thread -> 0..2] /\ Reviews \subseteq Thread /\ Updated \in [Thread -> Nat]
  /\ Limit \in Nat /\ Limit > 0 /\ Reserve \in BOOLEAN /\ Places \in Nat /\ Places > 0
  /\ IsFiniteSet(Thread)
  BY SchedulingAssumption

(* A lane of a pool with more than one worker leaves a slot. *)
LEMMA LaneLimitIs ==
  LaneLimit \in Nat /\ LaneLimit > 0 /\ (Reserve /\ Limit > 1 => LaneLimit = Limit - 1)
  BY PoolRanges DEF LaneLimit

(* Whatever of the threads is in flight or selected can be counted. *)
LEMMA Countable ==
  ASSUME NEW lanes, NEW S \in SUBSET Thread
  PROVE  IsFiniteSet(In(lanes, S)) /\ Cardinality(In(lanes, S)) \in Nat
<1>1. In(lanes, S) \in SUBSET Thread
  BY DEF In
<1>2. IsFiniteSet(In(lanes, S))
  BY <1>1, PoolRanges, FS_Subset
<1> QED BY <1>2, FS_CardinalityType

(* Nothing is selected at first. *)
LEMMA NonePicked ==
  ASSUME NEW S \in SUBSET Thread
  PROVE  In(Picked, S) = {} /\ Cardinality(In(Picked, S)) = 0 /\ Picked \in Choices
<1>1. In(Picked, S) = {}
  BY DEF In, Picked
<1> QED BY <1>1, FS_EmptySet DEF Picked, Choices, Lane

(* One more thread is selected. *)
Adds(after, picks, v) ==
  /\ after \in Choices /\ picks \in Choices /\ v \in Thread
  /\ picks[v] = "no" /\ after[v] # "no"
  /\ \A t \in Thread : t # v => after[t] = picks[t]

(* So does a selection by EXCEPT. *)
LEMMA Added ==
  ASSUME NEW picks \in Choices, NEW v \in Thread, picks[v] = "no", NEW lane \in Lane \ {"no"}
  PROVE  Adds([picks EXCEPT ![v] = lane], picks, v)
  BY DEF Adds, Choices

(* Then that many are selected. *)
LEMMA OneMore ==
  ASSUME NEW after, NEW picks, NEW v, Adds(after, picks, v), NEW S \in SUBSET Thread
  PROVE  Cardinality(In(after, S)) = IF v \in S THEN Cardinality(In(picks, S)) + 1
                                                ELSE Cardinality(In(picks, S))
<1>1. CASE v \in S
  <2>1. In(after, S) = In(picks, S) \cup {v} /\ v \notin In(picks, S)
    BY <1>1 DEF In, Adds
  <2>2. IsFiniteSet(In(picks, S))
    BY Countable
  <2>3. Cardinality(In(picks, S) \cup {v}) = Cardinality(In(picks, S)) + 1
    BY <2>1, <2>2, FS_AddElement
  <2> QED BY <1>1, <2>1, <2>3
<1>2. CASE v \notin S
  <2>1. In(after, S) = In(picks, S)
    BY <1>2 DEF In, Adds
  <2> QED BY <1>2, <2>1
<1> QED BY <1>1, <1>2

(* Both kinds together are all that is busy. *)
LEMMA Kinds ==
  ASSUME NEW lanes
  PROVE  Cardinality(Busy(lanes)) =
           Cardinality(In(lanes, Reviews)) + Cardinality(In(lanes, Thread \ Reviews))
<1> DEFINE A == In(lanes, Reviews)
           B == In(lanes, Thread \ Reviews)
<1>1. Busy(lanes) = A \cup B /\ A \cap B = {}
  BY PoolRanges DEF Busy, In
<1>2. IsFiniteSet(A) /\ IsFiniteSet(B) /\ Cardinality(A) \in Nat /\ Cardinality(B) \in Nat
  BY PoolRanges, Countable
<1> HIDE DEF A, B
<1>3. Cardinality(A \cup B) = Cardinality(A) + Cardinality(B) - Cardinality(A \cap B)
  BY <1>2, FS_Union
<1>4. Cardinality(A \cap B) = 0
  BY <1>1, FS_EmptySet
<1>5. Cardinality(Busy(lanes)) = Cardinality(A) + Cardinality(B)
  BY <1>1, <1>2, <1>3, <1>4
<1> QED BY <1>5 DEF A, B

-----------------------------------------------------------------------------
(* The review that is started first is one of the candidates. *)
LEMMA Newest ==
  ASSUME NEW C \in SUBSET Thread, C # {}, PoolTypes
  PROVE  \E t \in C : \A u \in C : \/ Updated[t] > Updated[u]
                                   \/ Updated[t] = Updated[u] /\ due[t] <= due[u]
<1> DEFINE Ahead(u, t) == \/ Updated[u] > Updated[t]
                          \/ Updated[u] = Updated[t] /\ due[u] < due[t]
           Of(t) == {u \in C : Ahead(u, t)}
           N == {Cardinality(Of(t)) : t \in C}
<1>1. \A t \in C : Updated[t] \in Nat /\ due[t] \in Nat
  BY PoolRanges DEF PoolTypes
<1>2. ASSUME NEW t \in C PROVE IsFiniteSet(Of(t)) /\ Cardinality(Of(t)) \in Nat
  <2>1. Of(t) \in SUBSET Thread
    OBVIOUS
  <2> HIDE DEF Of
  <2>2. IsFiniteSet(Of(t))
    BY <2>1, PoolRanges, FS_Subset
  <2> QED BY <2>2, FS_CardinalityType
<1>3. PICK t \in C : \A u \in C : Cardinality(Of(t)) <= Cardinality(Of(u))
  <2> HIDE DEF Of
  <2>1. N \in SUBSET Nat /\ N # {}
    BY <1>2
  <2>2. PICK x \in N : \A y \in N : x <= y
    <3> HIDE DEF N
    <3> QED BY <2>1, LeastElement
  <2> QED BY <2>2
<1>4. ASSUME NEW u \in C, Ahead(u, t) PROVE FALSE
  <2>1. Of(u) \subseteq Of(t)
    BY <1>1, <1>4
  <2>2. u \in Of(t) /\ u \notin Of(u)
    BY <1>1, <1>4
  <2> HIDE DEF Of
  <2>3. Cardinality(Of(u)) <= Cardinality(Of(t)) /\ Cardinality(Of(u)) # Cardinality(Of(t))
    BY <1>2, <2>1, <2>2, FS_Subset
  <2> QED BY <1>2, <1>3, <2>3
<1>5. ASSUME NEW u \in C
      PROVE  \/ Updated[t] > Updated[u]
             \/ Updated[t] = Updated[u] /\ due[t] <= due[u]
  <2>1. ~Ahead(u, t)
    BY <1>4
  <2> QED BY <1>1, <2>1
<1> QED BY <1>5

(* What is selected before the first turn: nothing, or a review that its   *)
(* lane and the ceiling have room for.                                     *)
LEMMA FreshPicked ==
  ASSUME PoolTypes
  PROVE  \/ FreshPick = Picked
         \/ \E v \in Ready \cap Reviews :
              /\ active[v] = "no" /\ FreshPick = [Picked EXCEPT ![v] = "fresh"]
              /\ InLane(Picked, Reviews) < LaneLimit /\ Room(Picked)
<1> DEFINE C == {t \in Ready \cap Reviews : active[t] = "no"}
           best == CHOOSE t \in C : \A u \in C :
                     \/ Updated[t] > Updated[u]
                     \/ Updated[t] = Updated[u] /\ due[t] <= due[u]
<1>1. C \in SUBSET Thread
  BY DEF Ready
<1>2. CASE C # {}
  <2>1. best \in C
    <3> HIDE DEF C
    <3> QED BY <1>1, <1>2, Newest
  <2> HIDE DEF best
  <2>2. FreshPick = IF /\ Reserve /\ Limit >= 3 /\ C # {}
                       /\ InLane(Picked, Reviews) < LaneLimit /\ Room(Picked)
                       /\ \A t \in Thread : active[t] # "fresh"
                    THEN [Picked EXCEPT ![best] = "fresh"] ELSE Picked
    BY DEF FreshPick, best
  <2> QED BY <2>1, <2>2
<1>3. CASE C = {}
  BY <1>3 DEF FreshPick
<1> QED BY <1>2, <1>3

-----------------------------------------------------------------------------
(* What is selected after one more turn. *)
After(turns, picks) ==
  [t \in Thread |-> IF t \in Ready /\ Turn(t) = turns /\ Takes(picks, t)
                    THEN LaneOf(t) ELSE picks[t]]

(* What the loop starts from. *)
First == IF classes THEN Picked ELSE FreshPick

(* The loop goes on from turn to turn. *)
LEMMA Loop ==
  ASSUME PoolTypes
  PROVE  Selected[0] = First /\ \A n \in Nat : Selected[n + 1] = After(n + 1, Selected[n])
<1> DEFINE step == [p \in Nat \X Choices |-> <<p[1] + 1, After(p[1] + 1, p[2])>>]
<1>1. First \in Choices
  <2>1. Picked \in Choices
    BY NonePicked
  <2>2. FreshPick \in Choices
    BY <2>1, FreshPicked DEF Choices, Lane
  <2> QED BY <2>1, <2>2 DEF First
<1>2. ASSUME NEW n \in Nat, NEW picks \in Choices PROVE After(n + 1, picks) \in Choices
  BY DEF After, Choices, LaneOf, Lane
<1>3. step \in [Nat \X Choices -> Nat \X Choices]
  BY <1>2
<1>4. PICK h : Iterates(h, Nat \X Choices, <<0, First>>, step)
  <2> HIDE DEF step
  <2>1. <<0, First>> \in Nat \X Choices
    BY <1>1
  <2> QED BY <1>3, <2>1, Iterated
<1>5. h[0] = <<0, First>> /\ h \in [Nat -> Nat \X Choices]
  BY <1>4 DEF Iterates
<1>6. ASSUME NEW n \in Nat PROVE h[n + 1] = <<h[n][1] + 1, After(h[n][1] + 1, h[n][2])>>
  <2>1. n + 1 \in Nat /\ n + 1 # 0 /\ (n + 1) - 1 = n /\ h[n] \in Nat \X Choices
    BY <1>5
  <2>2. h[n + 1] = step[h[n]]
    <3> HIDE DEF step
    <3> QED BY <1>4, <2>1 DEF Iterates
  <2> QED BY <2>1, <2>2
<1> DEFINE E == {n \in Nat : h[n][1] = n}
<1>7. E = Nat
  <2>1. 0 \in E
    BY <1>5
  <2>2. ASSUME NEW n \in E PROVE n + 1 \in E
    BY <1>6
  <2> HIDE DEF E
  <2> QED BY <2>1, <2>2, SetInduction DEF E
<1> DEFINE g == [n \in Nat |-> h[n][2]]
<1>8. ASSUME NEW n \in Nat PROVE g[n] = IF n = 0 THEN First ELSE After(n, g[n - 1])
  <2>1. CASE n = 0
    BY <1>5, <2>1
  <2>2. CASE n # 0
    <3>1. n - 1 \in Nat /\ (n - 1) + 1 = n
      BY <2>2
    <3>2. h[n - 1][1] = n - 1
      BY <1>7, <3>1
    <3>3. h[n] = <<n, After(n, h[n - 1][2])>>
      BY <1>6, <3>1, <3>2
    <3>4. h[n][2] = After(n, h[n - 1][2])
      BY <3>3
    <3> QED BY <2>2, <3>1, <3>4
  <2> HIDE DEF g
  <2> QED BY <2>1, <2>2
<1>9. g = [n \in Nat |-> IF n = 0 THEN First ELSE After(n, g[n - 1])]
  <2>1. g \in [Nat -> Choices]
    BY <1>5
  <2> DEFINE r == [n \in Nat |-> IF n = 0 THEN First ELSE After(n, g[n - 1])]
  <2> HIDE DEF g
  <2>2. ASSUME NEW n \in Nat PROVE g[n] = r[n]
    BY <1>8
  <2>3. DOMAIN g = Nat /\ g = [n \in Nat |-> g[n]]
    BY <2>1
  <2>4. r = [n \in Nat |-> r[n]]
    OBVIOUS
  <2> HIDE DEF r
  <2>5. g = r
    BY <2>2, <2>3, <2>4
  <2> QED BY <2>5 DEF r
<1>10. \E G : G = [n \in Nat |-> IF n = 0 THEN First ELSE After(n, G[n - 1])]
  <2> HIDE DEF g
  <2> QED BY <1>9
<1>11. Selected = [n \in Nat |-> IF n = 0 THEN First ELSE After(n, Selected[n - 1])]
  BY <1>10 DEF Selected, First, After
<1>12. ASSUME NEW n \in Nat PROVE Selected[n + 1] = After(n + 1, Selected[n])
  <2>1. n + 1 \in Nat /\ n + 1 # 0 /\ (n + 1) - 1 = n
    OBVIOUS
  <2> QED BY <1>11, <2>1
<1> QED BY <1>11, <1>12

(* Turns go by class and then by eligibility, and every thread has its own. *)
LEMMA TurnOrder ==
  ASSUME PoolTypes, Apart, NEW t \in Ready, NEW u \in Ready
  PROVE  /\ Turn(t) \in 1..(3 * Places)
         /\ Turn(t) = Turn(u) => t = u
         /\ classes /\ Turn(t) < Turn(u) => \/ Rank[t] < Rank[u]
                                            \/ Rank[t] = Rank[u] /\ due[t] < due[u]
<1>1. /\ Places \in Nat /\ Rank[t] \in 0..2 /\ Rank[u] \in 0..2
      /\ due[t] \in 1..Places /\ due[u] \in 1..Places
      /\ due[t] = due[u] => t = u
  BY PoolRanges DEF PoolTypes, Ready, Apart
<1>2. CASE ~classes
  BY <1>1, <1>2 DEF Turn
<1>3. CASE classes
  <2>1. Turn(t) = Places * Rank[t] + due[t] /\ Turn(u) = Places * Rank[u] + due[u]
    BY <1>3 DEF Turn
  <2>2. ASSUME NEW r \in 0..2
        PROVE  Places * r = IF r = 0 THEN 0 ELSE IF r = 1 THEN Places ELSE 2 * Places
    BY <1>1
  <2>3. /\ Turn(t) = (IF Rank[t] = 0 THEN 0 ELSE IF Rank[t] = 1 THEN Places ELSE 2 * Places) + due[t]
        /\ Turn(u) = (IF Rank[u] = 0 THEN 0 ELSE IF Rank[u] = 1 THEN Places ELSE 2 * Places) + due[u]
    BY <1>1, <2>1, <2>2
  <2> QED BY <1>1, <1>3, <2>3
<1> QED BY <1>2, <1>3

(* A turn selects nothing, or the one thread whose turn it is. *)
LEMMA TurnTaken ==
  ASSUME PoolTypes, Apart, NEW picks \in Choices, NEW k \in Nat
  PROVE  \/ /\ After(k, picks) = picks
            /\ \A u \in Ready : Turn(u) = k => ~Takes(picks, u)
         \/ \E v \in Ready : /\ Turn(v) = k /\ Takes(picks, v)
                             /\ After(k, picks) = [picks EXCEPT ![v] = LaneOf(v)]
<1>1. CASE \A u \in Ready : Turn(u) = k => ~Takes(picks, u)
  <2>1. After(k, picks) = [t \in Thread |-> picks[t]]
    BY <1>1 DEF After
  <2> QED BY <1>1, <2>1 DEF Choices
<1>2. ASSUME NEW v \in Ready, Turn(v) = k, Takes(picks, v)
      PROVE  After(k, picks) = [picks EXCEPT ![v] = LaneOf(v)]
  <2>1. ASSUME NEW t \in Thread
        PROVE  (t \in Ready /\ Turn(t) = k /\ Takes(picks, t)) <=> t = v
    BY <1>2, TurnOrder
  <2>2. DOMAIN picks = Thread /\ v \in Thread
    BY <1>2 DEF Choices, Ready
  <2>3. After(k, picks) = [t \in Thread |-> IF t = v THEN LaneOf(v) ELSE picks[t]]
    BY <2>1 DEF After
  <2> QED BY <2>2, <2>3
<1> QED BY <1>1, <1>2

(* What the loop has selected after k turns: idle threads, within the      *)
(* ceiling; *)
Fits(picks) ==
  /\ picks \in Choices
  /\ \A t \in Thread : picks[t] # "no" => t \in Waiting
  /\ Cardinality(Busy(active)) + Cardinality(Busy(picks)) <= Limit

(* with classes the first ones by their turns, as long as there was room;  *)
InTurn(k, picks) ==
  /\ \A t \in Thread : picks[t] # "no" => Turn(t) <= k
  /\ \A u \in Waiting : picks[u] = "no" /\ Turn(u) <= k => ~Room(picks)
  /\ \A t \in Thread, u \in Waiting : picks[t] # "no" /\ picks[u] = "no" => Turn(t) < Turn(u)

(* and without them as many of a kind as its lane has room for.            *)
InLanes(k, picks) ==
  /\ InLane(picks, Reviews) <= LaneLimit /\ InLane(picks, Thread \ Reviews) <= LaneLimit
  /\ \A u \in Waiting : picks[u] = "no" /\ Turn(u) <= k => ~Room(picks) \/ ~LaneRoom(picks, u)

SelectedSoFar(k, picks) ==
  Fits(picks) /\ (classes => InTurn(k, picks)) /\ (~classes => InLanes(k, picks))

(* That is so before the first turn, *)
LEMMA LoopStarts == ASSUME PoolInv PROVE SelectedSoFar(0, First)
<1>0. PoolTypes /\ Apart /\ CeilingKept /\ LanesKept /\ PoolTypes
  BY DEF PoolInv
<1>1. ASSUME NEW u \in Waiting PROVE ~(Turn(u) <= 0)
  BY <1>0, <1>1, TurnOrder DEF Waiting
<1>2. /\ Cardinality(Busy(active)) \in Nat /\ Cardinality(Busy(active)) <= Limit
      /\ Cardinality(In(active, Reviews)) \in Nat
      /\ Cardinality(In(active, Thread \ Reviews)) \in Nat
  BY <1>0, Countable, PoolRanges DEF Busy, CeilingKept
<1>3. /\ Picked \in Choices /\ \A t \in Thread : Picked[t] = "no"
      /\ Cardinality(Busy(Picked)) = 0 /\ Cardinality(In(Picked, Reviews)) = 0
      /\ Cardinality(In(Picked, Thread \ Reviews)) = 0
  BY NonePicked, PoolRanges DEF Busy, Picked
<1>4. Fits(Picked)
  BY <1>2, <1>3, PoolRanges DEF Fits
<1>5. CASE classes
  <2>1. First = Picked
    BY <1>5 DEF First
  <2>2. InTurn(0, Picked)
    BY <1>1, <1>3 DEF InTurn
  <2> QED BY <1>4, <1>5, <2>1, <2>2 DEF SelectedSoFar
<1>6. CASE ~classes /\ FreshPick = Picked
  <2>1. InLanes(0, Picked)
    BY <1>0, <1>1, <1>2, <1>3, <1>6 DEF InLanes, InLane, LanesKept
  <2> QED BY <1>4, <1>6, <2>1 DEF SelectedSoFar, First
<1>7. ASSUME ~classes, NEW v \in Ready \cap Reviews, active[v] = "no",
             FreshPick = [Picked EXCEPT ![v] = "fresh"],
             InLane(Picked, Reviews) < LaneLimit, Room(Picked)
      PROVE  SelectedSoFar(0, First)
  <2>1. First = FreshPick /\ v \in Thread /\ "fresh" \in Lane \ {"no"}
    BY <1>7 DEF First, Ready, Lane
  <2>a. Adds(First, Picked, v)
    BY <1>3, <1>7, <2>1, Added
  <2>2. /\ First \in Choices
        /\ Cardinality(Busy(First)) = Cardinality(Busy(Picked)) + 1
        /\ Cardinality(In(First, Reviews)) = Cardinality(In(Picked, Reviews)) + 1
        /\ Cardinality(In(First, Thread \ Reviews)) = Cardinality(In(Picked, Thread \ Reviews))
    <3>1. First \in Choices
      BY <2>a DEF Adds
    <3>2. Cardinality(Busy(First)) = Cardinality(Busy(Picked)) + 1
      BY <2>a, <2>1, OneMore DEF Busy
    <3>3. Cardinality(In(First, Reviews)) = Cardinality(In(Picked, Reviews)) + 1
      BY <1>7, <2>a, OneMore, PoolRanges
    <3>4. v \notin Thread \ Reviews /\ Thread \ Reviews \in SUBSET Thread
      BY <1>7
    <3>5. Cardinality(In(First, Thread \ Reviews)) = Cardinality(In(Picked, Thread \ Reviews))
      BY <2>a, <3>4, OneMore
    <3> QED BY <3>1, <3>2, <3>3, <3>5
  <2>3. \A t \in Thread : First[t] # "no" => t \in Waiting
    BY <1>3, <1>7, <2>1 DEF Waiting, Choices
  <2>4. Fits(First)
    BY <1>2, <1>3, <1>7, <2>2, <2>3, PoolRanges DEF Fits, Room
  <2>5. InLanes(0, First)
    <3>1. InLane(First, Reviews) <= LaneLimit
      BY <1>2, <1>3, <1>7, <2>2, LaneLimitIs DEF InLane
    <3>2. InLane(First, Thread \ Reviews) <= LaneLimit
      BY <1>0, <1>2, <1>3, <1>7, <2>2, LaneLimitIs DEF InLane, LanesKept
    <3> QED BY <1>1, <3>1, <3>2 DEF InLanes
  <2> QED BY <1>7, <2>4, <2>5 DEF SelectedSoFar
<1> QED BY <1>0, <1>5, <1>6, <1>7, FreshPicked DEF First

(* and after each turn. *)
LEMMA LoopGoesOn ==
  ASSUME PoolInv, NEW k \in Nat, NEW picks, SelectedSoFar(k, picks)
  PROVE  SelectedSoFar(k + 1, After(k + 1, picks))
<1> DEFINE next == After(k + 1, picks)
<1>0. PoolTypes /\ Apart /\ picks \in Choices /\ Fits(picks)
  BY DEF PoolInv, SelectedSoFar, Fits
<1>1. ASSUME NEW u \in Waiting PROVE u \in Ready /\ u \in Thread /\ active[u] = "no" /\ Turn(u) \in Nat
  BY <1>0, TurnOrder, PoolRanges DEF Waiting, Ready
<1>2. CASE next = picks /\ \A u \in Ready : Turn(u) = k + 1 => ~Takes(picks, u)
  <2>1. ASSUME NEW u \in Waiting, picks[u] = "no", Turn(u) = k + 1
        PROVE  ~Room(picks) \/ (~classes /\ ~LaneRoom(picks, u))
    BY <1>1, <1>2, <2>1 DEF Takes, Idle
  <2>2. CASE classes
    <3>1. InTurn(k, picks)
      BY <2>2 DEF SelectedSoFar
    <3>2. ASSUME NEW t \in Thread, picks[t] # "no" PROVE Turn(t) <= k + 1
      BY <1>0, <1>1, <3>1, <3>2 DEF InTurn, Fits
    <3>3. ASSUME NEW u \in Waiting, picks[u] = "no", Turn(u) <= k + 1 PROVE ~Room(picks)
      BY <1>1, <2>1, <2>2, <3>1, <3>3 DEF InTurn
    <3>4. InTurn(k + 1, picks)
      BY <3>1, <3>2, <3>3 DEF InTurn
    <3> QED BY <1>0, <1>2, <2>2, <3>4 DEF SelectedSoFar
  <2>3. CASE ~classes
    <3>1. InLanes(k, picks)
      BY <2>3 DEF SelectedSoFar
    <3>2. ASSUME NEW u \in Waiting, picks[u] = "no", Turn(u) <= k + 1
          PROVE  ~Room(picks) \/ ~LaneRoom(picks, u)
      BY <1>1, <2>1, <3>1, <3>2 DEF InLanes
    <3>3. InLanes(k + 1, picks)
      BY <3>1, <3>2 DEF InLanes
    <3> QED BY <1>0, <1>2, <2>3, <3>3 DEF SelectedSoFar
  <2> QED BY <2>2, <2>3
<1>3. ASSUME NEW v \in Ready, Turn(v) = k + 1, Takes(picks, v),
             next = [picks EXCEPT ![v] = LaneOf(v)]
      PROVE  SelectedSoFar(k + 1, next)
  <2> HIDE DEF next
  <2>0. v \in Thread /\ v \in Waiting /\ picks[v] = "no" /\ Room(picks) /\ LaneOf(v) \in Lane \ {"no"}
    BY <1>3 DEF Ready, Waiting, Takes, Idle, LaneOf, Lane
  <2>a. Adds(next, picks, v)
    BY <1>0, <1>3, <2>0, Added
  <2>1. next \in Choices /\ next[v] # "no" /\ \A t \in Thread : t # v => next[t] = picks[t]
    BY <2>a DEF Adds
  <2>2. ASSUME NEW S \in SUBSET Thread
        PROVE  /\ Cardinality(In(next, S)) = IF v \in S THEN Cardinality(In(picks, S)) + 1
                                                        ELSE Cardinality(In(picks, S))
               /\ Cardinality(In(picks, S)) \in Nat /\ Cardinality(In(active, S)) \in Nat
    <3>1. Cardinality(In(picks, S)) \in Nat /\ Cardinality(In(active, S)) \in Nat
      BY Countable
    <3>2. Cardinality(In(next, S)) = IF v \in S THEN Cardinality(In(picks, S)) + 1
                                                ELSE Cardinality(In(picks, S))
      BY <2>a, OneMore
    <3> QED BY <3>1, <3>2
  <2>3. /\ Cardinality(Busy(next)) = Cardinality(Busy(picks)) + 1
        /\ Cardinality(Busy(picks)) \in Nat /\ Cardinality(Busy(active)) \in Nat
    BY <2>0, <2>2 DEF Busy
  <2>4. Fits(next)
    BY <1>0, <2>0, <2>1, <2>3, PoolRanges DEF Fits, Room
  <2>5. ASSUME NEW S \in {Reviews, Thread \ Reviews}
        PROVE  /\ InLane(next, S) = IF v \in S THEN InLane(picks, S) + 1 ELSE InLane(picks, S)
               /\ InLane(picks, S) \in Nat
    <3>1. S \in SUBSET Thread
      BY PoolRanges
    <3> QED BY <2>2, <3>1 DEF InLane
  <2>6. CASE classes
    <3>1. InTurn(k, picks)
      BY <2>6 DEF SelectedSoFar
    <3>2. ASSUME NEW t \in Thread, next[t] # "no" PROVE Turn(t) <= k + 1
      BY <1>0, <1>1, <1>3, <2>1, <3>1, <3>2 DEF InTurn, Fits
    <3>3. ASSUME NEW u \in Waiting, next[u] = "no" PROVE picks[u] = "no" /\ Turn(u) > k + 1
      <4>1. u # v /\ picks[u] = "no"
        BY <1>1, <2>1, <3>3
      <4>2. ~(Turn(u) <= k)
        BY <2>0, <3>1, <4>1 DEF InTurn
      <4>3. Turn(u) # k + 1
        BY <1>0, <1>1, <1>3, <4>1, TurnOrder
      <4> QED BY <1>1, <4>1, <4>2, <4>3
    <3>4. InTurn(k + 1, next)
      <4>1. ASSUME NEW u \in Waiting, next[u] = "no", Turn(u) <= k + 1 PROVE FALSE
        BY <1>1, <3>3, <4>1
      <4>2. ASSUME NEW t \in Thread, NEW u \in Waiting, next[t] # "no", next[u] = "no"
            PROVE  Turn(t) < Turn(u)
        <5>1. Turn(t) \in Nat
          BY <1>1, <2>4, <4>2 DEF Fits
        <5> QED BY <1>1, <3>2, <3>3, <4>2, <5>1
      <4> QED BY <3>2, <4>1, <4>2 DEF InTurn
    <3> QED BY <2>4, <2>6, <3>4 DEF SelectedSoFar
  <2>7. CASE ~classes
    <3>1. InLanes(k, picks) /\ LaneRoom(picks, v)
      BY <1>3, <2>7 DEF SelectedSoFar, Takes
    <3>2. InLane(next, Reviews) <= LaneLimit /\ InLane(next, Thread \ Reviews) <= LaneLimit
      BY <2>0, <2>5, <3>1, LaneLimitIs DEF InLanes, LaneRoom, Kind
    <3>3. ASSUME NEW u \in Waiting, next[u] = "no", Turn(u) <= k + 1
          PROVE  ~Room(next) \/ ~LaneRoom(next, u)
      <4>1. u # v /\ picks[u] = "no"
        BY <1>1, <2>1, <3>3
      <4>2. Turn(u) <= k
        BY <1>0, <1>1, <1>3, <3>3, <4>1, TurnOrder
      <4>3. ~LaneRoom(picks, u)
        BY <2>0, <3>1, <4>1, <4>2 DEF InLanes
      <4> QED BY <2>5, <4>3, LaneLimitIs DEF LaneRoom, Kind
    <3> QED BY <2>4, <2>7, <3>2, <3>3 DEF SelectedSoFar, InLanes
  <2> QED BY <2>6, <2>7
<1> QED BY <1>0, <1>2, <1>3, TurnTaken
(* So the selection is what it should be after every turn. *)
LEMMA SelectedIs == ASSUME PoolInv PROVE SelectedSoFar(3 * Places, SelectHookThreads)
<1> DEFINE G == {k \in Nat : SelectedSoFar(k, Selected[k])}
<1>0. PoolTypes
  BY DEF PoolInv
<1>1. 0 \in G
  BY <1>0, Loop, LoopStarts
<1>2. ASSUME NEW k \in G PROVE k + 1 \in G
  BY <1>0, <1>2, Loop, LoopGoesOn
<1>3. G = Nat
  <2> HIDE DEF G
  <2>1. G \in SUBSET Nat
    BY DEF G
  <2> QED BY <1>1, <1>2, <2>1, SetInduction
<1>4. 3 * Places \in Nat
  BY PoolRanges
<1> QED BY <1>3, <1>4 DEF SelectHookThreads

(* Every waiting thread has had its turn. *)
LEMMA EveryTurn ==
  ASSUME PoolInv, NEW u \in Waiting
  PROVE  u \in Thread /\ u \in Ready /\ active[u] = "no" /\ Turn(u) <= 3 * Places
  BY TurnOrder, PoolRanges DEF PoolInv, Waiting, Ready

(* What a drain adds to the threads of a kind. *)
LEMMA Started ==
  ASSUME PoolInv, Drain, NEW S \in SUBSET Thread
  PROVE  /\ In(active', S) = In(active, S) \cup In(SelectHookThreads, S)
         /\ Cardinality(In(active', S)) = InLane(SelectHookThreads, S)
<1> DEFINE picks == SelectHookThreads
<1>1. Fits(picks)
  BY SelectedIs DEF SelectedSoFar
<1> HIDE DEF picks
<1>2. active' = [t \in Thread |-> IF picks[t] # "no" THEN picks[t] ELSE active[t]]
  BY DEF Drain, picks
<1>3. In(active', S) = In(active, S) \cup In(picks, S)
  BY <1>2 DEF In
<1>4. In(active, S) \cap In(picks, S) = {}
  BY <1>1 DEF In, Fits, Waiting
<1>5. /\ IsFiniteSet(In(active, S)) /\ IsFiniteSet(In(picks, S))
      /\ Cardinality(In(active, S)) \in Nat /\ Cardinality(In(picks, S)) \in Nat
  BY Countable
<1>6. Cardinality(In(active, S) \cup In(picks, S)) = InLane(picks, S)
  <2> DEFINE A == In(active, S)
             B == In(picks, S)
  <2> HIDE DEF A, B
  <2>1. Cardinality(A \cup B) = Cardinality(A) + Cardinality(B) - Cardinality(A \cap B)
    BY <1>5, FS_Union DEF A, B
  <2>2. Cardinality(A \cap B) = 0
    BY <1>4, FS_EmptySet DEF A, B
  <2>3. Cardinality(A \cup B) = Cardinality(A) + Cardinality(B)
    BY <1>5, <2>1, <2>2 DEF A, B
  <2> QED BY <2>3 DEF A, B, InLane
<1> QED BY <1>3, <1>6 DEF picks

-----------------------------------------------------------------------------
(* The inductive invariant holds at first, *)
LEMMA PoolStart == PoolInit => PoolInv
<1> SUFFICES ASSUME PoolInit PROVE PoolInv
  OBVIOUS
<1>1. active = Picked
  BY DEF PoolInit, Picked
<1>2. PoolTypes /\ Apart
  BY PoolRanges DEF PoolInit, PoolTypes, Apart, Choices, Lane
<1>3. CeilingKept
  <2>1. Cardinality(Busy(active)) = 0
    BY <1>1, NonePicked DEF Busy
  <2> QED BY <2>1, PoolRanges DEF CeilingKept
<1>4. LanesKept
  <2>1. Cardinality(In(active, Reviews)) = 0 /\ Cardinality(In(active, Thread \ Reviews)) = 0
    BY <1>1, NonePicked, PoolRanges
  <2> QED BY <2>1, LaneLimitIs DEF LanesKept
<1> QED BY <1>2, <1>3, <1>4 DEF PoolInv

(* Fewer in flight keep every bound. *)
LEMMA Fewer ==
  ASSUME NEW t \in Thread, PoolTypes, Finish(t), NEW S \in SUBSET Thread
  PROVE  /\ Cardinality(In(active', S)) <= Cardinality(In(active, S))
         /\ Cardinality(In(active', S)) \in Nat /\ Cardinality(In(active, S)) \in Nat
<1>1. In(active', S) \subseteq In(active, S)
  BY DEF Finish, In, PoolTypes, Choices
<1>2. IsFiniteSet(In(active, S)) /\ Cardinality(In(active, S)) \in Nat
  BY Countable
<1>3. Cardinality(In(active', S)) \in Nat
  BY Countable
<1> QED BY <1>1, <1>2, <1>3, FS_Subset

(* is preserved by every step, *)
LEMMA PoolStep == PoolInv /\ [PoolNext]_poolVars => PoolInv'
<1> SUFFICES ASSUME PoolInv, [PoolNext]_poolVars PROVE PoolInv'
  OBVIOUS
<1>0. PoolTypes /\ Apart /\ CeilingKept /\ LanesKept
  BY DEF PoolInv
<1>1. CASE \E t \in Thread, place \in 1..Places : Arrive(t, place)
  <2>1. PoolTypes' /\ Apart'
    BY <1>0, <1>1, PoolRanges DEF Arrive, PoolTypes, Apart
  <2>2. CeilingKept' /\ LanesKept'
    BY <1>0, <1>1 DEF Arrive, CeilingKept, LanesKept, Busy, In
  <2> QED BY <2>1, <2>2 DEF PoolInv
<1>2. CASE Drain
  <2> DEFINE picks == SelectHookThreads
  <2>0. SelectedSoFar(3 * Places, picks) /\ Fits(picks)
    BY SelectedIs DEF SelectedSoFar
  <2>1. PoolTypes' /\ Apart'
    <3> HIDE DEF picks
    <3>1. /\ active' = [t \in Thread |-> IF picks[t] # "no" THEN picks[t] ELSE active[t]]
          /\ due' = [t \in Thread |-> IF picks[t] # "no" THEN 0 ELSE due[t]]
          /\ classes' = classes /\ picks \in Choices
      BY <1>2, <2>0 DEF Drain, picks, Fits
    <3>2. PoolTypes'
      BY <1>0, <3>1, PoolRanges DEF PoolTypes, Choices
    <3>3. Apart'
      BY <1>0, <3>1 DEF Apart
    <3> QED BY <3>2, <3>3
  <2>2. CeilingKept'
    <3>1. Cardinality(In(active', Thread)) = InLane(picks, Thread)
      BY <1>2, Started
    <3>2. InLane(picks, Thread) <= Limit
      BY <2>0 DEF Fits, InLane, Busy
    <3> QED BY <3>1, <3>2 DEF CeilingKept, Busy
  <2>3. LanesKept'
    <3> SUFFICES ASSUME ~classes'
                 PROVE  /\ Cardinality(In(active', Reviews)) <= LaneLimit
                        /\ Cardinality(In(active', Thread \ Reviews)) <= LaneLimit
      BY DEF LanesKept
    <3>1. InLanes(3 * Places, picks)
      BY <1>2, <2>0 DEF SelectedSoFar, Drain
    <3>2. /\ Cardinality(In(active', Reviews)) = InLane(picks, Reviews)
          /\ Cardinality(In(active', Thread \ Reviews)) = InLane(picks, Thread \ Reviews)
      BY <1>2, Started, PoolRanges
    <3> QED BY <3>1, <3>2 DEF InLanes
  <2> QED BY <2>1, <2>2, <2>3 DEF PoolInv
<1>3. ASSUME NEW t \in Thread, Finish(t) PROVE PoolInv'
  <2>1. PoolTypes' /\ Apart'
    BY <1>0, <1>3 DEF Finish, PoolTypes, Apart, Choices, Lane
  <2>2. CeilingKept'
    <3>1. /\ Cardinality(In(active', Thread)) <= Cardinality(In(active, Thread))
          /\ Cardinality(In(active', Thread)) \in Nat /\ Cardinality(In(active, Thread)) \in Nat
      BY <1>0, <1>3, Fewer
    <3> QED BY <1>0, <3>1, PoolRanges DEF CeilingKept, Busy
  <2>3. LanesKept'
    <3>1. ASSUME NEW S \in {Reviews, Thread \ Reviews}
          PROVE  /\ Cardinality(In(active', S)) <= Cardinality(In(active, S))
                 /\ Cardinality(In(active', S)) \in Nat /\ Cardinality(In(active, S)) \in Nat
      BY <1>0, <1>3, Fewer, PoolRanges
    <3>2. classes' = classes
      BY <1>3 DEF Finish
    <3> QED BY <1>0, <3>1, <3>2, LaneLimitIs DEF LanesKept
  <2> QED BY <2>1, <2>2, <2>3 DEF PoolInv
<1>4. CASE UNCHANGED poolVars
  BY <1>0, <1>4 DEF poolVars, PoolInv, PoolTypes, Apart, CeilingKept, LanesKept, Busy, In
<1> QED BY <1>1, <1>2, <1>3, <1>4 DEF PoolNext

(* and so it always holds. *)
LEMMA PoolAlways == PoolSpec => []PoolInv
  BY PoolStart, PoolStep, PTL DEF PoolSpec

(* The pool never holds more than Limit batches: selectHookThreads counts  *)
(* what is in flight with what it selects, in both branches and in the     *)
(* pick ahead of the loop.                                                 *)
THEOREM CeilingHolds == PoolSpec => []CeilingKept
<1>1. PoolInv => CeilingKept
  BY DEF PoolInv
<1> QED BY <1>1, PoolAlways, PTL

(* Only a drain starts a thread. *)
LEMMA OnlyDrains ==
  ASSUME PoolInv, [PoolNext]_poolVars
  PROVE  \/ Drain
         \/ active' = active
         \/ \E v \in Thread : active[v] # "no" /\ active' = [active EXCEPT ![v] = "no"]
  BY DEF PoolNext, Arrive, Finish, poolVars

(* What a drain starts went before what it leaves waiting. *)
LEMMA InOrder ==
  PoolInv /\ [PoolNext]_poolVars =>
    [classes => \A t, u \in Thread :
       (active[t] = "no" /\ active'[t] # "no" /\ u \in Waiting /\ active'[u] = "no")
         => \/ Rank[t] < Rank[u]
            \/ Rank[t] = Rank[u] /\ due[t] < due[u]]_poolVars
<1> SUFFICES ASSUME PoolInv, [PoolNext]_poolVars, classes, NEW t \in Thread, NEW u \in Thread,
                    active[t] = "no", active'[t] # "no", u \in Waiting, active'[u] = "no"
             PROVE  \/ Rank[t] < Rank[u]
                    \/ Rank[t] = Rank[u] /\ due[t] < due[u]
  OBVIOUS
<1> DEFINE picks == SelectHookThreads
<1>1. Drain
  BY OnlyDrains DEF PoolInv, PoolTypes, Choices
<1>2. SelectedSoFar(3 * Places, picks)
  BY SelectedIs
<1> HIDE DEF picks
<1>3. active' = [x \in Thread |-> IF picks[x] # "no" THEN picks[x] ELSE active[x]]
  BY <1>1 DEF Drain, picks
<1>4. picks[t] # "no" /\ picks[u] = "no"
  BY <1>3
<1>5. Turn(t) < Turn(u) /\ t \in Waiting
  BY <1>2, <1>4 DEF SelectedSoFar, InTurn, Fits
<1>6. t \in Ready /\ u \in Ready
  BY <1>5 DEF Waiting
<1> QED BY <1>5, <1>6, TurnOrder DEF PoolInv

(* Strict priority among classes and first come, first served inside one:  *)
(* no thread is started while one that should go first is left waiting,    *)
(* for any classes, any number of workers and any order of arrivals.       *)
THEOREM OrderHolds == PoolSpec => StartsInOrder
  BY InOrder, PoolAlways, PTL DEF PoolSpec, StartsInOrder

(* A step that starts threads is a drain. *)
LEMMA GrowsByDrain ==
  ASSUME PoolInv, [PoolNext]_poolVars, active' # active, Busy(active) \subseteq Busy(active')
  PROVE  Drain
<1> SUFFICES ASSUME NEW v \in Thread, active[v] # "no", active' = [active EXCEPT ![v] = "no"]
             PROVE  FALSE
  BY OnlyDrains
<1>1. active'[v] = "no"
  BY DEF PoolInv, PoolTypes, Choices
<1> QED BY <1>1 DEF Busy, In

(* Who waits after a drain had waited before it and was not selected. *)
LEMMA StillWaiting ==
  ASSUME PoolInv, Drain, NEW u \in Waiting'
  PROVE  u \in Waiting /\ SelectHookThreads[u] = "no"
<1> DEFINE picks == SelectHookThreads
<1>1. Fits(picks)
  BY SelectedIs DEF SelectedSoFar
<1> HIDE DEF picks
<1>2. /\ active' = [t \in Thread |-> IF picks[t] # "no" THEN picks[t] ELSE active[t]]
      /\ due' = [t \in Thread |-> IF picks[t] # "no" THEN 0 ELSE due[t]]
  BY DEF Drain, picks
<1>3. u \in Thread /\ due'[u] > 0 /\ active'[u] = "no"
  BY DEF Waiting, Ready
<1>4. picks[u] = "no"
  BY <1>2, <1>3
<1>5. due[u] > 0 /\ active[u] = "no"
  BY <1>2, <1>3, <1>4
<1> QED BY <1>3, <1>4, <1>5 DEF Waiting, Ready, picks

(* A thread is left waiting by a drain with classes only when the pool is  *)
(* full.                                                                   *)
LEMMA NoneIdle ==
  PoolInv /\ [PoolNext]_poolVars =>
    [classes /\ active' # active /\ Busy(active) \subseteq Busy(active')
       => \/ Cardinality(Busy(active')) = Limit
          \/ Waiting' = {}]_poolVars
<1> SUFFICES ASSUME PoolInv, [PoolNext]_poolVars, classes, active' # active,
                    Busy(active) \subseteq Busy(active'), NEW u \in Waiting'
             PROVE  Cardinality(Busy(active')) = Limit
  OBVIOUS
<1> DEFINE picks == SelectHookThreads
<1>1. Drain
  BY GrowsByDrain
<1>2. SelectedSoFar(3 * Places, picks)
  BY SelectedIs
<1>3. u \in Waiting /\ picks[u] = "no"
  BY <1>1, StillWaiting
<1>4. Turn(u) <= 3 * Places
  BY <1>3, EveryTurn
<1>5. Cardinality(In(active', Thread)) = InLane(picks, Thread)
  BY <1>1, Started
<1> HIDE DEF picks
<1>6. ~Room(picks) /\ Cardinality(Busy(active)) + Cardinality(Busy(picks)) <= Limit
  BY <1>2, <1>3, <1>4 DEF SelectedSoFar, InTurn, Fits
<1>7. Cardinality(Busy(active)) \in Nat /\ Cardinality(Busy(picks)) \in Nat
  BY Countable DEF Busy
<1>8. Cardinality(Busy(active)) + Cardinality(Busy(picks)) = Limit
  BY <1>6, <1>7, PoolRanges DEF Room
<1> QED BY <1>5, <1>8 DEF Busy, InLane

(* A classified drain leaves no slot empty that a waiting thread could     *)
(* take: with classes selectHookThreads keeps no lanes.                    *)
THEOREM NoneIdleHolds == PoolSpec => NoIdleSlot
  BY NoneIdle, PoolAlways, PTL DEF PoolSpec, NoIdleSlot

(* When a kind waits after a drain, none of it can be idle: else its lane  *)
(* had room, the pool was full of the other kind, and that lane was over.  *)
LEMMA NotStarved ==
  ASSUME PoolInv, Drain, ~classes, Reserve, Limit > 1,
         NEW S \in {Reviews, Thread \ Reviews}, NEW u \in Waiting' \cap S
  PROVE  In(active', S) # {}
<1> SUFFICES ASSUME In(active', S) = {} PROVE FALSE
  OBVIOUS
<1> DEFINE picks == SelectHookThreads
           O == Thread \ S
<1>0. /\ S \in SUBSET Thread /\ O \in SUBSET Thread
      /\ O \in {Reviews, Thread \ Reviews}
      /\ (S = Reviews /\ O = Thread \ Reviews) \/ (S = Thread \ Reviews /\ O = Reviews)
  BY PoolRanges
<1>1. Fits(picks) /\ InLanes(3 * Places, picks)
  BY SelectedIs DEF SelectedSoFar
<1>2. u \in Waiting /\ picks[u] = "no" /\ Turn(u) <= 3 * Places
  BY StillWaiting, EveryTurn
<1>3. InLane(picks, S) = 0
  <2>1. Cardinality(In(active', S)) = 0
    BY FS_EmptySet
  <2> QED BY <1>0, <2>1, Started
<1> HIDE DEF picks, O
<1>4. LaneRoom(picks, u)
  <2>1. Kind(u) = S
    BY <1>0, PoolRanges DEF Kind
  <2> QED BY <1>3, <2>1, LaneLimitIs DEF LaneRoom
<1>5. ~Room(picks)
  BY <1>1, <1>2, <1>4 DEF InLanes
<1>6. Cardinality(Busy(active)) + Cardinality(Busy(picks)) = InLane(picks, S) + InLane(picks, O)
  <2>1. /\ Cardinality(Busy(active)) = Cardinality(In(active, S)) + Cardinality(In(active, O))
        /\ Cardinality(Busy(picks)) = Cardinality(In(picks, S)) + Cardinality(In(picks, O))
        /\ Cardinality(In(active, S)) \in Nat /\ Cardinality(In(active, O)) \in Nat
        /\ Cardinality(In(picks, S)) \in Nat /\ Cardinality(In(picks, O)) \in Nat
    <3>1. ASSUME NEW lanes
          PROVE  /\ Cardinality(Busy(lanes)) = Cardinality(In(lanes, S)) + Cardinality(In(lanes, O))
                 /\ Cardinality(In(lanes, S)) \in Nat /\ Cardinality(In(lanes, O)) \in Nat
      <4>1. Cardinality(In(lanes, S)) \in Nat /\ Cardinality(In(lanes, O)) \in Nat
        BY <1>0, Countable
      <4>2. Cardinality(Busy(lanes)) =
              Cardinality(In(lanes, Reviews)) + Cardinality(In(lanes, Thread \ Reviews))
        BY Kinds
      <4>3. CASE S = Reviews /\ O = Thread \ Reviews
        BY <4>1, <4>2, <4>3
      <4>4. CASE S = Thread \ Reviews /\ O = Reviews
        BY <4>1, <4>2, <4>4
      <4> QED BY <1>0, <4>3, <4>4
    <3> QED BY <3>1
  <2> QED BY <2>1 DEF InLane
<1>7. InLane(picks, O) <= LaneLimit
  BY <1>0, <1>1 DEF InLanes
<1>8. InLane(picks, O) \in Nat
  BY <1>0, Countable DEF InLane
<1> QED BY <1>3, <1>5, <1>6, <1>7, <1>8, LaneLimitIs, PoolRanges DEF Room

(* Both kinds have their lane after a drain. *)
LEMMA LanesShared ==
  PoolInv /\ [PoolNext]_poolVars =>
    [~classes /\ active' # active /\ Busy(active) \subseteq Busy(active') /\ Reserve /\ Limit > 1
       => /\ Waiting' \cap Reviews # {} => In(active', Reviews) # {}
          /\ Waiting' \ Reviews # {} => In(active', Thread \ Reviews) # {}]_poolVars
<1> SUFFICES ASSUME PoolInv, [PoolNext]_poolVars, ~classes, active' # active,
                    Busy(active) \subseteq Busy(active'), Reserve, Limit > 1
             PROVE  /\ Waiting' \cap Reviews # {} => In(active', Reviews) # {}
                    /\ Waiting' \ Reviews # {} => In(active', Thread \ Reviews) # {}
  OBVIOUS
<1>1. Drain
  BY GrowsByDrain
<1>2. Waiting' \ Reviews = Waiting' \cap (Thread \ Reviews)
  BY DEF Waiting, Ready
<1>3. Waiting' \cap Reviews # {} => In(active', Reviews) # {}
  BY <1>1, NotStarved
<1>4. Waiting' \cap (Thread \ Reviews) # {} => In(active', Thread \ Reviews) # {}
  BY <1>1, NotStarved
<1> QED BY <1>2, <1>3, <1>4

(* Without classes, where lanes are reserved and there is more than one    *)
(* worker, a drain never leaves one kind waiting while the other has the   *)
(* whole pool ("Keep a lane available for reviews and a lane for other     *)
(* work").                                                                 *)
THEOREM LanesHold == PoolSpec => LaneForEachKind
  BY LanesShared, PoolAlways, PTL DEF PoolSpec, LaneForEachKind
=============================================================================
