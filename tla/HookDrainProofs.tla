--------------------------- MODULE HookDrainProofs ---------------------------
(* Proofs about the hook drain worker, for any number of deliveries,       *)
(* threads, routines, slots and troubles.                                  *)
EXTENDS HookDrain, FiniteSetTheorems, TLAPS

-----------------------------------------------------------------------------
(* What the rows look like after each method.                              *)

(* Setting a set of rows to a legal status keeps the column legal. *)
LEMMA WithType ==
  ASSUME status \in [Msg -> Status], NEW S, NEW s \in Status
  PROVE  With(S, s) \in [Msg -> Status]
BY DEF With

(* A method keeps the columns legal. *)
LEMMA QueueMethods ==
  ASSUME QueueTypeOK, NEW S \in SUBSET Msg
  PROVE  /\ \A m \in Msg, later \in BOOLEAN : Enqueue(m, later) => QueueTypeOK'
         /\ ClaimThread(S) => QueueTypeOK'
         /\ \A s \in {"done", "failed"}, spendCap \in BOOLEAN : Complete(S, s, spendCap) => QueueTypeOK'
         /\ ReleaseClaim(S) => QueueTypeOK'
         /\ \A countAttempt \in BOOLEAN : Defer(S, countAttempt) => QueueTypeOK'
         /\ Requeue(S) => QueueTypeOK'
         /\ RequeueStuckRunning => QueueTypeOK'
         /\ ResolvePendingCve(S) => QueueTypeOK'
         /\ Prune(S) => QueueTypeOK'
         /\ \A m \in Msg : HoldEnds(m) => QueueTypeOK'
         /\ UNCHANGED queueVars => QueueTypeOK'
<1> USE QueueAssumption DEF QueueTypeOK
<1>1. ASSUME NEW m \in Msg, NEW later \in BOOLEAN, Enqueue(m, later) PROVE QueueTypeOK'
  BY <1>1, WithType DEF Enqueue, queueVars, Status
<1>2. ASSUME ClaimThread(S) PROVE QueueTypeOK'
  BY <1>2, WithType DEF ClaimThread, Status
<1>3. ASSUME NEW s \in {"done", "failed"}, NEW spendCap \in BOOLEAN, Complete(S, s, spendCap)
      PROVE  QueueTypeOK'
  BY <1>3, WithType DEF Complete, Status
<1>4. ASSUME ReleaseClaim(S) PROVE QueueTypeOK'
  BY <1>4, WithType DEF ReleaseClaim, Status
<1>5. ASSUME NEW countAttempt \in BOOLEAN, Defer(S, countAttempt) PROVE QueueTypeOK'
  BY <1>5, WithType DEF Defer, Counted, Status
<1>6. ASSUME Requeue(S) PROVE QueueTypeOK'
  BY <1>6, WithType DEF Requeue, Status
<1>7. ASSUME RequeueStuckRunning PROVE QueueTypeOK'
  BY <1>7, WithType DEF RequeueStuckRunning, Status
<1>8. ASSUME ResolvePendingCve(S) PROVE QueueTypeOK'
  BY <1>8, WithType DEF ResolvePendingCve, Complete, Status
<1>9. ASSUME Prune(S) PROVE QueueTypeOK'
  BY <1>9, WithType DEF Prune, Status
<1>10. ASSUME NEW m \in Msg, HoldEnds(m) PROVE QueueTypeOK'
  BY <1>10 DEF HoldEnds
<1>11. ASSUME UNCHANGED queueVars PROVE QueueTypeOK'
  BY <1>11 DEF queueVars
<1>12. QED
  BY <1>1, <1>2, <1>3, <1>4, <1>5, <1>6, <1>7, <1>8, <1>9, <1>10, <1>11

-----------------------------------------------------------------------------
(* Type correctness.                                                       *)

(* The rows a drain claims are deliveries. *)
LEMMA ReadyType == ASSUME NEW t PROVE Ready(t) \in SUBSET Msg
BY DEF Ready

(* The history counter stays in its range. *)
LEMMA MissType ==
  ASSUME misses \in [Msg -> 0..(RetryCap + 1)], NEW S
  PROVE  /\ Miss(S) \in [Msg -> 0..(RetryCap + 1)]
         /\ Rearm(S) \in [Msg -> 0..(RetryCap + 1)]
BY QueueAssumption DEF Miss, Rearm

(* What a drain may still admit fits in the pool. *)
LEMMA CapacityType == Capacity \subseteq 0..MaxDrains
<1>1. IsFiniteSet(Thread) /\ InLane("model") \subseteq Thread
  BY QueueAssumption DEF InLane
<1>2. Cardinality(InLane("model")) \in Nat
  BY <1>1, FS_Subset, FS_CardinalityType
<1> QED
  BY <1>2, DrainAssumption DEF Capacity

(* A batch that ends or is held keeps the two lanes legal. *)
LEMMA LanesType ==
  ASSUME phase \in [Lane -> [Thread -> Phase]], batch \in [Lane -> [Thread -> SUBSET Msg]],
         NEW l \in Lane, NEW t \in Thread
  PROVE  /\ Settle(l, t) => /\ phase' \in [Lane -> [Thread -> Phase]]
                            /\ batch' \in [Lane -> [Thread -> SUBSET Msg]]
         /\ \A ph \in Phase : Hold(l, t, ph) => /\ phase' \in [Lane -> [Thread -> Phase]]
                                                /\ batch' \in [Lane -> [Thread -> SUBSET Msg]]
<1>1. ASSUME NEW ph \in Phase PROVE [phase EXCEPT ![l][t] = ph] \in [Lane -> [Thread -> Phase]]
  BY DEF Phase
<1>2. ASSUME NEW S \in SUBSET Msg PROVE [batch EXCEPT ![l][t] = S] \in [Lane -> [Thread -> SUBSET Msg]]
  OBVIOUS
<1>3. "settled" \in Phase /\ {} \in SUBSET Msg
  BY DEF Phase
<1>4. Ready(t) \in SUBSET Msg
  BY ReadyType
<1>5. ASSUME Settle(l, t)
      PROVE  phase' \in [Lane -> [Thread -> Phase]] /\ batch' \in [Lane -> [Thread -> SUBSET Msg]]
  BY <1>1, <1>2, <1>3, <1>5, Zenon DEF Settle
<1>6. ASSUME NEW ph \in Phase, Hold(l, t, ph)
      PROVE  phase' \in [Lane -> [Thread -> Phase]] /\ batch' \in [Lane -> [Thread -> SUBSET Msg]]
  BY <1>1, <1>2, <1>4, <1>6, Zenon DEF Hold
<1>7. QED
  BY <1>5, <1>6

(* Faults are only spent. *)
LEMMA FaultType ==
  ASSUME faults \in [Fault -> Nat], NEW f \in Fault, Spend(f)
  PROVE  faults' \in [Fault -> Nat]
BY DEF Spend

(* The claim of a batch, with whatever it settles at once. *)
LEMMA BeginType ==
  ASSUME TypeOK, NEW l \in Lane, NEW t \in Thread, NEW j, Begin(l, t, j)
  PROVE  /\ QueueTypeOK'
         /\ phase' \in [Lane -> [Thread -> Phase]]
         /\ batch' \in [Lane -> [Thread -> SUBSET Msg]]
         /\ misses' \in [Msg -> 0..(RetryCap + 1)]
<1>1. Ready(t) \in SUBSET Msg
  BY ReadyType
<1>2. {"inspect", "review", "run"} \subseteq Phase
  BY DEF Phase, Active
<1>3. /\ QueueTypeOK
      /\ phase \in [Lane -> [Thread -> Phase]]
      /\ batch \in [Lane -> [Thread -> SUBSET Msg]]
      /\ misses \in [Msg -> 0..(RetryCap + 1)]
  BY DEF TypeOK, WorkerTypeOK
<1>4. CASE j \notin loaded /\ JobMissing(Ready(t)) /\ Settle(l, t)
  BY <1>1, <1>3, <1>4, QueueMethods, MissType, LanesType DEF JobMissing
<1>5. CASE Complete(Ready(t), "done", FALSE) /\ Settle(l, t) /\ UNCHANGED misses
  BY <1>1, <1>3, <1>5, QueueMethods, LanesType
<1>6. CASE ClaimThread(Ready(t)) /\ Hold(l, t, "inspect") /\ UNCHANGED misses
  BY <1>1, <1>2, <1>3, <1>6, QueueMethods, LanesType
<1>7. CASE /\ ClaimThread(Ready(t))
           /\ Hold(l, t, IF j = ReviewJob THEN "review" ELSE "run")
           /\ UNCHANGED misses
  <2>1. (IF j = ReviewJob THEN "review" ELSE "run") \in Phase
    BY <1>2
  <2>2. QED
    BY <1>1, <1>3, <1>7, <2>1, QueueMethods, LanesType
<1>8. CASE Settle(l, t) /\ UNCHANGED <<queueVars, misses>>
  BY <1>1, <1>3, <1>8, QueueMethods, LanesType
<1>9. QED
  BY <1>4, <1>5, <1>6, <1>7, <1>8 DEF Begin

(* A memo is a set of rows, outdated or not. *)
LEMMA MemoType ==
  ASSUME inspected \in [Thread -> SUBSET Msg]
  PROVE  StillInspected \in [Thread -> SUBSET Msg]
BY DEF StillInspected

(* Every step keeps every variable in its range. *)
LEMMA TypeStep == TypeOK /\ [Next]_vars => TypeOK'
<1> SUFFICES ASSUME TypeOK, [Next]_vars PROVE TypeOK'
  OBVIOUS
<1> USE DEF TypeOK, WorkerTypeOK
<1>1. QueueTypeOK /\ ({} \in SUBSET Msg) /\ Phase = {"idle", "settled", "inspect", "run", "review", "handoff"}
  BY DEF Phase, Active
<1>0. 0 \in 0..MaxDrains
  BY DrainAssumption
<1>2. ASSUME NEW m \in Msg, NEW later \in BOOLEAN, EnqueueHook(m, later) PROVE TypeOK'
  BY <1>1, <1>2, QueueMethods, MissType DEF EnqueueHook, Kick
<1>3. CASE Tick
  BY <1>1, <1>3, QueueMethods DEF Tick
<1>4. ASSUME NEW t \in Thread, DrainPreflight(t) PROVE TypeOK'
  BY <1>4, BeginType, ReadyType DEF DrainPreflight, Lane
<1>5. ASSUME NEW t \in Thread, DrainModel(t) PROVE TypeOK'
  BY <1>5, BeginType, MemoType, DrainAssumption DEF DrainModel, Lane
<1>6. CASE DrainAdmit
  BY <1>1, <1>6, QueueMethods, CapacityType DEF DrainAdmit
<1>7. CASE DrainEnd
  BY <1>0, <1>1, <1>7, QueueMethods DEF DrainEnd
<1>8. ASSUME NEW t \in Thread, ModelStep(t) PROVE TypeOK'
  <2>1. batch["model"][t] \in SUBSET Msg /\ "model" \in Lane /\ "handoff" \in Phase
    BY <1>1 DEF Lane
  <2>2. /\ [phase EXCEPT !["model"][t] = "handoff"] \in [Lane -> [Thread -> Phase]]
        /\ \A S : /\ Miss(S) \in [Msg -> 0..(RetryCap + 1)]
                  /\ Rearm(S) \in [Msg -> 0..(RetryCap + 1)]
    BY <2>1, MissType
  <2>3. \A f \in Fault : Spend(f) => faults' \in [Fault -> Nat]
    BY FaultType
  <2>4. CASE RunSucceeds(t)
    BY <1>1, <2>1, <2>2, <2>4, QueueMethods, LanesType DEF RunSucceeds
  <2>5. CASE HandoffEnds(t)
    BY <1>1, <2>1, <2>5, QueueMethods, LanesType DEF HandoffEnds
  <2>6. CASE RunFails(t)
    BY <1>1, <2>1, <2>2, <2>6, QueueMethods, MemoType, LanesType DEF RunFails
  <2>7. CASE RunRateLimited(t)
    BY <1>1, <2>1, <2>3, <2>7, QueueMethods, MemoType, LanesType DEF RunRateLimited, Fault
  <2>8. CASE RunSpendStops(t)
    BY <1>1, <2>1, <2>3, <2>8, QueueMethods, LanesType DEF RunSpendStops, Fault
  <2>9. QED
    BY <1>8, <2>4, <2>5, <2>6, <2>7, <2>8 DEF ModelStep
<1>9. ASSUME NEW l \in Lane, NEW t \in Thread, BatchStep(l, t) PROVE TypeOK'
  <2>1. batch[l][t] \in SUBSET Msg /\ "review" \in Phase /\ "idle" \in Phase
    BY <1>1
  <2>2. /\ [phase EXCEPT ![l][t] = "review"] \in [Lane -> [Thread -> Phase]]
        /\ [phase EXCEPT ![l][t] = "idle"] \in [Lane -> [Thread -> Phase]]
        /\ \A S : Miss(S) \in [Msg -> 0..(RetryCap + 1)]
        /\ \A f \in Fault : Spend(f) => faults' \in [Fault -> Nat]
    BY <2>1, MissType, FaultType
  <2>3. CASE InspectResolves(l, t)
    BY <1>1, <2>1, <2>3, QueueMethods, LanesType DEF InspectResolves
  <2>4. CASE InspectPasses(l, t)
    BY <1>1, <2>1, <2>2, <2>4, QueueMethods, LanesType DEF InspectPasses
  <2>5. CASE BatchThrows(l, t)
    BY <1>1, <2>1, <2>2, <2>5, QueueMethods, MemoType, LanesType DEF BatchThrows, Fault
  <2>6. CASE Finally(l, t)
    BY <1>1, <2>1, <2>2, <2>6, QueueMethods DEF Finally, Kick
  <2>7. QED
    BY <1>9, <2>3, <2>4, <2>5, <2>6 DEF BatchStep
<1>10. CASE Environment
  <2>1. \A f \in Fault : Spend(f) => faults' \in [Fault -> Nat]
    BY FaultType
  <2>2. ASSUME NEW S \in SUBSET Msg, Replay(S) PROVE TypeOK'
    BY <1>1, <2>1, <2>2, QueueMethods, MissType DEF Replay, Fault
  <2>3. ASSUME NEW S \in SUBSET Msg, Forget(S) PROVE TypeOK'
    BY <1>1, <2>1, <2>3, QueueMethods DEF Forget, Fault
  <2>4. ASSUME NEW S \in SUBSET Msg, CveResolved(S) PROVE TypeOK'
    BY <1>1, <2>4, QueueMethods DEF CveResolved, drainVars
  <2>5. CASE LimitEnds
    BY <1>1, <2>5, QueueMethods DEF LimitEnds
  <2>6. CASE LimitStarts
    BY <1>1, <2>1, <2>6, QueueMethods DEF LimitStarts, Fault
  <2>7. CASE Reload
    BY <1>1, <2>1, <2>7, QueueMethods DEF Reload, Fault
  <2>8. ASSUME NEW m \in Msg, RowHoldEnds(m) PROVE TypeOK'
    BY <1>1, <2>8, QueueMethods DEF RowHoldEnds, drainVars
  <2>9. ASSUME NEW t \in Thread, MemoExpires(t) PROVE TypeOK'
    BY <1>1, <2>9, QueueMethods DEF MemoExpires
  <2>10. QED
    BY <1>10, <2>2, <2>3, <2>4, <2>5, <2>6, <2>7, <2>8, <2>9 DEF Environment
<1>11. CASE Process
  <2>1. \A f \in Fault : Spend(f) => faults' \in [Fault -> Nat]
    BY FaultType
  <2>2. ASSUME Die, faults' \in [Fault -> Nat] PROVE TypeOK'
    <3>1. QueueTypeOK'
      BY <1>1, <2>2, QueueMethods DEF Die
    <3>2. misses' \in [Msg -> 0..(RetryCap + 1)]
      BY <2>2 DEF Die
    <3>3. QED
      BY <1>0, <1>1, <2>2, <3>1, <3>2 DEF Die
  <2>3. CASE Terminate
    BY <1>1, <2>1, <2>3, QueueMethods DEF Terminate, Fault
  <2>4. CASE Crash
    BY <2>1, <2>2, <2>4 DEF Crash, Fault
  <2>5. CASE Exit
    BY <2>2, <2>5 DEF Exit
  <2>6. CASE Restart
    BY <1>1, <2>6, QueueMethods DEF Restart
  <2>7. CASE Boot
    BY <1>1, <2>7, QueueMethods DEF Boot
  <2>8. QED
    BY <1>11, <2>3, <2>4, <2>5, <2>6, <2>7 DEF Process
<1>12. CASE UNCHANGED vars
  BY <1>1, <1>12, QueueMethods DEF vars, drainVars
<1>13. QED
  BY <1>2, <1>3, <1>4, <1>5, <1>6, <1>7, <1>8, <1>9, <1>10, <1>11, <1>12 DEF Next, Drain

(* The worker starts in range. *)
LEMMA TypeInit == Init => TypeOK
<1> SUFFICES ASSUME Init PROVE TypeOK
  OBVIOUS
<1>1. 0 \in 0..RetryCap /\ 0 \in 0..(RetryCap + 1) /\ 0 \in 0..MaxDrains
  BY QueueAssumption, DrainAssumption
<1>2. QueueTypeOK
  BY <1>1 DEF Init, QueueInit, QueueTypeOK, Status
<1>3. WorkerTypeOK
  BY <1>1, DrainAssumption DEF Init, WorkerTypeOK, Phase
<1>4. QED
  BY <1>2, <1>3 DEF TypeOK

(* No order of deliveries, drains, callbacks and kills takes a variable    *)
(* out of its range: the status column keeps to its words, and attempts    *)
(* to the cap.                                                             *)
THEOREM TypeCorrect == Spec => []TypeOK
<1>1. QED
  BY TypeInit, TypeStep, PTL DEF Spec

-----------------------------------------------------------------------------
(* Ownership: running rows and batches in flight.                          *)

(* A process that is not up has no worker: nothing is drained and no batch *)
(* is in flight.  Boot relies on it when it takes every running row back.  *)
NoWorkerWhenDown ==
  ~Alive => /\ drain = "off"
            /\ \A l \in Lane, t \in Thread : phase[l][t] = "idle"

(* The inductive invariant: none of its parts is inductive alone.  That    *)
(* running rows are owned needs that a thread has one batch (else the one  *)
(* that ends settles rows of the other), and that a booting process has    *)
(* none (else the replay takes rows from under it).                        *)
Ownership == TypeOK /\ NoWorkerWhenDown /\ RunningRowsOwned /\ OneBatchPerThread

(* A step that leaves the batches and the set of running rows alone. *)
LEMMA OwnershipUntouched ==
  ASSUME Ownership, TypeOK', UNCHANGED <<phase, batch>>,
         \A m \in Msg : status'[m] = "running" <=> status[m] = "running",
         Alive' <=> Alive,
         drain' = "off" \/ Alive'
  PROVE  Ownership'
<1> USE DEF Ownership
<1>1. NoWorkerWhenDown'
  BY DEF NoWorkerWhenDown
<1>2. RunningRowsOwned'
  <2>1. \A l \in Lane, t \in Thread : IF phase'[l][t] \in Active
          THEN /\ batch'[l][t] # {}
               /\ \A m \in batch'[l][t] : ThreadOf[m] = t /\ status'[m] = "running"
          ELSE batch'[l][t] = {}
    BY DEF RunningRowsOwned, TypeOK, WorkerTypeOK
  <2>2. QED
    BY <2>1 DEF RunningRowsOwned
<1>3. OneBatchPerThread'
  BY DEF OneBatchPerThread
<1> QED
  BY <1>1, <1>2, <1>3

(* A batch in flight ends: its rows, and no other batch's, stop running. *)
LEMMA OwnershipSettled ==
  ASSUME Ownership, TypeOK', NEW l \in Lane, NEW t \in Thread, phase[l][t] \in Active,
         Settle(l, t), NEW s \in {"pending", "done", "failed"},
         status' = With(batch[l][t], s), UNCHANGED <<proc, drain>>
  PROVE  Ownership'
<1> USE DEF Ownership
<1>1. /\ phase \in [Lane -> [Thread -> Phase]]
      /\ batch \in [Lane -> [Thread -> SUBSET Msg]]
      /\ status \in [Msg -> Status]
  BY DEF TypeOK, WorkerTypeOK, QueueTypeOK
<1>2. Alive
  BY DEF NoWorkerWhenDown, Active
<1>3. /\ phase'[l][t] = "settled" /\ batch'[l][t] = {}
      /\ \A k \in Lane, u \in Thread : <<k, u>> # <<l, t>> =>
           phase'[k][u] = phase[k][u] /\ batch'[k][u] = batch[k][u]
  BY <1>1 DEF Settle
<1>4. \A m \in Msg : status'[m] = IF m \in batch[l][t] THEN s ELSE status[m]
  BY DEF With
<1>5. NoWorkerWhenDown'
  BY <1>2 DEF NoWorkerWhenDown, Alive
<1>6. OneBatchPerThread'
  BY <1>3 DEF OneBatchPerThread, Lane, Active
<1>7. ASSUME NEW k \in Lane, NEW u \in Thread, phase'[k][u] \in Active
      PROVE  /\ batch'[k][u] # {}
             /\ \A m \in batch'[k][u] : ThreadOf[m] = u /\ status'[m] = "running"
  <2>1. <<k, u>> # <<l, t>>
    BY <1>3, <1>7 DEF Active
  <2>2. phase[k][u] \in Active /\ batch'[k][u] = batch[k][u]
    BY <1>3, <1>7, <2>1
  <2>3. u # t
    BY <2>1, <2>2 DEF OneBatchPerThread, Lane, Active
  <2>4. batch[k][u] # {} /\ \A m \in batch[k][u] : ThreadOf[m] = u /\ status[m] = "running"
    BY <2>2 DEF RunningRowsOwned
  <2>5. \A m \in batch[l][t] : ThreadOf[m] = t
    BY DEF RunningRowsOwned
  <2>6. QED
    BY <1>1, <1>4, <2>2, <2>3, <2>4, <2>5
<1>8. ASSUME NEW k \in Lane, NEW u \in Thread, phase'[k][u] \notin Active
      PROVE  batch'[k][u] = {}
  <2>1. CASE <<k, u>> = <<l, t>>
    BY <1>3, <2>1
  <2>2. CASE <<k, u>> # <<l, t>>
    BY <1>3, <1>8, <2>2 DEF RunningRowsOwned
  <2> QED
    BY <2>1, <2>2
<1>9. ASSUME NEW m \in Msg, status'[m] = "running"
      PROVE  \E k \in Lane : m \in batch'[k][ThreadOf[m]]
  <2>1. m \notin batch[l][t] /\ status[m] = "running"
    BY <1>4, <1>9
  <2>2. PICK k \in Lane : m \in batch[k][ThreadOf[m]]
    BY <1>2, <2>1 DEF RunningRowsOwned
  <2>3. batch'[k][ThreadOf[m]] = batch[k][ThreadOf[m]]
    BY <1>3, <2>1, <2>2, QueueAssumption
  <2> QED
    BY <2>2, <2>3
<1>10. RunningRowsOwned'
  BY <1>7, <1>8, <1>9 DEF RunningRowsOwned
<1> QED
  BY <1>5, <1>6, <1>10

(* A batch moves on: between two of its awaits, or out of the maps when    *)
(* its rows are already settled.                                           *)
LEMMA OwnershipAdvanced ==
  ASSUME Ownership, TypeOK', NEW l \in Lane, NEW t \in Thread, NEW ph \in Phase,
         phase' = [phase EXCEPT ![l][t] = ph],
         \/ phase[l][t] \in Active /\ ph \in Active
         \/ phase[l][t] = "settled" /\ ph = "idle",
         UNCHANGED <<status, proc, batch>>,
         UNCHANGED drain \/ Alive
  PROVE  Ownership'
<1> USE DEF Ownership
<1>1. /\ phase \in [Lane -> [Thread -> Phase]]
      /\ batch \in [Lane -> [Thread -> SUBSET Msg]]
  BY DEF TypeOK, WorkerTypeOK
<1>2. Alive
  BY DEF NoWorkerWhenDown, Active
<1>3. /\ phase'[l][t] = ph
      /\ \A k \in Lane, u \in Thread : <<k, u>> # <<l, t>> => phase'[k][u] = phase[k][u]
  BY <1>1
<1>4. \A k \in Lane, u \in Thread : phase'[k][u] \in Active <=> phase[k][u] \in Active
  <2> SUFFICES ASSUME NEW k \in Lane, NEW u \in Thread
               PROVE  phase'[k][u] \in Active <=> phase[k][u] \in Active
    OBVIOUS
  <2>1. CASE <<k, u>> = <<l, t>>
    BY <1>3, <2>1 DEF Active
  <2>2. CASE <<k, u>> # <<l, t>>
    BY <1>3, <2>2
  <2> QED
    BY <2>1, <2>2
<1>5. NoWorkerWhenDown'
  BY <1>2 DEF NoWorkerWhenDown, Alive
<1>6. OneBatchPerThread'
  BY <1>3 DEF OneBatchPerThread, Lane, Active
<1>7. RunningRowsOwned'
  BY <1>2, <1>4 DEF RunningRowsOwned, Alive
<1> QED
  BY <1>5, <1>6, <1>7

(* A drain claims the ready rows of a thread nobody works on. *)
LEMMA OwnershipClaimed ==
  ASSUME Ownership, TypeOK', NEW l \in Lane, NEW t \in Thread, NEW ph \in Active,
         \A k \in Lane : phase[k][t] = "idle", Ready(t) # {},
         ClaimThread(Ready(t)), Hold(l, t, ph), UNCHANGED <<proc, drain>>, Alive
  PROVE  Ownership'
<1> USE DEF Ownership
<1>1. /\ phase \in [Lane -> [Thread -> Phase]]
      /\ batch \in [Lane -> [Thread -> SUBSET Msg]]
      /\ status \in [Msg -> Status]
  BY DEF TypeOK, WorkerTypeOK, QueueTypeOK
<1>2. /\ phase'[l][t] = ph /\ batch'[l][t] = Ready(t)
      /\ \A k \in Lane, u \in Thread : <<k, u>> # <<l, t>> =>
           phase'[k][u] = phase[k][u] /\ batch'[k][u] = batch[k][u]
  BY <1>1 DEF Hold
<1>3. \A m \in Msg : status'[m] = IF m \in Ready(t) THEN "running" ELSE status[m]
  BY DEF ClaimThread, With
<1>4. NoWorkerWhenDown'
  BY DEF NoWorkerWhenDown, Alive
<1>5. OneBatchPerThread'
  BY <1>2 DEF OneBatchPerThread, Lane
<1>6. ASSUME NEW k \in Lane, NEW u \in Thread, phase'[k][u] \in Active
      PROVE  /\ batch'[k][u] # {}
             /\ \A m \in batch'[k][u] : ThreadOf[m] = u /\ status'[m] = "running"
  <2>1. CASE <<k, u>> = <<l, t>>
    BY <1>2, <1>3, <2>1 DEF Ready
  <2>2. CASE <<k, u>> # <<l, t>>
    <3>1. batch[k][u] # {} /\ \A m \in batch[k][u] : ThreadOf[m] = u /\ status[m] = "running"
      BY <1>2, <1>6, <2>2 DEF RunningRowsOwned
    <3> QED
      BY <1>1, <1>2, <1>3, <2>2, <3>1
  <2> QED
    BY <2>1, <2>2
<1>7. ASSUME NEW k \in Lane, NEW u \in Thread, phase'[k][u] \notin Active
      PROVE  batch'[k][u] = {}
  <2>1. <<k, u>> # <<l, t>>
    BY <1>2, <1>7
  <2> QED
    BY <1>2, <1>7, <2>1 DEF RunningRowsOwned
<1>8. ASSUME NEW m \in Msg, status'[m] = "running"
      PROVE  \E k \in Lane : m \in batch'[k][ThreadOf[m]]
  <2>1. CASE m \in Ready(t)
    BY <1>2, <2>1 DEF Ready
  <2>2. CASE m \notin Ready(t)
    <3>1. PICK k \in Lane : m \in batch[k][ThreadOf[m]]
      BY <1>3, <1>8, <2>2 DEF RunningRowsOwned
    <3>2. <<k, ThreadOf[m]>> # <<l, t>>
      BY <3>1 DEF RunningRowsOwned, Active
    <3> QED
      BY <1>2, <3>1, <3>2, QueueAssumption
  <2> QED
    BY <2>1, <2>2
<1>9. RunningRowsOwned'
  BY <1>6, <1>7, <1>8 DEF RunningRowsOwned
<1> QED
  BY <1>4, <1>5, <1>9

(* A batch that settles at once leaves no running row behind. *)
LEMMA OwnershipSkipped ==
  ASSUME Ownership, TypeOK', NEW l \in Lane, NEW t \in Thread,
         \A k \in Lane : phase[k][t] = "idle", Settle(l, t),
         \A m \in Msg : status'[m] = "running" <=> status[m] = "running",
         UNCHANGED <<proc, drain>>, Alive
  PROVE  Ownership'
<1> USE DEF Ownership
<1>1. /\ phase \in [Lane -> [Thread -> Phase]]
      /\ batch \in [Lane -> [Thread -> SUBSET Msg]]
  BY DEF TypeOK, WorkerTypeOK
<1>2. /\ phase'[l][t] = "settled"
      /\ \A k \in Lane, u \in Thread : <<k, u>> # <<l, t>> => phase'[k][u] = phase[k][u]
  BY <1>1 DEF Settle
<1>3. \A k \in Lane, u \in Thread : batch'[k][u] = batch[k][u]
  <2>1. batch[l][t] = {}
    BY DEF RunningRowsOwned, Active
  <2> QED
    BY <1>1, <2>1 DEF Settle
<1>4. \A k \in Lane, u \in Thread : phase'[k][u] \in Active <=> phase[k][u] \in Active
  <2> SUFFICES ASSUME NEW k \in Lane, NEW u \in Thread
               PROVE  phase'[k][u] \in Active <=> phase[k][u] \in Active
    OBVIOUS
  <2>1. CASE <<k, u>> = <<l, t>>
    BY <1>2, <2>1 DEF Active
  <2>2. CASE <<k, u>> # <<l, t>>
    BY <1>2, <2>2
  <2> QED
    BY <2>1, <2>2
<1>5. NoWorkerWhenDown'
  BY DEF NoWorkerWhenDown, Alive
<1>6. OneBatchPerThread'
  BY <1>2 DEF OneBatchPerThread, Lane
<1>7. RunningRowsOwned'
  <2>1. ASSUME NEW k \in Lane, NEW u \in Thread
        PROVE  IF phase'[k][u] \in Active
               THEN /\ batch'[k][u] # {}
                    /\ \A m \in batch'[k][u] : ThreadOf[m] = u /\ status'[m] = "running"
               ELSE batch'[k][u] = {}
    BY <1>1, <1>3, <1>4 DEF RunningRowsOwned
  <2>2. ASSUME NEW m \in Msg, status'[m] = "running"
        PROVE  \E k \in Lane : m \in batch'[k][ThreadOf[m]]
    <3>1. PICK k \in Lane : m \in batch[k][ThreadOf[m]]
      BY <2>2 DEF RunningRowsOwned
    <3> QED
      BY <1>3, <3>1, QueueAssumption
  <2> QED
    BY <2>1, <2>2 DEF RunningRowsOwned
<1> QED
  BY <1>5, <1>6, <1>7

(* The claim of one thread by a drain. *)
LEMMA OwnershipBegun ==
  ASSUME Ownership, TypeOK', NEW l \in Lane, NEW t \in Thread, NEW j,
         \A k \in Lane : phase[k][t] = "idle", Ready(t) # {},
         Begin(l, t, j), UNCHANGED <<proc, drain>>, Alive
  PROVE  Ownership'
<1>1. status \in [Msg -> Status] /\ \A m \in Ready(t) : status[m] = "pending"
  BY DEF Ready, Ownership, TypeOK, QueueTypeOK
<1>2. ASSUME NEW s \in {"pending", "done", "failed"}, status' = With(Ready(t), s)
      PROVE  \A m \in Msg : status'[m] = "running" <=> status[m] = "running"
  BY <1>1, <1>2 DEF With
<1>3. CASE JobMissing(Ready(t)) /\ Settle(l, t)
  <2>1. \E s \in {"pending", "done", "failed"} : status' = With(Ready(t), s)
    BY <1>3 DEF JobMissing, Complete, Defer
  <2> QED
    BY <1>2, <1>3, <2>1, OwnershipSkipped
<1>4. CASE Complete(Ready(t), "done", FALSE) /\ Settle(l, t)
  BY <1>2, <1>4, OwnershipSkipped DEF Complete
<1>5. CASE ClaimThread(Ready(t)) /\ Hold(l, t, "inspect")
  BY <1>5, OwnershipClaimed DEF Active
<1>6. CASE ClaimThread(Ready(t)) /\ Hold(l, t, IF j = ReviewJob THEN "review" ELSE "run")
  BY <1>6, OwnershipClaimed DEF Active
<1>7. CASE Settle(l, t) /\ UNCHANGED <<queueVars, misses>>
  BY <1>7, OwnershipSkipped DEF queueVars
<1> QED
  BY <1>3, <1>4, <1>5, <1>6, <1>7 DEF Begin

(* A thread with a ready job has a ready row. *)
LEMMA ReadyJobsRows == ASSUME NEW t, NEW j \in ReadyJobs(t) PROVE Ready(t) # {}
BY DEF ReadyJobs

(* Nothing runs and nobody holds a row when the daemon first starts. *)
LEMMA OwnershipInit == Init => Ownership
<1> SUFFICES ASSUME Init PROVE Ownership
  OBVIOUS
<1>1. TypeOK
  BY TypeInit
<1>2. /\ \A l \in Lane, t \in Thread : phase[l][t] = "idle" /\ batch[l][t] = {}
      /\ drain = "off" /\ ~Alive
  BY DEF Init, Alive
<1>3. "idle" \notin Active
  BY DEF Active
<1>4. NoWorkerWhenDown /\ OneBatchPerThread
  BY <1>2 DEF NoWorkerWhenDown, OneBatchPerThread, Lane
<1>5. RunningRowsOwned
  BY <1>2, <1>3 DEF RunningRowsOwned
<1> QED
  BY <1>1, <1>4, <1>5 DEF Ownership

(* Every step keeps running rows and batches in flight matched. *)
LEMMA OwnershipStep == Ownership /\ [Next]_vars => Ownership'
<1> SUFFICES ASSUME Ownership, [Next]_vars PROVE Ownership'
  OBVIOUS
<1>0. TypeOK /\ TypeOK' /\ status \in [Msg -> Status]
  BY TypeStep DEF Ownership, TypeOK, QueueTypeOK
<1>a. drain # "off" => Alive
  BY DEF Ownership, NoWorkerWhenDown
<1>b. /\ "model" \in Lane /\ "preflight" \in Lane
      /\ {"inspect", "run", "review", "handoff"} \subseteq Active
      /\ {"idle", "inspect", "run", "review", "handoff", "settled"} \subseteq Phase
      /\ Active \subseteq Phase
  BY DEF Lane, Active, Phase
<1>c. UNCHANGED <<status, phase, batch, proc, drain>> => Ownership'
  BY <1>0, <1>a, OwnershipUntouched DEF Alive
<1>d. \A l \in Lane, t \in Thread, s \in {"done", "failed"}, spendCap \in BOOLEAN :
        phase[l][t] \in Active /\ Complete(batch[l][t], s, spendCap) /\ Settle(l, t)
          /\ UNCHANGED <<proc, drain>> => Ownership'
  BY <1>0, OwnershipSettled DEF Complete
<1>e. \A l \in Lane, t \in Thread, countAttempt \in BOOLEAN :
        phase[l][t] \in Active /\ Defer(batch[l][t], countAttempt) /\ Settle(l, t)
          /\ UNCHANGED <<proc, drain>> => Ownership'
  BY <1>0, OwnershipSettled DEF Defer
<1>1. ASSUME NEW m \in Msg, NEW later \in BOOLEAN, EnqueueHook(m, later) PROVE Ownership'
  <2>1. \A n \in Msg : status'[n] = "running" <=> status[n] = "running"
    BY <1>0, <1>1 DEF EnqueueHook, Enqueue, With, queueVars
  <2>2. drain' = "off" \/ Alive'
    BY <1>1 DEF EnqueueHook, Kick, Alive, Ownership, TypeOK, WorkerTypeOK
  <2> QED
    BY <1>0, <1>1, <2>1, <2>2, OwnershipUntouched DEF EnqueueHook, Alive
<1>2. CASE Tick
  BY <1>0, <1>2, OwnershipUntouched DEF Tick, Alive, queueVars
<1>3. ASSUME NEW t \in Thread, DrainPreflight(t) PROVE Ownership'
  BY <1>0, <1>3, <1>a, <1>b, OwnershipBegun, ReadyJobsRows DEF DrainPreflight, PreflightThreads
<1>4. ASSUME NEW t \in Thread, DrainModel(t) PROVE Ownership'
  BY <1>0, <1>4, <1>a, <1>b, OwnershipBegun DEF DrainModel, ModelThreads
<1>5. CASE DrainAdmit
  BY <1>0, <1>5, <1>a, OwnershipUntouched DEF DrainAdmit, Alive, queueVars
<1>6. CASE DrainEnd
  BY <1>0, <1>6, <1>a, OwnershipUntouched DEF DrainEnd, Alive, queueVars
<1>7. ASSUME NEW t \in Thread, ModelStep(t) PROVE Ownership'
  <2>1. CASE RunSucceeds(t)
    <3>1. CASE phase' = [phase EXCEPT !["model"][t] = "handoff"] /\ UNCHANGED <<queueVars, batch>>
      BY <1>0, <1>b, <2>1, <3>1, OwnershipAdvanced DEF RunSucceeds, InBatch, queueVars
    <3>2. CASE Complete(batch["model"][t], "done", FALSE) /\ Settle("model", t)
      BY <1>b, <1>d, <2>1, <3>2 DEF RunSucceeds, InBatch
    <3> QED
      BY <2>1, <3>1, <3>2 DEF RunSucceeds
  <2>2. CASE HandoffEnds(t)
    BY <1>b, <1>d, <2>2 DEF HandoffEnds, InBatch
  <2>3. CASE RunFails(t)
    BY <1>b, <1>d, <1>e, <2>3 DEF RunFails, Running, InBatch
  <2>4. CASE RunRateLimited(t)
    BY <1>b, <1>e, <2>4 DEF RunRateLimited, Running, InBatch
  <2>5. CASE RunSpendStops(t)
    BY <1>b, <1>d, <2>5 DEF RunSpendStops, Running, InBatch
  <2> QED
    BY <1>7, <2>1, <2>2, <2>3, <2>4, <2>5 DEF ModelStep
<1>8. ASSUME NEW l \in Lane, NEW t \in Thread, BatchStep(l, t) PROVE Ownership'
  <2>1. CASE InspectResolves(l, t)
    BY <1>b, <1>d, <2>1 DEF InspectResolves, InBatch
  <2>2. CASE InspectPasses(l, t)
    <3>1. CASE l = "preflight"
      <4>1. \A m \in batch[l][t] : status[m] = "running"
        BY <1>b, <2>2 DEF InspectPasses, InBatch, Ownership, RunningRowsOwned
      <4>2. status' = With(batch[l][t], "pending")
        BY <2>2, <3>1, <4>1, <1>0 DEF InspectPasses, ReleaseClaim, With,
           Ownership, TypeOK, WorkerTypeOK
      <4> QED
        BY <1>0, <1>b, <2>2, <3>1, <4>2, OwnershipSettled DEF InspectPasses, InBatch
    <3>2. CASE l = "model"
      BY <1>0, <1>b, <2>2, <3>2, OwnershipAdvanced DEF InspectPasses, InBatch, queueVars
    <3> QED
      BY <3>1, <3>2 DEF Lane
  <2>3. CASE BatchThrows(l, t)
    BY <1>e, <2>3 DEF BatchThrows
  <2>4. CASE Finally(l, t)
    BY <1>0, <1>b, <2>4, OwnershipAdvanced DEF Finally, InBatch, queueVars
  <2> QED
    BY <1>8, <2>1, <2>2, <2>3, <2>4 DEF BatchStep
<1>9. CASE Environment
  <2>1. ASSUME NEW S \in SUBSET Msg, Replay(S) \/ Forget(S) \/ CveResolved(S) PROVE Ownership'
    <3>1. \A n \in Msg : status'[n] = "running" <=> status[n] = "running"
      BY <1>0, <2>1 DEF Replay, Forget, CveResolved, Requeue, Prune, ResolvePendingCve,
         Complete, With, Terminal
    <3> QED
      BY <1>0, <1>a, <2>1, <3>1, OwnershipUntouched DEF Replay, Forget, CveResolved, drainVars, Alive
  <2>2. CASE LimitEnds
    BY <1>c, <2>2 DEF LimitEnds, queueVars
  <2>3. CASE LimitStarts
    BY <1>c, <2>3 DEF LimitStarts, queueVars
  <2>4. CASE Reload
    BY <1>c, <2>4 DEF Reload, queueVars
  <2>5. ASSUME NEW m \in Msg, RowHoldEnds(m) PROVE Ownership'
    BY <1>c, <2>5 DEF RowHoldEnds, HoldEnds, drainVars
  <2>6. ASSUME NEW t \in Thread, MemoExpires(t) PROVE Ownership'
    BY <1>c, <2>6 DEF MemoExpires, queueVars
  <2> QED
    BY <1>9, <2>1, <2>2, <2>3, <2>4, <2>5, <2>6 DEF Environment
<1>10. CASE Process
  <2>1. CASE Terminate
    BY <1>0, <1>a, <2>1, OwnershipUntouched DEF Terminate, Alive, Quiet, queueVars
  <2>2. ASSUME Die PROVE Ownership'
    <3>1. /\ \A l \in Lane, t \in Thread : phase'[l][t] = "idle" /\ batch'[l][t] = {}
          /\ drain' = "off" /\ ~Alive'
      BY <2>2 DEF Die, Alive
    <3>2. "idle" \notin Active
      BY DEF Active
    <3>3. NoWorkerWhenDown' /\ OneBatchPerThread'
      BY <3>1 DEF NoWorkerWhenDown, OneBatchPerThread, Lane
    <3>4. RunningRowsOwned'
      BY <3>1, <3>2 DEF RunningRowsOwned
    <3> QED
      BY <1>0, <3>3, <3>4 DEF Ownership
  <2>3. CASE Crash \/ Exit
    BY <2>2, <2>3 DEF Crash, Exit
  <2>4. CASE Restart
    BY <1>0, <1>a, <2>4, OwnershipUntouched DEF Restart, Alive, queueVars
  <2>5. CASE Boot
    <3>1. \A m \in Msg : status'[m] # "running"
      BY <1>0, <2>5 DEF Boot, RequeueStuckRunning, With
    <3>2. \A l \in Lane, t \in Thread : phase'[l][t] = "idle" /\ batch'[l][t] = {}
      BY <2>5 DEF Boot, Ownership, NoWorkerWhenDown, RunningRowsOwned, Alive, Active
    <3>3. Alive'
      BY <2>5 DEF Boot, Alive
    <3>4. "idle" \notin Active
      BY DEF Active
    <3>5. NoWorkerWhenDown' /\ OneBatchPerThread'
      BY <3>2, <3>3 DEF NoWorkerWhenDown, OneBatchPerThread, Lane
    <3>6. RunningRowsOwned'
      BY <3>1, <3>2, <3>4 DEF RunningRowsOwned
    <3> QED
      BY <1>0, <3>5, <3>6 DEF Ownership
  <2> QED
    BY <1>10, <2>1, <2>3, <2>4, <2>5 DEF Process
<1>11. CASE UNCHANGED vars
  BY <1>c, <1>11 DEF vars, queueVars, drainVars
<1> QED
  BY <1>1, <1>2, <1>3, <1>4, <1>5, <1>6, <1>7, <1>8, <1>9, <1>10, <1>11 DEF Next, Drain

(* The inductive invariant of the two theorems below. *)
LEMMA OwnershipHolds == Spec => []Ownership
<1>1. QED
  BY OwnershipInit, OwnershipStep, PTL DEF Spec

(* Whatever interleaving of redeliveries, drains, callbacks, replays and   *)
(* kills: a running row belongs to a batch in flight of its own thread,    *)
(* and the rows of a batch in flight stay running until it settles them.   *)
THEOREM RunningRowsAlwaysOwned == Spec => []RunningRowsOwned
<1>1. Ownership => RunningRowsOwned
  BY DEF Ownership
<1>2. QED
  BY <1>1, OwnershipHolds, PTL

(* A thread is never worked on by two batches at the same time. *)
THEOREM ThreadsSerial == Spec => []OneBatchPerThread
<1>1. Ownership => OneBatchPerThread
  BY DEF Ownership
<1>2. QED
  BY <1>1, OwnershipHolds, PTL

-----------------------------------------------------------------------------
(* The retry budget of a delivery (P0-14).                                 *)

(* The column counts no failure the delivery did not have.  With it, the   *)
(* check of the row with the fewest attempts is a check of every row.      *)
RetriesCounted == \A m \in Msg : attempts[m] <= misses[m]

(* What a step may do to the rows' counts.  The rows of S go on, wait,      *)
(* succeed or are resolved, with nothing counted,                          *)
Goes(S, s) ==
  /\ status' = With(S, s) /\ UNCHANGED <<attempts, misses>>
  /\ spent \ S \subseteq spent'

(* are stopped by the spend cap,                                           *)
Stopped(S) ==
  /\ status' = With(S, "failed") /\ UNCHANGED <<attempts, misses>>
  /\ spent' = spent \cup S

(* start over,                                                             *)
StartsOver(S, s) ==
  /\ status' = With(S, s)
  /\ attempts' = [m \in Msg |-> IF m \in S THEN 0 ELSE attempts[m]]
  /\ misses' = Rearm(S) \/ UNCHANGED misses
  /\ spent \ S \subseteq spent'

(* fail and are retried, or fail and are given up.                         *)
Retried(S) == Defer(S, TRUE) /\ misses' = Miss(S)
GivenUp(S) == Complete(S, "failed", FALSE) /\ misses' = Miss(S)

(* The batch of a missing routine, one of whose rows is at the cap.        *)
Orphaned(S) ==
  \E t \in Thread : /\ S = Ready(t)
                    /\ \E m \in S : JobOf[m] \notin loaded
                    /\ \E m \in S : attempts[m] >= RetryCap

Counting ==
  \/ UNCHANGED <<status, attempts, spent, misses>>
  \/ \E S \in SUBSET Msg :
       \/ \E s \in Status \ {"failed"} : Goes(S, s) \/ StartsOver(S, s)
       \/ Retried(S) \/ Stopped(S)
       \/ GivenUp(S) /\ (Exhausted(S) \/ Orphaned(S))

(* The claim of a batch, and what settles at once. *)
LEMMA BeginCounts ==
  ASSUME TypeOK, NEW t \in Thread, NEW l, NEW j \in ReadyJobs(t), Begin(l, t, j)
  PROVE  Counting
<1>1. Ready(t) \in SUBSET Msg
  BY ReadyType
<1>2. CASE j \notin loaded /\ JobMissing(Ready(t))
  <2>1. CASE \E m \in Ready(t) : attempts[m] >= RetryCap
    <3>1. Orphaned(Ready(t))
      BY <1>2, <2>1 DEF Orphaned, ReadyJobs
    <3> QED
      BY <1>1, <1>2, <2>1, <3>1 DEF JobMissing, GivenUp, Counting
  <2>2. CASE ~ \E m \in Ready(t) : attempts[m] >= RetryCap
    BY <1>1, <1>2, <2>2 DEF JobMissing, Retried, Counting
  <2> QED
    BY <2>1, <2>2
<1>3. CASE Complete(Ready(t), "done", FALSE) /\ UNCHANGED misses
  <2>1. Goes(Ready(t), "done") /\ "done" \in Status \ {"failed"}
    BY <1>3 DEF Complete, Goes, Status
  <2> QED
    BY <1>1, <2>1 DEF Counting
<1>4. CASE ClaimThread(Ready(t)) /\ UNCHANGED misses
  <2>1. Goes(Ready(t), "running") /\ "running" \in Status \ {"failed"}
    BY <1>4 DEF ClaimThread, Goes, Status
  <2> QED
    BY <1>1, <2>1 DEF Counting
<1>5. CASE UNCHANGED <<queueVars, misses>>
  BY <1>5 DEF Counting, queueVars
<1> QED
  BY <1>2, <1>3, <1>4, <1>5 DEF Begin

(* There is nothing else any step does to them.                            *)
LEMMA StepCounts == TypeOK /\ [Next]_vars => Counting
<1> SUFFICES ASSUME TypeOK, [Next]_vars PROVE Counting
  OBVIOUS
<1>0. \A l \in Lane, t \in Thread : batch[l][t] \in SUBSET Msg
  BY DEF TypeOK, WorkerTypeOK
<1>a. {"pending", "running", "done", "absent"} \subseteq Status \ {"failed"}
  BY DEF Status
<1>b. UNCHANGED <<status, attempts, spent, misses>> => Counting
  BY DEF Counting
<1>c. ASSUME NEW S \in SUBSET Msg, NEW s \in Status \ {"failed"}, Goes(S, s) \/ StartsOver(S, s)
      PROVE  Counting
  BY <1>c DEF Counting
<1>d. ASSUME NEW S \in SUBSET Msg, Complete(S, "done", FALSE), UNCHANGED misses PROVE Counting
  BY <1>a, <1>c, <1>d DEF Complete, Goes
<1>e. ASSUME NEW S \in SUBSET Msg, Retried(S) \/ Stopped(S) \/ (GivenUp(S) /\ Exhausted(S))
      PROVE  Counting
  BY <1>e DEF Counting
<1>f. "model" \in Lane /\ "preflight" \in Lane
  BY DEF Lane
<1>1. ASSUME NEW m \in Msg, NEW later \in BOOLEAN, EnqueueHook(m, later) PROVE Counting
  <2>1. CASE status[m] = "absent"
    <3>1. attempts' = [n \in Msg |-> IF n \in {m} THEN 0 ELSE attempts[n]]
      BY <1>1, <2>1 DEF EnqueueHook, Enqueue, TypeOK, QueueTypeOK
    <3>2. StartsOver({m}, "pending")
      BY <1>1, <2>1, <3>1 DEF EnqueueHook, Enqueue, StartsOver
    <3> QED
      BY <1>a, <1>c, <3>2
  <2>2. CASE status[m] # "absent"
    BY <1>1, <1>b, <2>2 DEF EnqueueHook, Enqueue, queueVars
  <2> QED
    BY <2>1, <2>2
<1>2. CASE Tick
  BY <1>2, <1>b DEF Tick, queueVars
<1>4. ASSUME NEW t \in Thread, DrainPreflight(t) \/ DrainModel(t) PROVE Counting
  BY <1>4, BeginCounts DEF DrainPreflight, DrainModel
<1>6. CASE DrainAdmit \/ DrainEnd
  BY <1>6, <1>b DEF DrainAdmit, DrainEnd, queueVars
<1>7. ASSUME NEW t \in Thread, ModelStep(t) PROVE Counting
  <2>1. batch["model"][t] \in SUBSET Msg
    BY <1>0, <1>f
  <2>2. CASE RunSucceeds(t)
    BY <1>b, <1>d, <2>1, <2>2 DEF RunSucceeds, queueVars
  <2>3. CASE HandoffEnds(t)
    BY <1>d, <2>1, <2>3 DEF HandoffEnds
  <2>4. CASE RunFails(t)
    BY <1>e, <2>1, <2>4 DEF RunFails, Retried, GivenUp
  <2>5. CASE RunRateLimited(t)
    <3>1. Goes(batch["model"][t], "pending")
      BY <2>5 DEF RunRateLimited, Defer, Goes, TypeOK, QueueTypeOK
    <3> QED
      BY <1>a, <1>c, <2>1, <3>1
  <2>6. CASE RunSpendStops(t)
    BY <1>e, <2>1, <2>6 DEF RunSpendStops, Complete, Stopped
  <2> QED
    BY <1>7, <2>2, <2>3, <2>4, <2>5, <2>6 DEF ModelStep
<1>8. ASSUME NEW l \in Lane, NEW t \in Thread, BatchStep(l, t) PROVE Counting
  <2>1. batch[l][t] \in SUBSET Msg
    BY <1>0
  <2>2. CASE InspectResolves(l, t)
    BY <1>d, <2>1, <2>2 DEF InspectResolves
  <2>3. CASE InspectPasses(l, t)
    <3>1. CASE l = "preflight"
      <4> DEFINE rows == {m \in batch[l][t] : status[m] = "running"}
      <4>1. Goes(rows, "pending") /\ rows \in SUBSET Msg
        BY <2>1, <2>3, <3>1 DEF InspectPasses, ReleaseClaim, Goes
      <4> HIDE DEF rows
      <4> QED
        BY <1>a, <1>c, <4>1
    <3>2. CASE l # "preflight"
      BY <1>b, <2>3, <3>2 DEF InspectPasses, queueVars
    <3> QED
      BY <3>1, <3>2
  <2>4. CASE BatchThrows(l, t)
    BY <1>e, <2>1, <2>4 DEF BatchThrows, Retried
  <2>5. CASE Finally(l, t)
    BY <1>b, <2>5 DEF Finally, queueVars
  <2> QED
    BY <1>8, <2>2, <2>3, <2>4, <2>5 DEF BatchStep
<1>9. CASE Environment
  <2>1. ASSUME NEW S \in SUBSET Msg, Replay(S) \/ Forget(S) PROVE Counting
    <3> DEFINE rows == {m \in S : status[m] \in Terminal}
    <3>1. StartsOver(rows, "pending") \/ StartsOver(rows, "absent")
      BY <2>1 DEF Replay, Requeue, Forget, Prune, StartsOver
    <3>2. rows \in SUBSET Msg
      OBVIOUS
    <3> HIDE DEF rows
    <3> QED
      BY <1>a, <1>c, <3>1, <3>2
  <2>3. ASSUME NEW S \in SUBSET Msg, CveResolved(S) PROVE Counting
    <3>1. {m \in S : status[m] = "pending"} \in SUBSET Msg
      OBVIOUS
    <3> QED
      BY <1>d, <2>3, <3>1 DEF CveResolved, ResolvePendingCve, drainVars
  <2>4. CASE LimitEnds \/ LimitStarts \/ Reload
    BY <1>b, <2>4 DEF LimitEnds, LimitStarts, Reload, queueVars
  <2>5. ASSUME NEW m \in Msg, RowHoldEnds(m) PROVE Counting
    BY <1>b, <2>5 DEF RowHoldEnds, HoldEnds, drainVars
  <2>6. ASSUME NEW t \in Thread, MemoExpires(t) PROVE Counting
    BY <1>b, <2>6 DEF MemoExpires, queueVars
  <2> QED
    BY <1>9, <2>1, <2>3, <2>4, <2>5, <2>6 DEF Environment
<1>10. CASE Process
  <2>1. CASE Boot
    <3>1. Goes({m \in Msg : status[m] = "running"}, "pending")
      BY <2>1 DEF Boot, RequeueStuckRunning, Goes
    <3> QED
      BY <1>a, <1>c, <3>1
  <2>2. CASE Terminate \/ Crash \/ Exit \/ Restart
    BY <1>b, <2>2 DEF Terminate, Crash, Exit, Die, Restart, queueVars
  <2> QED
    BY <1>10, <2>1, <2>2 DEF Process
<1>11. CASE UNCHANGED vars
  BY <1>b, <1>11 DEF vars, queueVars, drainVars
<1> QED
  BY <1>1, <1>2, <1>4, <1>6, <1>7, <1>8, <1>9, <1>10, <1>11 DEF Next, Drain

(* The ranges of the counts, before and after a step. *)
LEMMA CountRanges ==
  ASSUME TypeOK, TypeOK'
  PROVE  /\ RetryCap \in Nat
         /\ status \in [Msg -> Status] /\ spent \subseteq Msg
         /\ attempts \in [Msg -> 0..RetryCap] /\ attempts' \in [Msg -> 0..RetryCap]
         /\ misses \in [Msg -> 0..(RetryCap + 1)] /\ misses' \in [Msg -> 0..(RetryCap + 1)]
  BY QueueAssumption DEF TypeOK, QueueTypeOK, WorkerTypeOK

(* So the column stays behind the failures,                                *)
LEMMA CountedKept ==
  ASSUME TypeOK, TypeOK', RetriesCounted, Counting
  PROVE  RetriesCounted'
<1>1. CASE UNCHANGED <<status, attempts, spent, misses>>
  BY <1>1 DEF RetriesCounted
<1>2. ASSUME NEW S \in SUBSET Msg,
             \/ \E s \in Status \ {"failed"} : Goes(S, s) \/ StartsOver(S, s)
             \/ Retried(S) \/ Stopped(S) \/ GivenUp(S)
      PROVE  RetriesCounted'
  <2> SUFFICES ASSUME NEW m \in Msg PROVE attempts'[m] <= misses'[m]
    BY DEF RetriesCounted
  <2>0. /\ attempts[m] \in 0..RetryCap /\ misses[m] \in 0..(RetryCap + 1)
        /\ misses'[m] \in 0..(RetryCap + 1) /\ RetryCap \in Nat
        /\ attempts[m] <= misses[m]
    BY CountRanges DEF RetriesCounted
  <2>1. CASE Stopped(S) \/ \E s \in Status \ {"failed"} : Goes(S, s)
    BY <2>0, <2>1 DEF Stopped, Goes
  <2>2. ASSUME NEW s, StartsOver(S, s) PROVE attempts'[m] <= misses'[m]
    BY <2>0, <2>2 DEF StartsOver, Rearm
  <2>3. CASE Retried(S) \/ GivenUp(S)
    <3>1. misses'[m] = IF m \in S /\ misses[m] <= RetryCap THEN misses[m] + 1 ELSE misses[m]
      BY <2>3 DEF Retried, GivenUp, Miss
    <3>2. attempts'[m] = attempts[m] \/ (m \in S /\ attempts'[m] = Counted(attempts[m]))
      BY <2>3 DEF Retried, GivenUp, Defer, Complete
    <3> QED
      BY <2>0, <3>1, <3>2 DEF Counted
  <2> QED
    BY <1>2, <2>1, <2>2, <2>3
<1> QED
  BY <1>1, <1>2 DEF Counting

(* and of the deliveries given up in a step only those of an orphaned      *)
(* batch have failures left.                                               *)
LEMMA GivenUpHow ==
  ASSUME TypeOK, TypeOK', RetriesCounted, Counting, NEW m \in Msg,
         status[m] # "failed", status'[m] = "failed", m \notin spent'
  PROVE  \/ misses'[m] > RetryCap
         \/ \E t \in Thread : /\ m \in Ready(t)
                              /\ \E k \in Ready(t) : JobOf[k] \notin loaded
                              /\ \E k \in Ready(t) : misses'[k] > RetryCap
<1>1. PICK S \in SUBSET Msg : m \in S /\ GivenUp(S) /\ (Exhausted(S) \/ Orphaned(S))
  BY DEF Counting, Goes, StartsOver, Retried, Stopped, GivenUp, Complete, Defer, With,
         TypeOK, QueueTypeOK
<1>2. \A k \in S : attempts[k] >= RetryCap => misses'[k] > RetryCap
  BY <1>1, CountRanges DEF GivenUp, Miss, RetriesCounted
<1>3. CASE Exhausted(S)
  BY <1>1, <1>2, <1>3 DEF Exhausted
<1>4. CASE Orphaned(S)
  BY <1>1, <1>2, <1>4 DEF Orphaned
<1> QED
  BY <1>1, <1>3, <1>4

LEMMA RetriesCountedHolds == Spec => [](TypeOK /\ RetriesCounted)
<1>1. Init => TypeOK /\ RetriesCounted
  BY TypeInit, QueueAssumption DEF Init, QueueInit, RetriesCounted
<1>2. TypeOK /\ RetriesCounted /\ [Next]_vars => (TypeOK /\ RetriesCounted)'
  BY TypeStep, StepCounts, CountedKept
<1> QED
  BY <1>1, <1>2, PTL DEF Spec

(* Whatever goes missing and comes back, a delivery with failures left is  *)
(* given up only in a batch one of whose routines is not loaded and one of *)
(* whose rows has none left.                                               *)
THEOREM GivenUpEarly == Spec => GivenUpEarlyOnlyIfMissing
<1>1. TypeOK /\ RetriesCounted /\ [Next]_vars =>
        [\A m \in Msg : status[m] # "failed" /\ status'[m] = "failed" /\ m \notin spent' =>
           \/ misses'[m] > RetryCap
           \/ \E t \in Thread :
                /\ m \in Ready(t)
                /\ \E k \in Ready(t) : JobOf[k] \notin loaded
                /\ \E k \in Ready(t) : misses'[k] > RetryCap]_vars
  <2> SUFFICES ASSUME TypeOK, RetriesCounted, [Next]_vars, NEW m \in Msg,
                      status[m] # "failed", status'[m] = "failed", m \notin spent'
               PROVE  \/ misses'[m] > RetryCap
                      \/ \E t \in Thread :
                           /\ m \in Ready(t)
                           /\ \E k \in Ready(t) : JobOf[k] \notin loaded
                           /\ \E k \in Ready(t) : misses'[k] > RetryCap
    OBVIOUS
  <2> QED
    BY TypeStep, StepCounts, GivenUpHow
<1> QED
  BY <1>1, RetriesCountedHolds, PTL DEF Spec, GivenUpEarlyOnlyIfMissing

(* A delivery given up keeps its failures.                                 *)
LEMMA BudgetStep ==
  TypeOK /\ RetriesCounted /\ GivenUpAfterOwnRetries /\ loaded = Job /\ [Next]_vars
    => GivenUpAfterOwnRetries'
<1> SUFFICES ASSUME TypeOK, RetriesCounted, GivenUpAfterOwnRetries, loaded = Job, [Next]_vars,
                    NEW m \in Msg, status'[m] = "failed", m \notin spent'
             PROVE  misses'[m] > RetryCap
  BY DEF GivenUpAfterOwnRetries
<1>0. TypeOK' /\ Counting
  BY TypeStep, StepCounts
<1>1. \A t \in Thread : \A k \in Ready(t) : JobOf[k] \in loaded
  BY DrainAssumption DEF Ready
<1>2. CASE status[m] # "failed"
  BY <1>0, <1>1, <1>2, GivenUpHow
<1>3. CASE status[m] = "failed" /\ UNCHANGED <<status, attempts, spent, misses>>
  BY <1>3 DEF GivenUpAfterOwnRetries
<1>4. ASSUME status[m] = "failed", NEW S \in SUBSET Msg,
             \/ \E s \in Status \ {"failed"} : Goes(S, s) \/ StartsOver(S, s)
             \/ Retried(S) \/ Stopped(S)
             \/ GivenUp(S) /\ (Exhausted(S) \/ Orphaned(S))
      PROVE  misses'[m] > RetryCap
  <2>1. CASE m \notin S
    <3>1. misses[m] > RetryCap
      BY <1>4, <2>1
         DEF Goes, StartsOver, Retried, Stopped, GivenUp, Complete, Defer, GivenUpAfterOwnRetries
    <3>2. misses'[m] = misses[m]
      BY <1>4, <2>1 DEF Goes, StartsOver, Retried, Stopped, GivenUp, Miss, Rearm
    <3> QED
      BY <3>1, <3>2
  <2>2. CASE m \in S
    <3>1. GivenUp(S) /\ Exhausted(S)
      BY <1>1, <1>4, <2>2
         DEF Goes, StartsOver, Retried, Stopped, Defer, With, Orphaned
    <3> QED
      BY <1>0, <2>2, <3>1, CountRanges DEF GivenUp, Exhausted, Miss, RetriesCounted
  <2> QED
    BY <2>1, <2>2
<1> QED
  BY <1>0, <1>2, <1>3, <1>4 DEF Counting

(* As long as no routine is missing when its batch is claimed, a delivery  *)
(* is given up only after more than RetryCap failures of its own, whatever *)
(* older messages it is coalesced with and however often capacity ran out  *)
(* (P0-14, hookQueue.ts:582-587).  The hypothesis is needed: a batch whose *)
(* routine is missing fails by the highest count among its messages.       *)
THEOREM GivenUpLate == Spec /\ [](loaded = Job) => []GivenUpAfterOwnRetries
<1>1. Init => GivenUpAfterOwnRetries
  BY DEF Init, QueueInit, GivenUpAfterOwnRetries
<1> QED
  BY <1>1, BudgetStep, RetriesCountedHolds, PTL DEF Spec

-----------------------------------------------------------------------------
(* The two pools.                                                          *)

(* What a drain admitted still fits beside the batches in flight. *)
Pools ==
  /\ TypeOK
  /\ PoolBounds
  /\ drain = "model" => Cardinality(InLane("model")) + slots <= MaxDrains

(* The pools are finite, so their sizes are numbers, before and after. *)
LEMMA LaneFinite ==
  ASSUME NEW l
  PROVE  /\ IsFiniteSet(InLane(l)) /\ Cardinality(InLane(l)) \in Nat
         /\ IsFiniteSet(InLane(l)') /\ Cardinality(InLane(l)') \in Nat
<1>1. IsFiniteSet(Thread) /\ InLane(l) \subseteq Thread /\ InLane(l)' \subseteq Thread
  BY QueueAssumption DEF InLane
<1> QED
  BY <1>1, FS_Subset, FS_CardinalityType

(* A step that starts no batch keeps both pools within their bounds. *)
LEMMA PoolsNotGrown ==
  ASSUME Pools, TypeOK', drain' # "model",
         \A l \in Lane, t \in Thread : phase[l][t] = "idle" => phase'[l][t] = "idle"
  PROVE  Pools'
<1>1. ASSUME NEW l \in Lane PROVE Cardinality(InLane(l)') <= Cardinality(InLane(l))
  <2>1. InLane(l)' \subseteq InLane(l)
    BY DEF InLane
  <2> QED
    BY <2>1, LaneFinite, FS_Subset
<1>2. PoolBounds'
  BY <1>1, LaneFinite, DrainAssumption DEF Pools, PoolBounds, Lane
<1> QED
  BY <1>2 DEF Pools

(* A drain starts a batch of a thread nobody works on. *)
LEMMA PoolGrows ==
  ASSUME TypeOK, NEW l \in Lane, NEW t \in Thread, NEW j, phase[l][t] = "idle", Begin(l, t, j)
  PROVE  /\ Cardinality(InLane(l)') = Cardinality(InLane(l)) + 1
         /\ \A k \in Lane : k # l => InLane(k)' = InLane(k)
<1>1. phase \in [Lane -> [Thread -> Phase]]
  BY DEF TypeOK, WorkerTypeOK
<1>2. \E ph \in Phase \ {"idle"} : phase' = [phase EXCEPT ![l][t] = ph]
  <2>1. CASE Settle(l, t)
    BY <2>1 DEF Settle, Phase
  <2>2. CASE Hold(l, t, "inspect")
    BY <2>2 DEF Hold, Phase, Active
  <2>3. CASE Hold(l, t, IF j = ReviewJob THEN "review" ELSE "run")
    <3>1. (IF j = ReviewJob THEN "review" ELSE "run") \in Phase \ {"idle"}
      BY DEF Phase, Active
    <3> QED
      BY <2>3, <3>1 DEF Hold
  <2> QED
    BY <2>1, <2>2, <2>3 DEF Begin
<1>3. InLane(l)' = InLane(l) \cup {t} /\ t \notin InLane(l)
  BY <1>1, <1>2 DEF InLane
<1>4. \A k \in Lane : k # l => InLane(k)' = InLane(k)
  BY <1>1, <1>2 DEF InLane
<1> QED
  BY <1>3, <1>4, LaneFinite, FS_AddElement

(* Every step keeps the pools within their bounds and a drain within the  *)
(* room it computed.                                                       *)
LEMMA PoolsStep == Pools /\ Ownership /\ [Next]_vars => Pools'
<1> SUFFICES ASSUME Pools, Ownership, [Next]_vars PROVE Pools'
  OBVIOUS
<1>0. TypeOK /\ TypeOK' /\ phase \in [Lane -> [Thread -> Phase]]
  BY TypeStep DEF Pools, TypeOK, WorkerTypeOK
<1>a. "model" \in Lane /\ "preflight" \in Lane /\ "idle" \notin Active \cup {"settled"}
  BY DEF Lane, Active
<1>b. UNCHANGED phase /\ drain' # "model" => Pools'
  BY <1>0, PoolsNotGrown
<1>c. \A l \in Lane, t \in Thread : \A ph :
        phase[l][t] # "idle" /\ phase' = [phase EXCEPT ![l][t] = ph] /\ drain' # "model" => Pools'
  BY <1>0, PoolsNotGrown
<1>1. ASSUME NEW m \in Msg, NEW later \in BOOLEAN, EnqueueHook(m, later) PROVE Pools'
  BY <1>b, <1>1 DEF EnqueueHook, Kick
<1>2. CASE Tick
  BY <1>b, <1>2 DEF Tick
<1>3. ASSUME NEW t \in Thread, DrainPreflight(t) PROVE Pools'
  <2>1. phase["preflight"][t] = "idle" /\ Cardinality(InLane("preflight")) < MaxPreflights
    BY <1>3, <1>a DEF DrainPreflight, PreflightThreads, PreflightRoom
  <2>2. /\ Cardinality(InLane("preflight")') = Cardinality(InLane("preflight")) + 1
        /\ InLane("model")' = InLane("model")
    BY <1>0, <1>3, <1>a, <2>1, PoolGrows DEF DrainPreflight
  <2>3. PoolBounds'
    BY <2>1, <2>2, LaneFinite, DrainAssumption DEF PoolBounds, Pools
  <2> QED
    BY <1>0, <1>3, <2>3 DEF Pools, DrainPreflight
<1>4. ASSUME NEW t \in Thread, DrainModel(t) PROVE Pools'
  <2>1. phase["model"][t] = "idle"
    BY <1>4, <1>a DEF DrainModel, ModelThreads
  <2>2. /\ Cardinality(InLane("model")') = Cardinality(InLane("model")) + 1
        /\ InLane("preflight")' = InLane("preflight")
    BY <1>0, <1>4, <1>a, <2>1, PoolGrows DEF DrainModel
  <2>3. /\ slots' = slots - 1 /\ slots \in Nat /\ slots > 0
        /\ Cardinality(InLane("model")) + slots <= MaxDrains
    BY <1>0, <1>4, DrainAssumption DEF DrainModel, Pools, TypeOK, WorkerTypeOK
  <2>4. PoolBounds'
    BY <2>2, <2>3, LaneFinite, DrainAssumption DEF PoolBounds, Pools
  <2> QED
    BY <1>0, <2>2, <2>3, <2>4, LaneFinite, DrainAssumption DEF Pools
<1>5. CASE DrainAdmit
  <2>1. CASE drain' # "model"
    BY <1>5, <1>b, <2>1 DEF DrainAdmit
  <2>2. CASE drain' = "model"
    <3>1. slots' \in Capacity /\ InLane("model")' = InLane("model")
          /\ InLane("preflight")' = InLane("preflight")
      BY <1>5, <2>2 DEF DrainAdmit, InLane
    <3>2. Cardinality(InLane("model")) + slots' <= MaxDrains
      BY <3>1, LaneFinite, DrainAssumption DEF Capacity, Pools, PoolBounds
    <3> QED
      BY <1>0, <3>1, <3>2 DEF Pools, PoolBounds
  <2> QED
    BY <2>1, <2>2
<1>6. CASE DrainEnd
  BY <1>6, <1>b DEF DrainEnd
<1>7. ASSUME NEW t \in Thread, ModelStep(t) PROVE Pools'
  <2>1. phase["model"][t] # "idle" /\ drain' = "off"
    BY <1>7 DEF ModelStep, RunSucceeds, HandoffEnds, RunFails, RunRateLimited, RunSpendStops,
       Running, InBatch, Quiet
  <2>2. \E ph : phase' = [phase EXCEPT !["model"][t] = ph]
    BY <1>7 DEF ModelStep, RunSucceeds, HandoffEnds, RunFails, RunRateLimited, RunSpendStops, Settle
  <2> QED
    BY <1>a, <1>c, <2>1, <2>2
<1>8. ASSUME NEW l \in Lane, NEW t \in Thread, BatchStep(l, t) PROVE Pools'
  <2>1. phase[l][t] # "idle" /\ drain' # "model"
    BY <1>8, <1>a DEF BatchStep, InspectResolves, InspectPasses, BatchThrows, Finally, InBatch, Quiet, Kick
  <2>2. \E ph : phase' = [phase EXCEPT ![l][t] = ph]
    BY <1>8 DEF BatchStep, InspectResolves, InspectPasses, BatchThrows, Finally, Settle
  <2> QED
    BY <1>c, <2>1, <2>2
<1>9. CASE Environment
  BY <1>9, <1>b DEF Environment, Replay, Forget, CveResolved, LimitEnds, LimitStarts, Reload,
     RowHoldEnds, MemoExpires, drainVars, Quiet
<1>10. CASE Process
  <2>1. CASE Crash \/ Exit
    <3>1. drain' = "off" /\ \A l \in Lane, t \in Thread : phase'[l][t] = "idle"
      BY <2>1 DEF Crash, Exit, Die
    <3> QED
      BY <1>0, <3>1, PoolsNotGrown
  <2>2. CASE Terminate \/ Boot
    BY <1>b, <2>2 DEF Terminate, Boot, Quiet
  <2>3. CASE Restart
    BY <1>b, <2>3 DEF Restart, Ownership, NoWorkerWhenDown, Alive
  <2> QED
    BY <1>10, <2>1, <2>2, <2>3 DEF Process
<1>11. CASE UNCHANGED vars
  <2>1. UNCHANGED <<phase, drain, slots>> /\ UNCHANGED <<InLane("model"), InLane("preflight")>>
    BY <1>11 DEF vars, drainVars, InLane
  <2> QED
    BY <1>0, <2>1 DEF Pools, PoolBounds
<1> QED
  BY <1>1, <1>2, <1>3, <1>4, <1>5, <1>6, <1>7, <1>8, <1>9, <1>10, <1>11 DEF Next, Drain

(* Never more than MaxDrains model batches or MaxPreflights inspections,   *)
(* for pools of any size: the bound that keeps a backlog from exhausting   *)
(* the memory of the pod when a hold lifts (start.ts:1995-2003).           *)
THEOREM PoolsBounded == Spec => []PoolBounds
<1>1. Init => Pools
  <2> SUFFICES ASSUME Init PROVE Pools
    OBVIOUS
  <2>1. TypeOK
    BY TypeInit
  <2>2. InLane("model") = {} /\ InLane("preflight") = {} /\ drain = "off"
    BY DEF Init, InLane, Lane
  <2>3. Cardinality({}) = 0
    BY FS_EmptySet
  <2> QED
    BY <2>1, <2>2, <2>3, DrainAssumption DEF Pools, PoolBounds
<1>2. Pools => PoolBounds
  BY DEF Pools
<1>3. QED
  BY <1>1, <1>2, PoolsStep, OwnershipHolds, PTL DEF Spec

-----------------------------------------------------------------------------
(* The drain implements SerialDelivery.                                    *)

(* The mapping tells the five words of the column apart. *)
LEMMA SeenStates ==
  ASSUME status \in [Msg -> Status]
  PROVE  \A m \in Msg :
           /\ DeliveryState[m] = "absent"  <=> status[m] = "absent"
           /\ DeliveryState[m] = "waiting" <=> status[m] = "pending"
           /\ DeliveryState[m] = "working" <=> status[m] = "running"
           /\ DeliveryState[m] = "done"    <=> status[m] = "done"
           /\ DeliveryState[m] = "failed"  <=> status[m] = "failed"
BY DEF DeliveryState, Seen, Status

(* Setting the status of some rows moves exactly those deliveries. *)
LEMMA SeenWith ==
  ASSUME NEW S, NEW s, status' = With(S, s)
  PROVE  Delivery!Becomes(S, Seen(s))
BY DEF With, DeliveryState, Delivery!Becomes

(* The mapping, word by word. *)
LEMMA SeenWords ==
  /\ Seen("pending") = "waiting" /\ Seen("running") = "working"
  /\ Seen("done") = "done" /\ Seen("failed") = "failed" /\ Seen("absent") = "absent"
BY DEF Seen

(* The batch in flight of a thread is the thread's working set; a thread   *)
(* nobody works on has none.                                               *)
LEMMA WorkingIsBatch ==
  ASSUME Ownership, NEW t \in Thread, Alive
  PROVE  /\ \A l \in Lane : phase[l][t] \in Active =>
              Delivery!Working(t) = batch[l][t] /\ batch[l][t] # {}
         /\ (\A l \in Lane : phase[l][t] = "idle") => Delivery!Working(t) = {}
<1>0. /\ status \in [Msg -> Status]
      /\ batch \in [Lane -> [Thread -> SUBSET Msg]]
  BY DEF Ownership, TypeOK, QueueTypeOK, WorkerTypeOK
<1>1. Delivery!Working(t) = {m \in Msg : status[m] = "running" /\ ThreadOf[m] = t}
  BY <1>0, SeenStates DEF Delivery!Working, Delivery!In
<1>2. ASSUME NEW l \in Lane, phase[l][t] \in Active
      PROVE  Delivery!Working(t) = batch[l][t] /\ batch[l][t] # {}
  <2>1. /\ batch[l][t] # {}
        /\ \A m \in batch[l][t] : ThreadOf[m] = t /\ status[m] = "running"
    BY <1>2 DEF Ownership, RunningRowsOwned
  <2>2. \A k \in Lane : k # l => batch[k][t] = {}
    BY <1>2 DEF Ownership, OneBatchPerThread, RunningRowsOwned, Lane, Active
  <2>3. \A m \in Msg : status[m] = "running" /\ ThreadOf[m] = t => m \in batch[l][t]
    BY <2>2 DEF Ownership, RunningRowsOwned
  <2> QED
    BY <1>0, <1>1, <2>1, <2>3
<1>3. ASSUME \A l \in Lane : phase[l][t] = "idle" PROVE Delivery!Working(t) = {}
  <2>1. \A l \in Lane : batch[l][t] = {}
    BY <1>3 DEF Ownership, RunningRowsOwned, Active
  <2> QED
    BY <1>1, <2>1 DEF Ownership, RunningRowsOwned
<1> QED
  BY <1>2, <1>3

(* A batch in flight that finishes or defers its rows settles its thread. *)
LEMMA DeliverySettles ==
  ASSUME Ownership, NEW l \in Lane, NEW t \in Thread, Alive, phase[l][t] \in Active,
         NEW s \in {"pending", "done", "failed"}, status' = With(batch[l][t], s)
  PROVE  Delivery!Next
<1>1. Delivery!Settle(t, Seen(s))
  BY WorkingIsBatch, SeenWith DEF Delivery!Settle
<1>2. Seen(s) \in {"done", "failed", "waiting"}
  BY SeenWords
<1> QED
  BY <1>1, <1>2 DEF Delivery!Next

(* A claim starts the thread's waiting deliveries, dismisses them, or is   *)
(* invisible.                                                              *)
LEMMA DeliveryBegins ==
  ASSUME Ownership, NEW l \in Lane, NEW t \in Thread, NEW j, Alive,
         \A k \in Lane : phase[k][t] = "idle", Ready(t) # {}, Begin(l, t, j)
  PROVE  Delivery!Next \/ UNCHANGED DeliveryState
<1>1. /\ status \in [Msg -> Status]
      /\ \A m \in Ready(t) : m \in Msg /\ status[m] = "pending" /\ ThreadOf[m] = t
  BY DEF Ready, Ownership, TypeOK, QueueTypeOK
<1>2. Ready(t) \in SUBSET Delivery!In({"waiting"})
  BY <1>1, SeenStates DEF Delivery!In
<1>3. ASSUME ClaimThread(Ready(t)) PROVE Delivery!Next
  <2>1. Delivery!Start(t, Ready(t))
    BY <1>1, <1>3, WorkingIsBatch, SeenWith, SeenWords DEF ClaimThread, Delivery!Start
  <2> QED
    BY <1>2, <2>1 DEF Delivery!Next
<1>4. ASSUME NEW s \in {"done", "failed"}, status' = With(Ready(t), s) PROVE Delivery!Next
  <2>1. Delivery!Dismiss(Ready(t), s)
    BY <1>4, SeenWith, SeenWords DEF Delivery!Dismiss
  <2> QED
    BY <1>2, <2>1 DEF Delivery!Next
<1>5. ASSUME status' = With(Ready(t), "pending") PROVE UNCHANGED DeliveryState
  BY <1>1, <1>5 DEF With, DeliveryState
<1>6. UNCHANGED queueVars => UNCHANGED DeliveryState
  BY DEF queueVars, DeliveryState
<1> QED
  BY <1>3, <1>4, <1>5, <1>6 DEF Begin, JobMissing, Complete, Defer

(* Every step of the drain is a step of serial delivery or invisible. *)
LEMMA DeliveryStep == Ownership /\ [Next]_vars => [Delivery!Next]_DeliveryState
<1> SUFFICES ASSUME Ownership, [Next]_vars PROVE Delivery!Next \/ UNCHANGED DeliveryState
  OBVIOUS
<1>0. status \in [Msg -> Status] /\ (drain # "off" => Alive)
  BY DEF Ownership, TypeOK, QueueTypeOK, NoWorkerWhenDown
<1>a. "model" \in Lane /\ "preflight" \in Lane
      /\ {"inspect", "run", "review", "handoff"} \subseteq Active
  BY DEF Lane, Active
<1>b. UNCHANGED status => UNCHANGED DeliveryState
  BY DEF DeliveryState
<1>c. \A l \in Lane, t \in Thread, s \in {"done", "failed"}, spendCap \in BOOLEAN :
        Alive /\ phase[l][t] \in Active /\ Complete(batch[l][t], s, spendCap) => Delivery!Next
  BY DeliverySettles DEF Complete
<1>d. \A l \in Lane, t \in Thread, countAttempt \in BOOLEAN :
        Alive /\ phase[l][t] \in Active /\ Defer(batch[l][t], countAttempt) => Delivery!Next
  BY DeliverySettles DEF Defer
<1>1. ASSUME NEW m \in Msg, NEW later \in BOOLEAN, EnqueueHook(m, later)
      PROVE  Delivery!Next \/ UNCHANGED DeliveryState
  <2>1. CASE status[m] = "absent"
    <3>1. Delivery!Accept(m)
      BY <1>0, <1>1, <2>1, SeenStates, SeenWith, SeenWords
         DEF EnqueueHook, Enqueue, Delivery!Accept, Delivery!In
    <3> QED
      BY <3>1 DEF Delivery!Next
  <2>2. CASE status[m] # "absent"
    BY <1>1, <1>b, <2>2 DEF EnqueueHook, Enqueue, queueVars
  <2> QED
    BY <2>1, <2>2
<1>2. CASE Tick
  BY <1>2, <1>b DEF Tick, queueVars
<1>3. ASSUME NEW t \in Thread, DrainPreflight(t) PROVE Delivery!Next \/ UNCHANGED DeliveryState
  BY <1>0, <1>3, <1>a, DeliveryBegins, ReadyJobsRows DEF DrainPreflight, PreflightThreads
<1>4. ASSUME NEW t \in Thread, DrainModel(t) PROVE Delivery!Next \/ UNCHANGED DeliveryState
  BY <1>0, <1>4, <1>a, DeliveryBegins DEF DrainModel, ModelThreads
<1>5. CASE DrainAdmit \/ DrainEnd
  BY <1>5, <1>b DEF DrainAdmit, DrainEnd, queueVars
<1>6. ASSUME NEW t \in Thread, ModelStep(t) PROVE Delivery!Next \/ UNCHANGED DeliveryState
  <2>1. CASE RunSucceeds(t)
    BY <1>a, <1>b, <1>c, <2>1 DEF RunSucceeds, InBatch, queueVars
  <2>2. CASE HandoffEnds(t)
    BY <1>a, <1>c, <2>2 DEF HandoffEnds, InBatch
  <2>3. CASE RunFails(t)
    BY <1>a, <1>c, <1>d, <2>3 DEF RunFails, Running, InBatch
  <2>4. CASE RunRateLimited(t)
    BY <1>a, <1>d, <2>4 DEF RunRateLimited, Running, InBatch
  <2>5. CASE RunSpendStops(t)
    BY <1>a, <1>c, <2>5 DEF RunSpendStops, Running, InBatch
  <2> QED
    BY <1>6, <2>1, <2>2, <2>3, <2>4, <2>5 DEF ModelStep
<1>7. ASSUME NEW l \in Lane, NEW t \in Thread, BatchStep(l, t)
      PROVE  Delivery!Next \/ UNCHANGED DeliveryState
  <2>1. CASE InspectResolves(l, t)
    BY <1>a, <1>c, <2>1 DEF InspectResolves, InBatch
  <2>2. CASE InspectPasses(l, t)
    <3>1. CASE l = "preflight"
      <4>1. /\ \A m \in batch[l][t] : status[m] = "running"
            /\ batch[l][t] \in SUBSET Msg
        BY <1>a, <2>2 DEF InspectPasses, InBatch, Ownership, RunningRowsOwned, TypeOK, WorkerTypeOK
      <4>2. status' = With(batch[l][t], "pending")
        BY <2>2, <3>1, <4>1 DEF InspectPasses, ReleaseClaim, With
      <4> QED
        BY <1>a, <2>2, <4>2, DeliverySettles DEF InspectPasses, InBatch
    <3>2. CASE l # "preflight"
      BY <1>b, <2>2, <3>2 DEF InspectPasses, queueVars
    <3> QED
      BY <3>1, <3>2
  <2>3. CASE BatchThrows(l, t)
    BY <1>d, <2>3 DEF BatchThrows
  <2>4. CASE Finally(l, t)
    BY <1>b, <2>4 DEF Finally, queueVars
  <2> QED
    BY <1>7, <2>1, <2>2, <2>3, <2>4 DEF BatchStep
<1>8. CASE Environment
  <2>1. ASSUME NEW S \in SUBSET Msg, Replay(S) \/ Forget(S) PROVE Delivery!Next
    <3> DEFINE rows == {m \in S : status[m] \in Terminal}
    <3>1. rows \in SUBSET Delivery!In({"done", "failed"}) /\ rows # {}
      BY <1>0, <2>1, SeenStates DEF Replay, Forget, Terminal, Delivery!In
    <3>2. CASE Replay(S)
      <4>1. faults'["replay"] # faults["replay"]
        BY <1>0, <3>2 DEF Replay, Spend, Ownership, TypeOK, WorkerTypeOK, Fault
      <4>2. Delivery!Replay(rows)
        BY <3>1, <3>2, <4>1, SeenWith, SeenWords DEF Replay, Requeue, Delivery!Replay
      <4> QED
        BY <3>1, <4>2 DEF Delivery!Next
    <3>3. CASE Forget(S)
      <4>1. Delivery!Forget(rows)
        BY <3>1, <3>3, SeenWith, SeenWords DEF Forget, Prune, Delivery!Forget
      <4> QED
        BY <3>1, <4>1 DEF Delivery!Next
    <3> QED
      BY <2>1, <3>2, <3>3
  <2>2. ASSUME NEW S \in SUBSET Msg, CveResolved(S) PROVE Delivery!Next
    <3> DEFINE rows == {m \in S : status[m] = "pending"}
    <3>1. rows \in SUBSET Delivery!In({"waiting"}) /\ rows # {}
      BY <1>0, <2>2, SeenStates DEF CveResolved, Delivery!In
    <3>2. Delivery!Dismiss(rows, "done")
      BY <2>2, <3>1, SeenWith, SeenWords DEF CveResolved, ResolvePendingCve, Complete, Delivery!Dismiss
    <3> QED
      BY <3>1, <3>2 DEF Delivery!Next
  <2>3. CASE LimitEnds \/ LimitStarts \/ Reload
    BY <1>b, <2>3 DEF LimitEnds, LimitStarts, Reload, queueVars
  <2>4. ASSUME NEW m \in Msg, RowHoldEnds(m) PROVE UNCHANGED DeliveryState
    BY <1>b, <2>4 DEF RowHoldEnds, HoldEnds
  <2>5. ASSUME NEW t \in Thread, MemoExpires(t) PROVE UNCHANGED DeliveryState
    BY <1>b, <2>5 DEF MemoExpires, queueVars
  <2> QED
    BY <1>8, <2>1, <2>2, <2>3, <2>4, <2>5 DEF Environment
<1>9. CASE Process
  <2>1. CASE Boot
    <3> DEFINE rows == {m \in Msg : status[m] = "running"}
    <3>1. rows = Delivery!In({"working"})
      BY <1>0, SeenStates DEF Delivery!In
    <3>2. Delivery!Becomes(rows, "waiting")
      BY <2>1, SeenWith, SeenWords DEF Boot, RequeueStuckRunning
    <3>3. CASE rows = {}
      BY <1>0, <2>1, <3>3, <1>b DEF Boot, RequeueStuckRunning, With
    <3>4. CASE rows # {}
      BY <3>1, <3>2, <3>4 DEF Delivery!Recover, Delivery!Next
    <3> QED
      BY <3>3, <3>4
  <2>2. CASE Terminate \/ Crash \/ Exit \/ Restart
    BY <1>b, <2>2 DEF Terminate, Crash, Exit, Die, Restart, queueVars
  <2> QED
    BY <1>9, <2>1, <2>2 DEF Process
<1>10. CASE UNCHANGED vars
  BY <1>b, <1>10 DEF vars, queueVars
<1> QED
  BY <1>1, <1>2, <1>3, <1>4, <1>5, <1>6, <1>7, <1>8, <1>9, <1>10 DEF Next, Drain

(* The drain worker implements SerialDelivery: every step of it is a step  *)
(* of the abstract queue or invisible to its callers.                      *)
THEOREM DrainImplementsSerialDelivery == Spec => ImplementsSerialDelivery
<1>1. Init => Delivery!Init
  BY DEF Init, QueueInit, DeliveryState, Seen, Delivery!Init
<1>2. QED
  BY <1>1, OwnershipHolds, DeliveryStep, PTL DEF Spec, ImplementsSerialDelivery, Delivery!Spec
=============================================================================
