------------------------------ MODULE HookDrain ------------------------------
(***************************************************************************)
(* The hook drain worker of the daemon (errandd/app/commands/start.ts):    *)
(* enqueueHook, drainHookQueue, runQueuedBatch, the boot replay and the    *)
(* SIGTERM shutdown, over the rows of module HookQueue.                    *)
(*                                                                         *)
(* The daemon is one event loop, so a step here is the code between two    *)
(* awaits.  drainHookQueue itself never awaits; it is unrolled into steps  *)
(* that run while `drain` is not "off", and every other step of the live   *)
(* process requires drain = "off" (Quiet).  Only a kill can come between.  *)
(*                                                                         *)
(* The environment (crashes, provider limits, failed reads, routine        *)
(* reloads, replays, pruning, spend stops, SIGTERM) is bounded by Budget,  *)
(* one allowance per kind of trouble, and by Rivals.                       *)
(***************************************************************************)
EXTENDS HookQueue

CONSTANTS
  Job,            \* routine names
  JobOf,          \* the routine each delivery was matched to (`job_name`)
  ReviewJob,      \* "pr-review", whose batches are inspected on GitHub first
  Rank,           \* hookJobPriority: 0 = cve, 1 = small, 2 = big
  Continuation,   \* the deliveries whose event is "cve:continue"
  MaxDrains,      \* MAX_CONCURRENT_HOOK_DRAINS
  MaxPreflights,  \* MAX_CONCURRENT_REVIEW_PREFLIGHTS
  LoadBased,      \* ERRANDD_HOOK_LOAD_BASED
  Budget,         \* how often each kind of trouble may strike
  Rivals          \* kinds of trouble of which only one may strike

Fault == {"crash", "sigterm", "limit", "throw", "reload", "replay", "prune", "spend"}

ASSUME DrainAssumption ==
  /\ JobOf \in [Msg -> Job]
  /\ Rank \in [Job -> 0..2]
  /\ Continuation \subseteq Msg
  /\ MaxDrains \in Nat \ {0}
  /\ MaxPreflights \in Nat \ {0}
  /\ LoadBased \in BOOLEAN
  /\ Budget \in [Fault -> Nat]

VARIABLES
  proc,       \* the process: "down", "booting", "up", "stopping" (shuttingDown)
  drain,      \* where the synchronous drainHookQueue is: "off", "preflight", "model"
  slots,      \* model batches this drain may still admit (limit - active - selected)
  phase,      \* phase[l][t]: where the batch of thread t in lane l is; "idle" = no entry
              \* in drainingThreads (lane "model") or preflightingThreads ("preflight")
  batch,      \* batch[l][t]: the ids runQueuedBatch holds
  inspected,  \* preflightAttempts: the ready rows the last preflight of a thread saw
  limited,    \* isRateLimited()
  loaded,     \* currentJobs
  faults,     \* what is left of Budget
  misses      \* history: counted failures of a delivery since it was (re-)armed

drainVars == <<proc, drain, slots, phase, batch, inspected, limited, loaded, faults, misses>>
vars == <<queueVars, drainVars>>

Lane   == {"model", "preflight"}
Active == {"inspect", "run", "review", "handoff"}
Phase  == Active \cup {"idle", "settled"}

Init ==
  /\ QueueInit
  /\ proc = "booting"
  /\ drain = "off"
  /\ slots = 0
  /\ phase = [l \in Lane |-> [t \in Thread |-> "idle"]]
  /\ batch = [l \in Lane |-> [t \in Thread |-> {}]]
  /\ inspected = [t \in Thread |-> {}]
  /\ limited = FALSE
  /\ loaded = Job
  /\ faults = Budget
  /\ misses = [m \in Msg |-> 0]

WorkerTypeOK ==
  /\ proc \in {"down", "booting", "up", "stopping"}
  /\ drain \in {"off", "preflight", "model"}
  /\ slots \in 0..MaxDrains
  /\ phase \in [Lane -> [Thread -> Phase]]
  /\ batch \in [Lane -> [Thread -> SUBSET Msg]]
  /\ inspected \in [Thread -> SUBSET Msg]
  /\ limited \in BOOLEAN
  /\ loaded \subseteq Job
  /\ faults \in [Fault -> Nat]
  /\ misses \in [Msg -> 0..(RetryCap + 1)]

(* Every variable stays in its range; in particular the column status,     *)
(* which the table does not constrain, holds one of its four words.        *)
TypeOK == QueueTypeOK /\ WorkerTypeOK

-----------------------------------------------------------------------------
(* Helpers.                                                                *)

Alive == proc \in {"up", "stopping"}
Quiet == drain = "off"

Spend(f) ==
  /\ faults[f] > 0
  /\ f \in Rivals => \A g \in Rivals \ {f} : faults[g] = Budget[g]
  /\ faults' = [faults EXCEPT ![f] = @ - 1]

InLane(l) == {t \in Thread : phase[l][t] # "idle"}

Miss(S) == [m \in Msg |-> IF m \in S /\ misses[m] <= RetryCap
                          THEN misses[m] + 1 ELSE misses[m]]
Rearm(S) == [m \in Msg |-> IF m \in S THEN 0 ELSE misses[m]]

(* The class of a routine that is not loaded is "big". *)
Priority(j) == IF j \in loaded THEN Rank[j] ELSE 2

(* readyThreads reports the job_name of one ready row of the thread. *)
ReadyJobs(t) == {JobOf[m] : m \in Ready(t)}

(* A deferral moves not_before, which is part of the preflight_version: a  *)
(* memo of the rows deferred by this step no longer matches.               *)
StillInspected ==
  [t \in Thread |-> IF inspected[t] \cap (held' \ held) = {} THEN inspected[t] ELSE {}]

(* The `.finally` of a batch waits in phase "settled". *)
Settle(l, t) ==
  /\ phase' = [phase EXCEPT ![l][t] = "settled"]
  /\ batch' = [batch EXCEPT ![l][t] = {}]

Hold(l, t, ph) ==
  /\ phase' = [phase EXCEPT ![l][t] = ph]
  /\ batch' = [batch EXCEPT ![l][t] = Ready(t)]

-----------------------------------------------------------------------------
(* What a drain could claim.                                               *)

(* selectReviewPreflightThreads: review threads nobody works on, unless    *)
(* the same rows were inspected a moment ago.                              *)
PreflightThreads ==
  {t \in Thread : /\ ReviewJob \in ReadyJobs(t)
                  /\ \A l \in Lane : phase[l][t] = "idle"
                  /\ inspected[t] # Ready(t)}

PreflightRoom == ReviewJob \in loaded /\ Cardinality(InLane("preflight")) < MaxPreflights

(* Slip: the pool is refilled to the ceiling without counting what runs. *)
CapacityIgnoringActive ==
  IF LoadBased /\ Cardinality(InLane("model")) < MaxDrains THEN {0, 1} ELSE {MaxDrains}

(* hookModelAdmission.capacity minus the batches in flight: the rest of    *)
(* the pool, or at most one batch when admission follows the load.         *)
Capacity ==
  LET room == MaxDrains - Cardinality(InLane("model"))
  IN  IF room <= 0 THEN {0} ELSE IF LoadBased THEN {0, 1} ELSE {room}

(* Slip: a thread under inspection is claimed for a model run too. *)
ModelThreadsPreflightIgnored == {t \in Thread : Ready(t) # {} /\ phase["model"][t] = "idle"}

ModelThreads ==
  {t \in Thread : Ready(t) # {} /\ \A l \in Lane : phase[l][t] = "idle"}

(* Slip: the provider hold is tested before the model-free inspections. *)
DrainWorkGated ==
  ~limited /\ \/ PreflightRoom /\ PreflightThreads # {}
              \/ Capacity # {0} /\ ModelThreads # {}

(* A drain that would claim nothing changes nothing: it is a stutter, and  *)
(* is not taken as a step.                                                 *)
DrainWork ==
  \/ PreflightRoom /\ PreflightThreads # {}
  \/ ~limited /\ Capacity # {0} /\ ModelThreads # {}

(* A call of drainHookQueue at the end of a step; before the state of the  *)
(* drain exists (booting) it throws, the caller swallows that, and the row *)
(* is left to the first drain after boot.                                  *)
Kick == drain' = IF proc # "booting" /\ DrainWork' THEN "preflight" ELSE "off"

-----------------------------------------------------------------------------
(* Intake.                                                                 *)

(* enqueueHook: a matched delivery of a loaded routine is persisted, then  *)
(* the drain is kicked in the same step.  A known id only kicks.           *)
EnqueueHook(m, later) ==
  /\ Quiet /\ proc # "down"
  /\ JobOf[m] \in loaded
  /\ Enqueue(m, later)
  /\ misses' = IF status[m] = "absent" THEN Rearm({m}) ELSE misses
  /\ UNCHANGED <<proc, slots, phase, batch, inspected, limited, loaded, faults>>
  /\ Kick

-----------------------------------------------------------------------------
(* drainHookQueue.                                                         *)

(* The 3 s interval; shutdown clears it. *)
Tick ==
  /\ proc = "up" /\ Quiet
  /\ DrainWork
  /\ drain' = "preflight"
  /\ UNCHANGED <<queueVars, proc, slots, phase, batch, inspected, limited, loaded, faults, misses>>

(* The routine is not in currentJobs: back off, or give up on the whole    *)
(* batch once its most tried row is at the cap.                            *)
JobMissing(S) ==
  /\ IF \E m \in S : attempts[m] >= RetryCap
     THEN Complete(S, "failed", FALSE)
     ELSE Defer(S, TRUE)
  /\ misses' = Miss(S)

(* claimThread and the part of runQueuedBatch before its first await, for  *)
(* a batch whose oldest row names routine j.  Where the batch settles at   *)
(* once, the claim is overwritten in the same step.                        *)
Begin(l, t, j) ==
  \/ /\ j \notin loaded
     /\ JobMissing(Ready(t))
     /\ Settle(l, t)
  \/ /\ j \in loaded
     /\ Ready(t) \subseteq Continuation       \* and no remediation plan is left
     /\ Complete(Ready(t), "done", FALSE)
     /\ Settle(l, t)
     /\ UNCHANGED misses
  \/ /\ j \in loaded
     /\ j = ReviewJob                         \* with a pull request to look at
     /\ ClaimThread(Ready(t))
     /\ Hold(l, t, "inspect")
     /\ UNCHANGED misses
  \/ /\ j \in loaded
     /\ l = "model"
     /\ ClaimThread(Ready(t))
     /\ Hold(l, t, IF j = ReviewJob THEN "review" ELSE "run")
     /\ UNCHANGED misses
  \/ /\ j \in loaded
     /\ l = "preflight"                       \* nothing to inspect: released at once
     /\ Settle(l, t)
     /\ UNCHANGED <<queueVars, misses>>

DrainPreflight(t) ==
  /\ drain = "preflight"
  /\ PreflightRoom
  /\ t \in PreflightThreads
  /\ \E j \in ReadyJobs(t) : Begin("preflight", t, j)
  /\ inspected' = [inspected EXCEPT ![t] = Ready(t) \ held']
  /\ UNCHANGED <<proc, drain, slots, limited, loaded, faults>>

(* The preflight loop is done; model batches start only outside a hold. *)
DrainAdmit ==
  /\ drain = "preflight"
  /\ ~(PreflightRoom /\ PreflightThreads # {})
  /\ IF limited
     THEN drain' = "off" /\ UNCHANGED slots
     ELSE drain' = "model" /\ slots' \in Capacity
  /\ UNCHANGED <<queueVars, proc, phase, batch, inspected, limited, loaded, faults, misses>>

(* selectHookThreads in priority mode: every thread drainHookQueue passes  *)
(* carries a class, and a class is served only when no better one waits.   *)
(* The order within a class is module HookScheduling's subject.            *)
Preferred(t) ==
  \E j \in ReadyJobs(t) : \A u \in ModelThreads \ {t} :
    \E k \in ReadyJobs(u) : Priority(j) <= Priority(k)

DrainModel(t) ==
  /\ drain = "model" /\ slots > 0
  /\ t \in ModelThreads /\ Preferred(t)
  /\ \E j \in ReadyJobs(t) : Begin("model", t, j)
  /\ slots' = slots - 1
  /\ inspected' = StillInspected
  /\ UNCHANGED <<proc, drain, limited, loaded, faults>>

DrainEnd ==
  /\ drain = "model"
  /\ slots = 0 \/ ModelThreads = {}
  /\ drain' = "off"
  /\ slots' = 0
  /\ UNCHANGED <<queueVars, proc, phase, batch, inspected, limited, loaded, faults, misses>>

-----------------------------------------------------------------------------
(* runQueuedBatch after its first await.                                   *)

InBatch(l, t, ph) == Alive /\ Quiet /\ phase[l][t] = ph

(* fetchReviewPreflight found a reason: published, no model call. *)
InspectResolves(l, t) ==
  /\ InBatch(l, t, "inspect")
  /\ Complete(batch[l][t], "done", FALSE)
  /\ Settle(l, t)
  /\ UNCHANGED <<proc, drain, slots, inspected, limited, loaded, faults, misses>>

(* No reason: a preflight gives its claim back, a model batch goes on. *)
InspectPasses(l, t) ==
  /\ InBatch(l, t, "inspect")
  /\ IF l = "preflight"
     THEN ReleaseClaim(batch[l][t]) /\ Settle(l, t)
     ELSE /\ phase' = [phase EXCEPT ![l][t] = "review"]
          /\ UNCHANGED <<queueVars, batch>>
  /\ UNCHANGED <<proc, drain, slots, inspected, limited, loaded, faults, misses>>

(* Exit 0 without a limit message.  A clean model run lifts the hold, a    *)
(* command run does not; an answered review goes on to the merge handoff.  *)
RunSucceeds(t) ==
  /\ \/ /\ InBatch("model", t, "review")
        /\ phase' = [phase EXCEPT !["model"][t] = "handoff"]
        /\ UNCHANGED <<queueVars, batch>>
     \/ /\ InBatch("model", t, "run") \/ InBatch("model", t, "review")
        /\ Complete(batch["model"][t], "done", FALSE)
        /\ Settle("model", t)
  /\ limited' \in {limited, FALSE}
  /\ UNCHANGED <<proc, drain, slots, inspected, loaded, faults, misses>>

HandoffEnds(t) ==
  /\ InBatch("model", t, "handoff")
  /\ Complete(batch["model"][t], "done", FALSE)
  /\ Settle("model", t)
  /\ UNCHANGED <<proc, drain, slots, inspected, limited, loaded, faults, misses>>

Running(t) == InBatch("model", t, "run") \/ InBatch("model", t, "review")

(* Slip: the cap is read from the most tried row (P0-14). *)
ExhaustedByMax(S) == \E m \in S : attempts[m] >= RetryCap

(* nextQueueAction's cap check, on the row with the fewest attempts. *)
Exhausted(S) == \A m \in S : attempts[m] >= RetryCap

(* Any other exit code. *)
RunFails(t) ==
  LET S == batch["model"][t] IN
  /\ Running(t)
  /\ IF Exhausted(S) THEN Complete(S, "failed", FALSE) ELSE Defer(S, TRUE)
  /\ Settle("model", t)
  /\ misses' = Miss(S)
  /\ inspected' = StillInspected
  /\ UNCHANGED <<proc, drain, slots, limited, loaded, faults>>

(* A capacity message in the output.  A budgeted run returns before        *)
(* recordRateLimit, so the hold is not always set.                         *)
RunRateLimited(t) ==
  /\ Running(t)
  /\ Spend("limit")
  /\ Defer(batch["model"][t], FALSE)
  /\ Settle("model", t)
  /\ limited' \in {limited, TRUE}
  /\ inspected' = StillInspected
  /\ UNCHANGED <<proc, drain, slots, loaded, misses>>

(* BUDGET_STOP_EXIT_CODE: terminal at once. *)
RunSpendStops(t) ==
  /\ Running(t)
  /\ Spend("spend")
  /\ Complete(batch["model"][t], "failed", TRUE)
  /\ Settle("model", t)
  /\ UNCHANGED <<proc, drain, slots, inspected, limited, loaded, misses>>

(* Anything thrown after the claim (a GitHub read, a session write, the    *)
(* handoff) lands in the catch: the rows are deferred and counted, with    *)
(* no cap, even when the model run itself had succeeded.                   *)
BatchThrows(l, t) ==
  /\ Alive /\ Quiet
  /\ phase[l][t] \in Active
  /\ Spend("throw")
  /\ Defer(batch[l][t], TRUE)
  /\ Settle(l, t)
  /\ misses' = Miss(batch[l][t])
  /\ inspected' = StillInspected
  /\ UNCHANGED <<proc, drain, slots, limited, loaded>>

(* The `.finally`: the thread is free again; after a preflight the drain   *)
(* runs at once, even while shutting down.                                 *)
Finally(l, t) ==
  /\ InBatch(l, t, "settled")
  /\ phase' = [phase EXCEPT ![l][t] = "idle"]
  /\ UNCHANGED <<queueVars, proc, slots, batch, inspected, limited, loaded, faults, misses>>
  /\ IF l = "preflight" THEN Kick ELSE UNCHANGED drain

-----------------------------------------------------------------------------
(* Other writers of the rows and of the environment.                       *)

(* The dashboard's retrigger: flips rows, kicks nothing. *)
Replay(S) ==
  /\ Quiet /\ proc # "down"
  /\ \E m \in S : status[m] \in Terminal
  /\ Spend("replay")
  /\ Requeue(S)
  /\ misses' = Rearm({m \in S : status[m] \in Terminal})
  /\ UNCHANGED <<proc, drain, slots, phase, batch, inspected, limited, loaded>>

(* The hourly cleanup.  A pruned id is forgotten: a late redelivery is new. *)
Forget(S) ==
  /\ Quiet /\ proc = "up"
  /\ \E m \in S : status[m] \in Terminal
  /\ Spend("prune")
  /\ Prune(S)
  /\ UNCHANGED <<proc, drain, slots, phase, batch, inspected, limited, loaded, misses>>

(* An advisory was resolved, or its continuation became obsolete. *)
CveResolved(S) ==
  /\ Quiet /\ Alive
  /\ S \subseteq {m \in Msg : Rank[JobOf[m]] = 0}
  /\ \E m \in S : status[m] = "pending"
  /\ ResolvePendingCve(S)
  /\ UNCHANGED drainVars

(* A hold of a row, the five-minute preflight memo, the provider hold. *)
RowHoldEnds(m) == Quiet /\ HoldEnds(m) /\ UNCHANGED drainVars

MemoExpires(t) ==
  /\ Alive /\ Quiet
  /\ inspected[t] # {} /\ phase["preflight"][t] = "idle"
  /\ inspected' = [inspected EXCEPT ![t] = {}]
  /\ UNCHANGED <<queueVars, proc, drain, slots, phase, batch, limited, loaded, faults, misses>>

LimitEnds ==
  /\ Quiet /\ limited
  /\ limited' = FALSE
  /\ UNCHANGED <<queueVars, proc, drain, slots, phase, batch, inspected, loaded, faults, misses>>

(* A chat or cron run elsewhere in the process meets the limit. *)
LimitStarts ==
  /\ Alive /\ Quiet /\ ~limited
  /\ Spend("limit")
  /\ limited' = TRUE
  /\ UNCHANGED <<queueVars, proc, drain, slots, phase, batch, inspected, loaded, misses>>

(* currentJobs is reloaded while the jobs repository is being synced. *)
Reload ==
  /\ Alive /\ Quiet
  /\ \/ loaded # Job /\ loaded' = Job /\ UNCHANGED faults
     \/ \E j \in loaded : loaded' = loaded \ {j} /\ Spend("reload")
  /\ UNCHANGED <<queueVars, proc, drain, slots, phase, batch, inspected, limited, misses>>

-----------------------------------------------------------------------------
(* The process.                                                            *)

(* SIGTERM: the intervals are cleared; the event loop goes on until the    *)
(* runs in flight end or the deadline passes, whichever is first.          *)
Terminate ==
  /\ proc = "up" /\ Quiet
  /\ Spend("sigterm")
  /\ proc' = "stopping"
  /\ UNCHANGED <<queueVars, drain, slots, phase, batch, inspected, limited, loaded, misses>>

(* Everything but the rows is gone. *)
Die ==
  /\ proc' = "down"
  /\ drain' = "off" /\ slots' = 0
  /\ phase' = [l \in Lane |-> [t \in Thread |-> "idle"]]
  /\ batch' = [l \in Lane |-> [t \in Thread |-> {}]]
  /\ inspected' = [t \in Thread |-> {}]
  /\ limited' = FALSE
  /\ loaded' = Job
  /\ UNCHANGED <<queueVars, misses>>

Crash == proc # "down" /\ Spend("crash") /\ Die

(* process.exit at the end of shutdown. *)
Exit == proc = "stopping" /\ Quiet /\ Die /\ UNCHANGED faults

(* The web server answers from here on, before the drain state exists. *)
Restart ==
  /\ proc = "down"
  /\ proc' = "booting"
  /\ UNCHANGED <<queueVars, drain, slots, phase, batch, inspected, limited, loaded, faults, misses>>

(* The end of startup: replay, then the first drain, without an await. *)
Boot ==
  /\ proc = "booting" /\ Quiet
  /\ RequeueStuckRunning
  /\ proc' = "up"
  /\ UNCHANGED <<slots, phase, batch, inspected, limited, loaded, faults, misses>>
  /\ drain' = IF DrainWork' THEN "preflight" ELSE "off"

-----------------------------------------------------------------------------
Drain ==
  \/ \E t \in Thread : DrainPreflight(t) \/ DrainModel(t)
  \/ DrainAdmit \/ DrainEnd

ModelStep(t) ==
  \/ RunSucceeds(t) \/ HandoffEnds(t) \/ RunFails(t)
  \/ RunRateLimited(t) \/ RunSpendStops(t)

BatchStep(l, t) ==
  \/ InspectResolves(l, t) \/ InspectPasses(l, t)
  \/ BatchThrows(l, t) \/ Finally(l, t)

Environment ==
  \/ \E S \in SUBSET Msg : Replay(S) \/ Forget(S) \/ CveResolved(S)
  \/ LimitEnds \/ LimitStarts \/ Reload
  \/ \E m \in Msg : RowHoldEnds(m)
  \/ \E t \in Thread : MemoExpires(t)

Process == Terminate \/ Crash \/ Exit \/ Restart \/ Boot

Next ==
  \/ \E m \in Msg, later \in BOOLEAN : EnqueueHook(m, later)
  \/ Tick
  \/ Drain
  \/ \E t \in Thread : ModelStep(t)
  \/ \E l \in Lane, t \in Thread : BatchStep(l, t)
  \/ Environment
  \/ Process

Spec == Init /\ [][Next]_vars

-----------------------------------------------------------------------------
(* Safety.                                                                 *)

(* Every row marked running belongs to exactly one batch in flight of its  *)
(* own thread, and the rows of a batch in flight stay running until that   *)
(* batch settles them, whatever redeliveries, replays, resolutions, prunes *)
(* and kills do meanwhile.  complete and defer rely on it: neither looks   *)
(* at the status it overwrites, and a running row no batch holds would     *)
(* wait for the next restart (start.ts, hookQueue.ts).                     *)
RunningRowsOwned ==
  /\ \A l \in Lane, t \in Thread :
       IF phase[l][t] \in Active
       THEN /\ batch[l][t] # {}
            /\ \A m \in batch[l][t] : ThreadOf[m] = t /\ status[m] = "running"
       ELSE batch[l][t] = {}
  /\ Alive => \A m \in Msg : status[m] = "running" =>
                 \E l \in Lane : m \in batch[l][ThreadOf[m]]

(* A thread is never worked on twice at the same time: not by two model    *)
(* runs resuming one session, and not by a review inspection beside a run  *)
(* (drainingThreads and preflightingThreads stay disjoint).                *)
OneBatchPerThread ==
  \A t \in Thread : phase["model"][t] = "idle" \/ phase["preflight"][t] = "idle"

(* At most MaxDrains model batches and MaxPreflights inspections are in    *)
(* flight, however drains, kicks and admissions interleave.                *)
PoolBounds ==
  /\ Cardinality(InLane("model")) <= MaxDrains
  /\ Cardinality(InLane("preflight")) <= MaxPreflights

(* A delivery is given up only after it failed RetryCap times itself and   *)
(* then once more, or at the spend cap: brand-new work coalesced with an   *)
(* old message is not failed by the old one's count (hookQueue.ts:582-587, *)
(* P0-14), and capacity holds are not counted.                             *)
GivenUpAfterOwnRetries ==
  \A m \in Msg : status[m] = "failed" /\ m \notin spent => misses[m] > RetryCap

(* The same of every step, missing routines included: a delivery that is   *)
(* given up sooner shares its batch with one that is not, and a routine of *)
(* the batch is not loaded at the time (start.ts:2022).                    *)
GivenUpEarlyOnlyIfMissing ==
  [][\A m \in Msg : status[m] # "failed" /\ status'[m] = "failed" /\ m \notin spent' =>
       \/ misses'[m] > RetryCap
       \/ \E t \in Thread :
            /\ m \in Ready(t)
            /\ \E k \in Ready(t) : JobOf[k] \notin loaded
            /\ \E k \in Ready(t) : misses'[k] > RetryCap]_vars

(* What the comment on shutdown promises (start.ts:680-682): no new run is *)
(* started while the daemon drains.  It does not hold (README).            *)
NoNewRunsWhileStopping ==
  [][\A t \in Thread : proc = "stopping" /\ phase["model"][t] = "idle"
       => phase'["model"][t] \notin {"run", "review"}]_vars

-----------------------------------------------------------------------------
(* What the queue promises its callers: module SerialDelivery.             *)

(* A row as the callers of the queue see it. *)
Seen(s) == CASE s = "pending" -> "waiting" [] s = "running" -> "working" [] OTHER -> s

DeliveryState == [m \in Msg |-> Seen(status[m])]

Delivery == INSTANCE SerialDelivery WITH
  state <- DeliveryState,
  asked <- faults["replay"]    \* one less with every replay, and with nothing else

(* The drain implements serial delivery: a thread's deliveries are worked  *)
(* on in batches, one at a time; a batch settles as a unit and takes       *)
(* nothing along that arrived after it was claimed; a finished delivery    *)
(* comes back only by a replay or after pruning, never by being delivered  *)
(* again.                                                                  *)
ImplementsSerialDelivery == Delivery!Spec

-----------------------------------------------------------------------------
(* Liveness.                                                               *)

(* The interval fires, a drain on the stack runs to its end, every batch   *)
(* proceeds (the watchdog and the timeouts end a run), holds end, and the  *)
(* supervisor restarts a process that ended.  A callback is ready only     *)
(* between drains, so the event loop's promise to take it in its turn is   *)
(* strong fairness.                                                        *)
EventLoop ==
  /\ WF_vars(Drain)
  /\ WF_vars(Boot)
  /\ WF_vars(Restart)
  /\ SF_vars(Exit)
  /\ SF_vars(Tick)
  /\ \A m \in Msg : SF_vars(RowHoldEnds(m))

(* The next step of a batch, whatever its outcome. *)
Progress(l, t) ==
  \/ InspectResolves(l, t) \/ InspectPasses(l, t) \/ Finally(l, t)
  \/ l = "model" /\ (RunSucceeds(t) \/ RunFails(t) \/ HandoffEnds(t))

Batches(l) == \A t \in Thread : SF_vars(Progress(l, t))

(* Model runs that never end, under a provider hold that never ends.       *)
StuckModelsSpec == Spec /\ EventLoop /\ Batches("preflight")

(* Every persisted delivery is eventually finished, across crashes,        *)
(* reloads and provider holds: no order of drains, memos and preflights    *)
(* starves it, and none leaves it running for good.                        *)
EveryDeliverySettles ==
  \A m \in Msg : (status[m] = "pending") ~> (status[m] \in Terminal \cup {"absent"})

(* That needs model runs that end, as the runner's time limit sees to, and *)
(* holds that end.                                                         *)
SettlesIfRunsEnd ==
  Batches("model") /\ SF_vars(LimitEnds) => EveryDeliverySettles

(* A review waiting behind no batch of its own thread is inspected even    *)
(* when every model slot is taken for good and the provider hold never     *)
(* lifts: model-free work does not wait for model capacity (README).  The  *)
(* process may stop first, or the routine be removed.                      *)
ReviewsInspectedRegardless ==
  \A t \in Thread :
    (/\ Alive /\ ReviewJob \in loaded
     /\ ReviewJob \in ReadyJobs(t) /\ \A l \in Lane : phase[l][t] = "idle")
      ~> \/ inspected[t] # {}
         \/ phase["model"][t] # "idle"
         \/ ReviewJob \notin ReadyJobs(t) \cap loaded
         \/ ~Alive
=============================================================================
