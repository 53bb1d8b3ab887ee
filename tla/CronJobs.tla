------------------------------ MODULE CronJobs ------------------------------
(***************************************************************************)
(* One routine and the runs of it (errandd/app/commands/start.ts runJob,   *)
(* runJobNow and the minute tick; jobs.ts): its cron schedule, its retries *)
(* after failures, the snapshot of its file's frontmatter that every run   *)
(* puts back, and the schedule of a one-shot routine that is cleared when  *)
(* it is through.  Runs of one routine may overlap.                        *)
(*                                                                         *)
(* They start and end as runs of RateLimit: the tick asks isRateLimited()  *)
(* before it starts one, a run by hand does not, and what they meet at the *)
(* provider moves the hold.  All runs are the routine's: one of another    *)
(* routine, of a chat or a hook would move the hold the same way.          *)
(***************************************************************************)
EXTENDS RateLimit

CONSTANTS
  MaxRetry,   \* bound: `retry` of a routine
  MaxFlights, \* bound: runs of the routine in flight at once
  MaxEdits    \* bound: edits, crashes, failed writes, refusals

ASSUME CronAssumption ==
  /\ MaxRetry \in Nat /\ MaxEdits \in Nat
  /\ MaxFlights \in Nat \ {0}

Flight == 1..MaxFlights
Routine == [recurring : BOOLEAN, hooked : BOOLEAN, retry : 0..MaxRetry]

VARIABLES
  routine,    \* recurring, has hook triggers, retry
  file,       \* its file has `schedule` entries
  loaded,     \* currentJobs has them
  failCount,  \* jobRetryState: failures so far,
  retryAt,    \*   and its time: "none" without an entry, "later", "due", or
              \*   "never", the sentinel of a retry in flight
  flight,     \* its runs
  meant,      \* history: the schedule as set by hand or cleared
  fired,      \* history: retries fired since the entry was made
  done,       \* history: a run came to its end since the boot or an edit
  spoiled,    \* history: a snapshot or a restore went wrong
  edits

entry == <<failCount, retryAt>>
jobHistory == <<meant, fired, done, spoiled>>
jobVars == <<routine, file, loaded, entry, flight, jobHistory, edits>>
cronVars == <<vars, jobVars>>

Off == [at |-> "off", by |-> "tick", tries |-> 0, saved |-> FALSE, exit |-> "ok"]
Run ==
  [at : {"off", "starting", "running", "over", "clearing"}, by : {"tick", "retry", "hand"},
   tries : 0..MaxRetry, saved : BOOLEAN, exit : {"ok", "error", "thrown"}]

CronTypeOK ==
  /\ TypeOK
  /\ routine \in Routine
  /\ file \in BOOLEAN /\ loaded \in BOOLEAN
  /\ failCount \in 0..MaxRetry /\ retryAt \in {"none", "later", "due", "never"}
  /\ flight \in [Flight -> Run]
  /\ meant \in BOOLEAN /\ done \in BOOLEAN /\ spoiled \in BOOLEAN
  /\ fired \in Nat /\ edits \in 0..MaxEdits

CronInit ==
  /\ Init
  /\ routine \in Routine
  /\ file = TRUE /\ loaded = TRUE
  /\ failCount = 0 /\ retryAt = "none"
  /\ flight = [f \in Flight |-> Off]
  /\ meant = TRUE /\ fired = 0 /\ done = FALSE /\ spoiled = FALSE
  /\ edits = 0

Edit == edits < MaxEdits /\ edits' = edits + 1

-----------------------------------------------------------------------------
InFlight == {f \in Flight : flight[f].at # "off"}
Free(f) == f \notin InFlight /\ \A g \in Flight \ InFlight : f <= g

Launched(f, by, tries) ==
  flight' = [flight EXCEPT ![f] =
    [at |-> "starting", by |-> by, tries |-> tries, saved |-> FALSE, exit |-> "ok"]]

Asked(f) == flight[f].by # "hand"

(* loadJobs leaves out a routine with neither schedule nor hook triggers.  *)
Known == loaded \/ routine.hooked

(* Slip: the retry stays due while it is in flight. *)
RetryFiresUnmarked(f) ==
  /\ Known /\ retryAt = "due"
  /\ Free(f)
  /\ fired' = fired + 1
  /\ Start /\ Launched(f, "retry", routine.retry)
  /\ UNCHANGED <<routine, file, loaded, entry, meant, done, spoiled, edits>>

(* The tick finds the retry due: it is marked as in flight, and run.       *)
RetryFires(f) ==
  /\ Known /\ retryAt = "due"
  /\ Free(f)
  /\ retryAt' = "never" /\ fired' = fired + 1
  /\ Start /\ Launched(f, "retry", routine.retry)
  /\ UNCHANGED <<routine, file, loaded, failCount, meant, done, spoiled, edits>>

(* The tick finds the schedule to match, and no retry due.                 *)
CronFires(f) ==
  /\ loaded /\ retryAt # "due"
  /\ Free(f)
  /\ Start /\ Launched(f, "tick", routine.retry)
  /\ UNCHANGED <<routine, file, loaded, entry, jobHistory, edits>>

(* runJobNow.                                                              *)
FiresByHand(f) ==
  /\ Known /\ Free(f)
  /\ StartStray /\ Launched(f, "hand", routine.retry)
  /\ UNCHANGED <<routine, file, loaded, entry, jobHistory, edits>>

(* The hook drain starts it, with its retries stripped.                    *)
HookFires(f) ==
  /\ routine.hooked
  /\ Free(f)
  /\ Start /\ Launched(f, "tick", 0)
  /\ UNCHANGED <<routine, file, loaded, entry, jobHistory, edits>>

(* The run of flight f is one of those RateLimit lets end.                 *)
Leaves(f) ==
  IF Asked(f) THEN gated' = gated - 1 /\ UNCHANGED stray
  ELSE stray' = stray - 1 /\ UNCHANGED gated

(* The guard of a run by schedule or by hand finds no work, or runJob can  *)
(* select no model: nobody looks at what it returns, a retry's least.      *)
Refused(f) ==
  /\ flight[f].at = "starting"
  /\ Fails /\ Leaves(f)
  /\ flight' = [flight EXCEPT ![f] = Off]
  /\ IF flight[f].by = "retry" THEN Edit /\ spoiled' = TRUE ELSE UNCHANGED <<edits, spoiled>>
  /\ UNCHANGED <<routine, file, loaded, entry, meant, fired, done>>

(* snapshotJobFrontmatter, of a file another run's agent may have spoiled. *)
Snapshot(f) ==
  /\ flight[f].at = "starting"
  /\ flight' = [flight EXCEPT ![f].at = "running", ![f].saved = file]
  /\ spoiled' = (spoiled \/ file # meant)
  /\ UNCHANGED <<vars, routine, file, loaded, entry, meant, fired, done, edits>>

(* The agent is done: well (or by a filter's "stop", or the spend cap), in *)
(* error, at the provider's limit, or something on the way throws.         *)
AgentEnds(f, exit) ==
  /\ flight[f].at = "running"
  /\ flight' = [flight EXCEPT ![f].at = "over", ![f].exit = exit]
  /\ \/ exit = "ok" /\ Succeeds
     \/ Fails
     \/ exit = "error" /\ (HitsLimit \/ \E d \in 1..Week : HitsWeeklyLimit(d))
  /\ Leaves(f)
  /\ IF exit = "thrown" THEN Edit /\ spoiled' = TRUE ELSE UNCHANGED <<edits, spoiled>>
  /\ UNCHANGED <<routine, file, loaded, entry, meant, fired, done>>

NoEntry == failCount' = 0 /\ retryAt' = "none" /\ fired' = 0

(* Slip: an entry that has used up its retries is left behind. *)
RecountedForEver(run) ==
  CASE run.exit = "thrown" -> UNCHANGED <<entry, fired>>
    [] run.exit = "ok" -> NoEntry
    [] OTHER ->
         IF run.tries = 0 \/ failCount + 1 > run.tries THEN UNCHANGED <<entry, fired>>
         ELSE failCount' = failCount + 1 /\ retryAt' = "later" /\ UNCHANGED fired

(* What the end of a run means for the retries: a success ends them, a     *)
(* failure counts, and they end when `retry` is used up.                   *)
Recounted(run) ==
  CASE run.exit = "thrown" -> UNCHANGED <<entry, fired>>
    [] run.exit = "ok" -> NoEntry
    [] OTHER ->
         IF run.tries = 0 THEN UNCHANGED <<entry, fired>>
         ELSE IF failCount + 1 > run.tries THEN NoEntry
         ELSE failCount' = failCount + 1 /\ retryAt' = "later" /\ UNCHANGED fired

(* Slip: the frontmatter is put back after a success only. *)
RestoresAfterSuccess(run) ==
  file' = IF run.exit = "ok" THEN run.saved ELSE file

(* restoreFrontmatter, which a run that threw does not come to.            *)
Restores(run) ==
  file' = IF run.exit # "thrown" THEN run.saved ELSE file

(* The result is handled; a one-shot routine with no retry to come goes on *)
(* to have its schedule cleared.                                           *)
Settles(f) ==
  /\ flight[f].at = "over"
  /\ Restores(flight[f])
  /\ Recounted(flight[f])
  /\ flight' = [flight EXCEPT ![f] =
       IF routine.recurring \/ routine.hooked \/ retryAt' # "none" THEN Off
       ELSE [@ EXCEPT !.at = "clearing"]]
  /\ done' = TRUE
  /\ UNCHANGED <<vars, routine, loaded, meant, spoiled, edits>>

(* clearJobSchedule, whose failure is logged.                              *)
Cleared(f) ==
  /\ flight[f].at = "clearing"
  /\ flight' = [flight EXCEPT ![f] = Off]
  /\ \/ file' = FALSE /\ meant' = FALSE /\ UNCHANGED <<edits, done>>
     \/ Edit /\ done' = FALSE /\ UNCHANGED <<file, meant>>
  /\ UNCHANGED <<vars, routine, loaded, entry, fired, spoiled>>

RetryComesDue ==
  /\ retryAt = "later" /\ retryAt' = "due"
  /\ UNCHANGED <<vars, routine, file, loaded, failCount, flight, jobHistory, edits>>

-----------------------------------------------------------------------------
(* The agent of a run rewrites the routine's own file. *)
AgentEdits ==
  /\ \E f \in Flight : flight[f].at = "running"
  /\ Edit
  /\ file' = ~file
  /\ UNCHANGED <<vars, routine, loaded, entry, flight, jobHistory>>

(* Somebody sets the schedule by hand, or a sync does.  Under a run that   *)
(* has its snapshot, it will be put back.                                  *)
EditedByHand ==
  /\ Edit
  /\ \E s \in BOOLEAN : file' = s /\ meant' = s
  /\ done' = FALSE
  /\ spoiled' = (spoiled \/ InFlight # {})
  /\ UNCHANGED <<vars, routine, loaded, entry, flight, fired>>

(* loadJobs, every 30 s.                                                   *)
Reload ==
  /\ loaded # file /\ loaded' = file
  /\ UNCHANGED <<vars, routine, file, entry, flight, jobHistory, edits>>

(* A restart: hold, retries and runs were in memory only.                  *)
Reboot ==
  /\ Edit
  /\ Restart
  /\ NoEntry /\ flight' = [f \in Flight |-> Off]
  /\ loaded' = file
  /\ done' = FALSE /\ spoiled' = (spoiled \/ file # meant)
  /\ UNCHANGED <<routine, file, meant>>

(* The hold runs off, and is polled.                                       *)
Hold == (Poll \/ Second) /\ UNCHANGED jobVars

Goes(f) ==
  \/ Refused(f) \/ Snapshot(f) \/ Settles(f) \/ Cleared(f)
  \/ \E exit \in {"ok", "error", "thrown"} : AgentEnds(f, exit)

CronNext ==
  \/ \E f \in Flight :
       Goes(f) \/ RetryFires(f) \/ CronFires(f) \/ FiresByHand(f) \/ HookFires(f)
  \/ RetryComesDue \/ AgentEdits \/ EditedByHand \/ Reload \/ Reboot
  \/ Hold

CronSpec == CronInit /\ [][CronNext]_cronVars

(* The clock runs, ticks poll, runs end (at the latest at their timeout),  *)
(* and some tick of the minute meets a moment without a hold.              *)
FairCronSpec ==
  /\ CronSpec
  /\ WF_cronVars(Hold)
  /\ \A f \in Flight : WF_cronVars(Goes(f))
  /\ WF_cronVars(RetryComesDue) /\ WF_cronVars(Reload)
  /\ SF_cronVars(\E f \in Flight : RetryFires(f))

-----------------------------------------------------------------------------
(* A failure is retried at most `retry` times, whichever runs by schedule, *)
(* by hand and by hooks overlap with the retries: each retry was paid for  *)
(* by a failure counted before it.                                         *)
RetriesBounded == fired <= failCount /\ failCount <= routine.retry

(* "Returns a restore function that re-applies the original frontmatter    *)
(* if Claude overwrote or stripped it" (jobs.ts:409-410): with no run in   *)
(* flight, a recurring routine has the schedule it was given.  Excepted    *)
(* are a run that threw or was cut off, an edit by hand under a run, and a *)
(* snapshot taken of another run's spoiled file.                           *)
ScheduleKept ==
  routine.recurring /\ InFlight = {} /\ ~spoiled => file = meant

(* A one-shot routine that came to its end loses its schedule, although    *)
(* overlapping runs put it back and failures keep it for their retries.    *)
(* Excepted are a clearing that fails and a retry that is refused.         *)
OneShotEnds ==
  (~routine.recurring /\ ~routine.hooked /\ done) ~> (~file \/ ~done \/ spoiled)
=============================================================================
