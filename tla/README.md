# Errandd: TLA+ models, checks and proofs

Errandd is a daemon that keeps a coding agent on watch: webhooks, pollers and a
cron table are matched against routines, matched work goes through a durable
queue to an agent CLI, and chat bridges let people talk to the same agent. This
directory holds TLA+ modules for the parts of the daemon whose correctness
depends on the order in which things happen, TLC configurations that check them
on small instances, and TLAPS proofs for all instances. All source paths below
are relative to `src/errandd/app/`.

Contents: [inventory](#inventory) · [modules](#modules-and-their-code) ·
[runs](#what-the-runs-check) · [fairness](#fairness) · [proofs](#what-is-proved) ·
[disagreements](#where-code-and-text-disagree) · [not modelled](#what-is-not-modelled) ·
[plan](#plan)

## Inventory

The daemon is one process and, apart from the agent subprocesses, one event
loop: code runs without interruption from one `await` to the next. What survives
a kill is SQLite (the two queues, the read cache, the pull request rows, the
delivery log, the first-seen ledger) and a few files (the session log, the main
session, the routines); everything else is in memory.

| Component (source) | State | Operations | Hard behaviour | What makes it correct |
| --- | --- | --- | --- | --- |
| Hook queue (`hookQueue.ts`) | rows `messages` in SQLite: status, attempts, rate_limit_attempts, not_before, error | enqueue, claimThread, complete, releaseClaim, defer, requeue, requeueStuckRunning, resolvePendingCve, prune | redelivery, replay, writes without a guard on the status they overwrite | a delivery is kept once, worked on by one batch at a time, settled by that batch only |
| Hook drain (`commands/start.ts`) | drainingThreads, preflightingThreads, preflightAttempts, currentJobs, shuttingDown | enqueueHook, drainHookQueue, runQueuedBatch, boot replay, 3 s tick, shutdown | batches in flight across awaits, re-entrant drains, crash, reload of routines, SIGTERM | no thread twice, pools bounded, every delivery settles, retries counted per delivery |
| Retry policy (`hookQueue.ts` nextQueueAction, `rate-limit.ts` fibBackoffMs) | none | pure decision | batches mixing rows of different histories | nobody pays for the company it keeps |
| Scheduler (`hookQueueScheduler.ts`) | none | selectHookThreads, selectReviewPreflightThreads | order that changes with every retry | strict priority, FIFO in a class, ceiling kept |
| Admission (`hookLoad.ts`) | last sample, last admission | capacity, admitted | stale samples, missing readings | never above the ceiling, at most one start per 10 s |
| Provider hold (`rate-limit.ts`, `runner.ts` execClaude) | rateLimitResetAt, consecutiveRateLimits | isRateLimited, recordRateLimit, clearRateLimit | results of concurrent runs applied in any order | holds end; backoff bounded |
| Interactive queue (`messaging/interactiveQueue.ts`, drain in `commands/start.ts`) | rows `interactive`; the flag `draining` | enqueue by the chat handlers, drain, boot replay, prune | overlapping ticks, limit that returns in mid-drain, crash between answer and bookkeeping | every message answered or given up, none lost, none stranded |
| Runner (`runner.ts`, `claude-spawn.ts`, `watchdog.ts`) | a promise chain per thread and one for the main session; the session each lane resumes and the one its fallback model resumes; run counter, active processes | run, runFork, killActive, execClaude's ladder: fallback, recovery from a damaged or lost session, spend cap, compaction and its retry, rotation | a session that vanishes, breaks or is reset while a run is on its way; retries of retries | a prompt is answered once; a session the agent refuses is dropped; runs end |
| Thread sessions (`sessionManager.ts`, `sessionBounds.ts`) | a map over an append-only log; a chain of writes; staged restarts | get, create, remove, increment, stage a restart, prune, remap by the recovery cleanup (`maintenance/recoverClobberedThreads.ts`), fold at start | a prune replaces the map under a caller that awaits it; the cleanup acts on what it read before; failed and torn writes; a crash between staging and creation | what a restart folds is what memory said; a staged restart resumes nothing |
| Main session (`sessions.ts`, `rotation.ts`) | session file per agent | create, peek, increment, rotate under a lock | read outside the lock | no turn lost, one session per agent |
| Cron and routine runner (`cron.ts`, `jobs.ts`, `commands/start.ts` 1933-1969, 2492-2590) | `jobRetryState`, `currentJobs`, the frontmatter of the routines' files | minute tick, retry, on-demand and hook runs, guard, snapshot and restore, clearing of a one-shot | overlapping runs of one routine; the sentinel of a retry in flight; restores in the wrong order | retries within what was asked; a schedule is neither lost nor revived; a one-shot ends |
| Receivers and matching (`hooks/*.ts`) | delivery ring and ids | verify, parse, match, dispatch, enqueue | redelivery, events before boot ends, half a dispatch | every match is enqueued, once |
| Sentry poller and ledger (`sentry-poller.ts`, `hooks/sentrySeen.ts`) | cursor and receipts in the read cache; the ledger of first-seen issues | poll, visit, dispatch, receipt | a webhook and the poll report one issue at the same time; a crash between rows and receipt | an issue is triaged once, and none is missed |
| PR poller, state, backfill (`pr-poller.ts`, `pr-state.ts`, `pr-backfill.ts`) | observations in memory and in rows, the last open list | webhook, poll, lookup, hydrate | observations in any order, with timestamps of one second | belief goes forward and converges |
| CVE poller and remediation (`cve-poller.ts`, `cve-subscriptions.ts`, `cve-remediation-episodes.ts`, `cve-remediation-loop.ts`, `hooks/cve.ts`) | in the read cache: feed cursors, receipts, the saved scan of each routine, episodes, owners and loop state; rows of the hook queue | scan, reconcile, dispatch, resolve, plan, continue | four records of one finding written apart; receipts shared by routines and feed; continuations made obsolete while queued | a finding is worked on, in one place, until it is gone, and no longer |
| Pending resume (`pending-resume.ts`) | one file, a consumed flag | save, load | crash while resuming | at most one wake-up |
| Jobs repository (`jobsRepo.ts`) | a git clone | sync, reload | routines absent for a moment | see hook drain |
| Chat bridges (`commands/telegram.ts`, `slack.ts`, `discord.ts`, `messaging/`) | platform connections | receive, queue, reply | limit during a live run | see interactive queue |
| Plugins, MCP, runtimes, dashboard, telemetry, configuration, front end | files, processes | install, spawn, render | process I/O | outside these models |

How they interact: a receiver or poller calls `enqueueHook`, which persists a row
and calls `drainHookQueue`; that claims a thread's rows and starts
`runQueuedBatch`, which inspects the pull request, runs the agent through the
runner and settles the rows with `nextQueueAction`. The runner resumes the
thread's session, replaces it when it must, and records and clears the provider
hold, which gates both drains, the chat handlers, the cron tick and the
heartbeat. The cron tick, the dashboard and the hook drain all start runs of the
same routine. The Sentry poller and its webhooks dispatch the same issues; the
pull request store is written by webhooks, poll and lookup. The CVE scan queues
alerts and the end of their turns queues continuations. The dashboard replays
rows; maintenance prunes them; the CVE store resolves them; a jobs-repository
sync replaces `currentJobs` under everybody.

## Modules and their code

| Module | Models | Role |
| --- | --- | --- |
| `SerialDelivery` | what the hook queue promises | abstract specification: accept, start a thread's batch, settle it as a unit, recover, replay, forget |
| `HookQueue` | `hookQueue.ts` | the rows and one operator per method |
| `HookDrain`, `MCHookDrain`, `HookDrainProofs` | `commands/start.ts`, `hookQueueScheduler.ts`, `hookLoad.ts` | the worker over `HookQueue`; implements `SerialDelivery` |
| `Backoff`, `RetryPolicy`, `AdmissionProofs` | `fibBackoffMs`, `nextQueueAction`, the counters of `defer` | the numbers |
| `HookScheduling`, `MCHookScheduling`, `AdmissionProofs` | `selectHookThreads` over the order of `readyThreads` | the order of starts |
| `RateLimit`, `AdmissionProofs` | `rate-limit.ts`, the end of `execClaude` | the provider hold |
| `CronJobs`, `MCCronJobs`, `AdmissionProofs` | `runJob`, `runJobNow`, the minute tick, `jobs.ts` | the overlapping runs of one routine; extends and composes with `RateLimit` |
| `InteractiveDrain`, `MCInteractiveDrain`, `InteractiveDrainProofs` | `messaging/interactiveQueue.ts`, `drainInteractiveQueue` | the chat queue |
| `RunLadder`, `RunLadderProofs` | `runner.ts` | one lane of the runner and `execClaude` |
| `ThreadSessions`, `MCThreadSessions`, `ThreadSessionsProofs` | `sessionManager.ts`, `sessionBounds.ts`, `maintenance/recoverClobberedThreads.ts` | the map, its log and their races |
| `PrState`, `PrStateProofs` | `pr-state.ts`, `pr-poller.ts`, `pr-backfill.ts`, the hook of `hooks/github.ts` | the belief about pull requests |
| `AlertIntake`, `AlertIntakeProofs` | `hooks/sentry.ts`, `hooks/sentrySeen.ts`, `sentry-poller.ts`, `hooks/deliveries.ts`, `hooks/webhookEnvelope.ts`, the insertion of `enqueueHook` | from a Sentry event to the rows of the queue |
| `CveRemediation`, `MCCveRemediation`, `CveRemediationProofs` | `cve-subscriptions.ts`, `cve-remediation-episodes.ts`, `cve-remediation-loop.ts`, `hooks/cve.ts`, `cve-feed-dispatch.ts` | from a scan of the lockfiles to the turns that remove what it found |

**HookQueue.** `status`, `attempts` are the columns; `held` is the set of rows
whose `not_before` is in the future, and a hold ends at any later time
(`HoldEnds`), so results do not depend on the length of a backoff; `spent` marks
the rows whose `error` says a spend cap stopped them. `attempts` saturates at
`RetryCap` because the code only compares it with the cap. `Complete` and `Defer`
have, like the SQL, no guard on the status they overwrite: that nothing goes
wrong is a property (`RunningRowsOwned`), not an assumption.

**HookDrain.** A step is the code between two awaits. `drainHookQueue` never
awaits; for readability it is unrolled into `DrainPreflight`, `DrainAdmit`,
`DrainModel` and `DrainEnd`, during which `drain` is not `"off"` and no other
action of the live process is enabled; only a kill can come between.
`phase[lane][thread]` follows `runQueuedBatch` for each entry of
`drainingThreads` (lane "model") and `preflightingThreads` (lane "preflight"):

| phase | code |
| --- | --- |
| `inspect` | awaiting `fetchReviewPreflight` (2073) |
| `run` | awaiting the agent for any other routine (2086-2132) |
| `review` | the same for pr-review |
| `handoff` | the work after an answered review (2150-2157) |
| `settled` | rows settled, the `.finally` (2207, 2231) not yet run |

The branches that settle before the first await (routine not loaded, obsolete
CVE continuation, preflight with nothing to inspect) are disjuncts of `Begin`,
one step with the claim. `Kick` is the call of `drainHookQueue` at the end of
`enqueueHook`, of a preflight's `.finally` and of start-up. A drain that would
claim nothing changes nothing and is not a step. During `"booting"` the web
server already answers: rows are accepted but the call of the drain fails and is
swallowed. A thread's rows may carry different routines (routines sharing an
agent share threads); which one `readyThreads` and `msgs[0]` name is left open.
A job may be unloaded and loaded again at any moment (`Reload`). Faults are
limited by `Budget`, one allowance per kind, and by `Rivals`, the kinds of which only
one may strike.

**RetryPolicy** keeps the numbers `HookDrain` abstracts: rows of one thread are
run in arbitrary batches, `NextQueueAction` decides, `Defer` moves the two
counters as the SQL does (a counted failure resets `rate_limit_attempts`).

**RateLimit** counts seconds left instead of dates. A gated run starts only after
`isRateLimited()` said no (`Release`, which clears a passed deadline as a side
effect); a stray one never asks (web chat, forks, runs by hand). A run reports
when it ends. `Restart` is a new process: the hold lives in memory only.

**CronJobs** extends `RateLimit` with one routine: whether it recurs, has hook
triggers, and its `retry`. `failCount` and `retryAt` are its `jobRetryState`
entry; `retryAt` is `"never"` while the sentinel of 2565 stands. `file` and
`loaded` are the `schedule` of its file and of `currentJobs`. A `flight` is one
call of `runJob`: `starting` (the guard), `running` (the agent has the prompt and
`saved` the snapshot), `over` (the result is being handled), `clearing` (a
one-shot's schedule is being removed). Every start and end of a flight is, in the
same step, a start and an end of a run of `RateLimit`. The agent of a run may
rewrite the routine's file at any time. `CronFires` and `RetryFires` are the
tick's two branches, `FiresByHand` is `runJobNow`, `HookFires` the call from the
hook drain, which strips `retry`.

**InteractiveDrain.** Message ids are arrival numbers; `at` is what the drain
awaits, `todo` the claimed messages not yet settled and `current` the one the
loop is at. `Settle` is `complete` or `defer` of the current message together with
the loop's next iteration (`GoesOn`), including the branch that gives all
remaining rows back when a limit came back. `replies` and `failures` are history
variables.

**HookScheduling.** `due` gives each ready thread its place in the order of
`readyThreads`; a new or retried thread may take any free place, and a ready one
a better one (its earliest row counts). `Selected` is the loop of
`selectHookThreads`, a turn for each class and place, `Turn` the stable sort by
class, `FreshPick` the review started ahead of the loop. `classes` says whether the caller passes
priorities. The daemon always does; the branch without them is exported and
unit-tested, and modelled because the comment above it makes a promise.
`HookDrain` takes from it only that a drain starts threads one at a time, the urgent
before the others (`Preferred`), and ends when none is left or the slots are used up;
that `selectHookThreads` does this within the ceiling, in order and without an idle slot is
what `CeilingKept`, `StartsInOrder` and `NoIdleSlot` say, checked and proved here.

**RunLadder** is one lane: runs queued behind each other, and the place the
current one has reached in `execClaude`. A step is the code from one answer of the
agent to the next start of it. `mapped` and `spare` are the sessions the lane and
its fallback model resume; whether that is a thread's or, with `main`, the main
session decides only whether it rotates. `existing` is `existing` of 529, read
once at the start, `resumed` the session the agent was started on. The agent is
external: it may lose (`gone`) or damage a session whenever no execution runs on
it, and says so when it is resumed; otherwise an execution succeeds, fails, times
out or meets the limit. `Reset` is a user's /reset, at any time. `told`,
`answered`, `spareModel` and `spareApi` are history variables. The last two keep what
a session was opened with, which the code decides in two places: the command line,
with its `--model`, is the fallback's at `spare` and `spareFresh` only
(`fallbackArgs`, 743-752), while the api and the environment are the fallback's as
long as `viaSpare` (`usedFallback`, 851-857). The retry after a loss runs the
lane's command line with either.

**ThreadSessions.** `heap` holds the maps made so far, the last being `cache`; a
call that awaited `loadThreads()` goes on with the map it was given (`calls`),
which a prune may have replaced. `writes` is `writeChain`; a write shows the
objects as they are when it is performed. `log` is what `foldSessionLog` would
make of the file, and `worn` what `findClobberCandidates` would find in its older
lines. A crash may leave half a line, which makes the next one unreadable. `objects`
are a thread's session objects in the order they were made: an object is shared by
all maps that hold it, and two of a thread may carry the same session. Turn counts,
tokens and times of a session are two bits: it has had a turn (`used`), and its
restart is due (`full`). `ReadLog` is the recovery cleanup of maintenance, which
reads the file whatever is in memory or queued, awaits transcripts, and calls
`remapThreadSession` (`Remap`) for a thread at a time; what it goes by may be out of
date by then. `Remap` sets the mapping and, as the code does, leaves a staged
restart staged and drops the generation. `strayed`, `behind` and `revived` are
history variables, the exceptions of the properties.

**PrState.** An observation is the state GitHub reported, the second it reported
it for (`src`, `sourceUpdatedAtMs`) and, as history, the number of changes the
pull request had had (`seen`). Four writers commit observations: webhooks, the
list of open pull requests, the lookup of those the hook queue knows and the list
lacks, and the seed from the read cache. `touched` stands for the store's
revisions: the pull requests written since the fetch under way began. `disk` may
miss what `store` has after a failed write.

**AlertIntake.** A `dispatch` is one call of `dispatchSentryAlert`, for a webhook
or for an issue of the poll: judged once against the ledger, then enqueueing one
row per routine it woke, each enqueue an await of its own, then answered or
receipted. Row ids are those of `enqueueHook` (936): of a webhook the delivery's,
of a poll one per issue and routine. `hurt` remembers the issues a restart or a
refused insertion struck between claim and row, and those whose row was taken for
a duplicate.

**CveRemediation** is one repository and one package, whose advisories share a lane
of episodes. A poll (`scan`) reads the lockfiles at one commit (`vulnerable`) and
takes the routines one by one; for each advisory found it assigns the episode
(`generation`, `open`, `done`), enqueues the row and, when the queue has answered,
writes the receipt, each an action of its own; then it saves the scan and
reconciles the episode in one transaction, and resolves waiting rows. Beside it the
feed may dispatch a newer record through the same function. `ContinueFrom` is
`continueCveRemediations`, called at the end of a poll and of each turn that ended
well. Rows are those of the hook queue by what they say: an alert or a
continuation, for whom and in which episode; a batch takes any ready rows of one
thread. `told` is what the turn in flight was told to remedy. A commit, by the
turn's pull request or anyone, may change what the lockfiles are open to at any
moment. Paths a scan could not cover and recorded decisions that an advisory does
not apply are left out, as are candidates of the history backfill.

## What the runs check

Every run is exhaustive for its instance; only the last is expected to fail.

| Run (cfg) | Question | Instance and why it is enough |
| --- | --- | --- |
| `drain` (`HookDrain`) | Do running rows stay owned, pools bounded, retries counted and delivery serial, whoever writes rows and whatever fails? | Three deliveries: two of different routines (one a review) on one thread, a CVE continuation on another; load-based admission, one model slot, one preflight. A crash at any point, and one other trouble of any kind: a throw, a limit, a replay of any set of rows, a prune, a spend stop, a shutdown, a routine that vanishes; CVE resolution is unlimited. Two rows coalesce or arrive during a run, two threads compete; a second crash starts from a state the first already produces. `RetryCap` 1: both sides of the cap are reached. |
| `live` (`HookDrain_live`) | Does every delivery settle if runs end, and is every review inspected whether they do or not? | A review and a work delivery, one slot; a crash, a limit, and either a routine that vanishes and may never come back or a throw after the claim, also after a successful run. SIGTERM is left to `drain`. The fairness leaves model runs free to hang and the hold free to stay; `SettlesIfRunsEnd` adds the two as hypotheses |
| `retry_policy` | The policy with its real constants | Cap 5, two rows, counters to 9, the number at which the Fibonacci hold passes its 30 s; `PolicyAssumption` asks for as many, since counters that stopped earlier would make the property false |
| `routines` (`CronJobs`) | Do overlapping runs of a routine keep its retries, its schedule and the provider hold in bounds? | Every kind of routine with `retry` up to 1; two runs in flight at once, of which one may be by hand; a backoff table of two steps; one trouble of any kind (edit, crash, refusal, throw, failed clearing). With two flights every pair of kinds overlaps; a third adds no new pair, and the safety properties are proved for any number |
| `interactive` | Is a chat message ever lost, stranded, falsely done, given up early, or left for ever? | Three messages, claims of at most two (so a claim leaves one behind), `RetryCap` 2, one trouble of each kind |
| `scheduling` | Order, ceiling, idle slots, lanes | Five threads (three reviews) for three slots, as many places as threads, so all orders; with and without classes. Three slots is the least number at which a review is started ahead of the loop |
| `sessions` (`ThreadSessions`) | Does the log fold to what memory says, and does a staged restart start fresh? | Two threads (one that is written while the other is pruned), two sessions (`MaxSessions`: one that has turns and one that supersedes it), two calls awaiting the map (`MaxCalls`) and one more while they resume, one queued write (`MaxWrites`) and one more; any two troubles (`MaxTroubles`): prunes, cleanups, failed writes, crashes, which may tear a line (`Torn`). Any pair of them meets, as a cleanup that read the log before a prune; the safety properties are proved for any number. Threads are symmetric. 4 022 845 states |
| `ladder` (`RunLadder`) | Is a prompt repeated after a success, do the models' sessions mix, is a refused session kept, does a run or a lane get stuck? | Seven session ids: at most five are mentioned at any time, so a fresh one always exists; runs with and without a spend cap, one waiting; losses, damages and resets unlimited |
| `pr_state` | Is merged final, does belief go forward, does it converge? | One pull request (they share only the poll cycle, which takes them all), two changes in the same or in different seconds, two troubles, a row an older version left without a timestamp |
| `alerts` (`AlertIntake`) | Is an issue triaged once, is the receipt honest, is no issue missed? | A first-seen routine and another, two issues on pages of one (so the cursor matters), one webhook and its redelivery, two revisions, one trouble |
| `cve` (`CveRemediation`) | Is what is affected worked on, in the current episode, until it is gone, and no longer? | One routine, two advisories, two commits (a package may be cured and hurt again, by the same or the other advisory, which closes an episode and opens or reopens one), one trouble at any point: a crash, a failed scan, a refused row, a deferral, a newer record. Two routines were checked apart (below) |
| `alerts_woken` | Do all routines a webhook wakes get a row? Expected to fail | Two first-seen routines, one issue, no trouble at all |

The properties, in words:

- `RunningRowsOwned`: rows marked running and rows held by batches in flight are
  the same rows. The unguarded `complete` and `defer` depend on it, and a running
  row without a batch is stuck until the next restart.
- `OneBatchPerThread`, `PoolBounds`: the two pools are disjoint and bounded.
- `GivenUpEarlyOnlyIfMissing`: a delivery is failed only after its own retries, not
  those of the messages it is coalesced with, unless a routine of its batch is
  missing at the time (divergence 2) and another row of the batch has none left.
- `ImplementsSerialDelivery`: the rows, seen as waiting / working / finished, move
  only as `SerialDelivery` allows. In particular a batch is settled as a unit and
  takes along nothing that arrived after the claim, and what is finished waits again
  only when a replay was asked for: `asked`, an input of `SerialDelivery`, is here
  the allowance of replays, which nothing but `Replay` spends, so that a redelivery
  that re-armed a finished row would be no step of it.
- `SettlesIfRunsEnd`, `EveryMessageSettles`: nothing is left for ever.
- `ReviewsInspectedRegardless`: model-free inspections wait for neither model
  slots nor the provider.
- `CapacityHoldIsFibonacci`, `FailedRowsExhausted`, `BackoffCoversEveryRow`: the
  numbers of the policy, per row rather than per batch.
- `BackoffBoundedByRuns`, `HoldsEnd`: the hold does not feed on itself, and ends.
- `RetriesBounded`: each retry that fires was paid for by a counted failure, and
  there are at most `retry` of them, whatever other runs of the routine report
  between. `ScheduleKept`: with no run in flight a recurring routine's file has
  the schedule it was given, although agents rewrite it and overlapping runs put
  back what they found. `OneShotEnds`: a one-shot routine that is through loses
  its schedule. What the last two except is named in `spoiled`
  ([below](#where-code-and-text-disagree)).
- `RunningRowsClaimed`, `DoneMeansAnswered`, `GivenUpAfterOwnFailures`: the
  interactive counterparts.
- `CeilingKept`, `StartsInOrder`, `NoIdleSlot`, `LaneForEachKind`: selection.
- `LogAgreesWithMemory`: for every thread, what a restart would fold once the
  queued writes are done is what memory holds; excepted are a thread written
  through a map a prune had replaced and one whose last write did not arrive.
  `StagedRestartStartsFresh`: once the removal it calls has run, a staged restart
  finds nothing to resume; excepted are a thread written through a replaced map and
  one to which the recovery cleanup gave a session back meanwhile (divergence 10),
  the latter until the restart is consumed.
- `NotRepeatedAfterSuccess`, `StoresApart`, `UnusableIsDropped`, `EveryRunEnds`,
  `NotStuck`: no recovery follows a success; a lane resumes only sessions opened
  with its own model and api, and its fallback only sessions opened with the
  fallback's api (its model is another matter, divergence 11); a session the agent
  refused is dropped
  where the run can do something about it; runs end; and no lane resumes a lost
  session for ever.
- `MergedIsFinal`, `NeverBackwards`, `Converges`: see `PrState`. Going back is
  possible by a webhook of the very same second, and is exactly bounded to that.
- `TriagedOnce`: at most one row of an issue per first-seen routine.
  `ReceiptAfterRows`: a receipt, which ends the poll's interest in a revision,
  follows its rows. `EveryIssueQueued`: every issue reaches every routine unless
  one of the three named mishaps (`hurt`) struck it.
- `EpisodeTracksAffected`, of a repository with one routine: between polls every
  affected finding is an open member of the current episode and bears its number,
  although the two are written apart. `WorkedUntilGone`: as long as the lockfiles
  are open to an advisory a routine watches, turn after turn is told to remedy it;
  `QuietOnceGone`: once they are clean the queue empties and stays so. The two
  halves of the comment above `cveRemediationPlans`: "Queue completion ends a turn;
  only current finding evidence ends remediation". With two routines the two
  liveness properties were also found to hold for one commit and one trouble with
  equal rules, and for two commits without trouble when the second routine watches
  one advisory only; these instances take longer than the run.

Each property is exercised by at least one deliberate slip, an operator placed
before the definition it would replace (its comment begins with "Slip:"), with
which TLC finds the property violated.

Deadlock is checked except in three runs: `RetryPolicy` ends when all rows are
finished, `InteractiveDrain` when the bounded number of messages has come and
gone, and `CronJobs` when a one-shot routine is through; their configurations say
so.

## Fairness

`HookDrain!EventLoop`: a drain on the stack runs to its end and boot completes
(weak fairness); the 3 s interval fires and a pending callback is taken in its
turn (strong fairness, because another drain may run in between); a row's
`not_before` passes; the supervisor restarts a process that ended
(`charts/errandd` runs it as a long-lived deployment). `Batches` adds that every
await of a batch returns, which the run timeouts and the watchdog enforce: for
model runs it is a hypothesis inside `SettlesIfRunsEnd` and absent from
`ReviewsInspectedRegardless`. A batch's progress is fair, its outcome is not:
failing for ever is allowed, and ends at the cap. Troubles (crash, throw, limit)
are never fair and are bounded by `Budget`; without a bound on throws nothing
would settle, since that path has no cap. `SF(LimitEnds)` in `HookDrain` and
`InteractiveDrain` is what `HoldsEnd` establishes in `CronJobs`, there from the
clock and the polls alone.

`CronJobs`: the clock runs, the dashboard's and the ticks' polls happen (`Hold`),
every run ends, reloads and retry times come (all weak); `RetryFires` is strongly
fair, that is, some minute tick with the retry due meets a moment without a hold.

`RunLadder`: runs keep coming, start in their turn, and every call of the agent
ends (its timeout kills it). `SometimesUncapped`, needed for `NotStuck` only, says
that now and then a run has no spend cap; a lane all of whose runs are capped does
stay stuck ([below](#where-code-and-text-disagree)).

`PrState`: a dashboard is open, whose requests start the cycles, so the seed and
the cycle go on (weak); GitHub answers again and again for each pull request
(strong), though any one answer may fail.

`AlertIntake`: a dispatch runs to its end and polls start (weak); listing,
visiting and ending a poll succeed again and again (strong), though any request
may fail.

`CveRemediation`: a poll that began goes on, polls begin, a thread with ready rows
gets its batch and the batch ends (all weak, per thread); the time of a
continuation comes (weak); and the tick calls `continueCveRemediations` again and
again although polls run in between (strong: `pollCves` ends with it, also when no
poll is due). That a turn cures anything is not assumed. Failed scans, refused rows
and deferrals are bounded by `MaxTroubles`.

## What is proved

The `...Proofs` modules are checked by TLAPS (SMT, Zenon, LS4) from the
assumptions named in the modules (`QueueAssumption`, `DrainAssumption`,
`RateLimitAssumption`, `CronAssumption`, `InteractiveAssumption`, `PrAssumption`,
`IntakeAssumption`, `LadderAssumption`, `SessionsAssumption`, `CveAssumption`,
`PolicyAssumption`, `SchedulingAssumption`) and for all values
of the constants: any number of deliveries, threads, messages, runs, pull
requests, issues and sessions, and any bound on faults.

| Theorem | Statement | Argument |
| --- | --- | --- |
| `TypeCorrect` | `Spec => []TypeOK` | inductive by itself |
| `RunningRowsAlwaysOwned`, `ThreadsSerial` | `[]RunningRowsOwned`, `[]OneBatchPerThread` | invariant `Ownership`: the two need each other (a thread in both pools would let one batch settle the other's rows), and `NoWorkerWhenDown` for the step through a crash |
| `GivenUpEarly` | `Spec => GivenUpEarlyOnlyIfMissing` | invariant `RetriesCounted`: the history counter is at least the column. Whatever an action does to the two is one of the few things `Counting` lists, so each action is examined once (`StepCounts`) and the property is about that list |
| `GivenUpLate` | `Spec /\ [](loaded = Job) => []GivenUpAfterOwnRetries` | the same list, under the hypothesis that no routine goes missing, without which it is false (divergence 2 below) |
| `PoolsBounded` | `[]PoolBounds` | invariant `Pools`: in the middle of a drain the batches in flight and the slots still to be given fit the ceiling together. `PoolBounds` alone is not inductive |
| `DrainImplementsSerialDelivery` | `Spec => ImplementsSerialDelivery` | under `Ownership` every step maps to an abstract step or a stutter |
| `HoldTypeCorrect`, `BackoffBounded` | `[]TypeOK`, `[]BackoffBoundedByRuns` | invariant `Backlog`: counter plus runs in flight never exceeds the slots plus the strays ever started, since no gated run starts while the counter is not 0 |
| `CronObeysHold`, `CronBackoffBounded` | `CronSpec => Spec`, `[]BackoffBoundedByRuns` | each step of a routine's runs is a step or a stutter of `RateLimit`, so its theorems carry over to the composition |
| `CronTypeCorrect`, `RetriesStayBounded`, `RecurringScheduleKept` | `[]CronTypeOK`, `[]RetriesBounded`, `[]ScheduleKept` | the retries fired, and one more if one is due, are covered by the failures counted; and for a recurring routine every snapshot in flight is of the schedule it was given |
| `ChatRowsClaimed`, `ChatDoneAnswered`, `ChatGivenUpLate` | `[]RunningRowsClaimed`, `[]DoneMeansAnswered`, `[]GivenUpAfterOwnFailures` | invariant `DrainInv`: the three go together, since what the drain awaits says what is known of the current message, and only a message in `todo` may be settled |
| `PrTypeCorrect`, `MergedStaysMerged`, `StoreGoesForward` | `[]TypeOK`, `MergedIsFinal`, `NeverBackwards` | invariant `PrInv`: everything sighted of a pull request lies on its time line (`Timely`), and an answer under way is as new as whatever it is not kept from replacing (`Fresh`) |
| `AlertsTriagedOnce`, `ReceiptsFollowRows` | `[]TriagedOnce`, `[]ReceiptAfterRows` | invariant `IntakeInv`: an issue's rows and debts exist only once it is in the ledger and are then those of one delivery (`Claimed`), whose parts are done or owed (`Delivered`, `Judged`) |
| `PromptNotRepeated`, `SessionsApart`, `RefusedIsDropped` | `[]NotRepeatedAfterSuccess`, `[]StoresApart`, `[]UnusableIsDropped` | invariant `LadderInv`: each place of the ladder knows whose command line and whose api run and on which session (`Sides`), a run is told of at most one unusable session (`ToldOnce`), hence a fresh id exists (a counting lemma) and is neither store's |
| `SessionsTypeCorrect`, `StagedStartsFresh` | `[]TypeOK`, `[]StagedRestartStartsFresh` | invariant `SessionsInv`: a staged thread has no session, or a removal awaits its turn with a map that has one (`Leaves`), which a prune in between turns into a stray write, unless a remap has revived it |
| `LogAgrees` | `[]LogAgreesWithMemory` | invariant `LogInv`: the last queued write of a thread shows the object memory has for it, whatever became of those before it, and with none queued the log shows it (`Agrees`); before the first load nothing is queued (`Quiet`). The last write is a greatest element of a set of positions, which exists by `WFMin` |
| `EpisodeTracks` | `Routines = 1` gives `[]EpisodeTracksAffected` | invariant `CveInv`: what a scan under way has found so far is open in the current episode (`Scanning`), and a receipt without a finding, or ahead of a resolved one, is of an advisory that is still open (`Claimed`, `Returned`). With two routines it is false (divergence 9), hence the hypothesis `OneRoutine` |
| `RowsExhausted`, `BackoffCovers`, `HoldIsFibonacci` | `RetrySpec => []...` | invariant `RetryInv`: the columns are the history counters up to where these stop (`Counted`). The loop of `fibBackoffMs` computes the Fibonacci numbers, by induction over its turns, and 30 s from the ninth on |
| `CeilingHolds`, `OrderHolds`, `NoneIdleHolds`, `LanesHold` | `PoolSpec => []CeilingKept`, `StartsInOrder`, `NoIdleSlot`, `LaneForEachKind` | invariant `PoolInv`: the ceiling, each kind within its lane, and no two threads at one place. What the loop has selected after `k` turns (`SelectedSoFar`) is proved by induction over the turns: idle threads within the ceiling, the first ones by their turns or as many as their lanes hold, and whoever had its turn in vain found no room |

Induction. The library's induction theorems take an operator as a parameter and
cannot be used here, but its theorem that a set of a well-founded order has a least
element (`WFMin`) is first-order. `AdmissionProofs` derives from it that a set of
naturals with 0 and the successors of its members is all of them (`SetInduction`),
and that a function given by its value at 0 and by a step exists and is what its
equations say (`Iterated`). That is why loops are recursive functions on the
naturals in `Backoff` and `HookScheduling` (`FibPair`, `Doubled`, `Selected`) and
not folds, and why the order of eligibility is a numbering of threads and not a
sequence.

What the proofs brought to light:

- `EpisodeTracksAffected` without its exception `ahead` holds of the run and is
  false with four commits: a scan that acknowledges the return of an advisory and is cut
  short before it is saved leaves a receipt ahead of the finding; if the advisory is
  cured before the next scan and returns later, the receipt silences the return, and
  the finding stays in an episode that is over. TLC finds the trace when `MaxCommits`
  is 4. The property now names the case.
- `LaneForEachKind` needs `Reserve`: without a pr-review routine no lane is kept,
  which is what the code intends.
- `CapacityHoldIsFibonacci` needs counters that run to nine, now part of
  `PolicyAssumption`.

Only model-checked: all liveness (`SettlesIfRunsEnd`,
`ReviewsInspectedRegardless`, `HoldsEnd`, `OneShotEnds`, `EveryMessageSettles`,
`EveryRunEnds`, `NotStuck`, `Converges`, `EveryIssueQueued`, `WorkedUntilGone`,
`QuietOnceGone`), which is out of the prover's reach. Every invariant and every
action property a passing run checks is also proved.

## Where code and text disagree

1. **`alerts_woken`** (`commands/start.ts:936`). The row id of a webhook is the
   delivery's id, whichever routine it is for, and `enqueue` ignores a known id.
   When a webhook wakes two routines only the first gets a row, although the
   receiver's answer lists both; `hooks/sentry.ts:171-172` says "a single new-issue
   delivery may match multiple first-seen jobs; ALL of them should run on that
   first occurrence".

The modules also define properties that state other sentences of the repository
and that the code does not keep. They are not part of any run; adding one to the
`PROPERTY` or `INVARIANT` lines of the named configuration shows its
counterexample.

2. `GivenUpAfterOwnRetries` (`HookDrain`; `commands/start.ts:2022`). When the
   routine is not loaded, the batch is failed by the *highest* number of attempts in
   it, so a delivery coalesced with an exhausted one is failed without being run.
   `hookQueue.ts:582-587` (P0-14) says "We must NOT apply the OLDEST message's cap to
   brand-new work"; `nextQueueAction` obeys it. `GivenUpEarlyOnlyIfMissing`, which
   does hold, says how far this goes.
3. `NoNewRunsWhileStopping` (`HookDrain`; `commands/start.ts:681-682`): "clear the
   periodic timers so no NEW runs get enqueued while we drain". Timers are not the
   only callers of `drainHookQueue`: a webhook (959) and the end of a preflight
   (2209) start runs while the process is waiting for the old ones.
4. `WeeklyHoldKept` (`RateLimit`; `rate-limit.ts:14`): a weekly cap "holds until
   that date". A run that was in flight and reports an undated limit afterwards
   replaces it by one to thirty seconds (94).
5. `AnsweredOnce` (`InteractiveDrain`; `commands/start.ts:2314-2316`): "Don't
   double-send". A kill between the platform's acceptance and `complete` replays
   the row and answers again. The delivery is at least once.
6. `NotStuck` without `SometimesUncapped` (`RunLadder`): `runner.ts:829-830` retries
   a lost session as a new one "so the user isn't permanently stuck", but a run
   with a spend cap returns first (731). A routine whose every run is capped
   resumes the lost session for ever.
7. `AcknowledgedIsInTheLog` (`ThreadSessions`; `sessionManager.ts:105-106`, 45-46):
   "a torn trailing line from a crash mid-append must never poison the whole
   store". An append is not preceded by a newline (151), so the first line after a
   torn one is glued to it and skipped by the fold with it.
8. `ReopenedReused` (`CveRemediation` with four commits;
   `cve-remediation-episodes.ts:39-41`). The docs say "Reopening a previously
   assessed advisory reuses its remediation episode"
   (`docs/CVE_MONITORING.md:134`); the code looks for the advisory among the members
   of the last episode only. When it was cured, another one opened and closed an
   episode, and then it returns, it opens a third.
9. `OneLane` (`CveRemediation` with two routines). The test of
   `__tests__/cve-remediation-episodes.test.ts:34` is named "compatible active
   findings retain one lane". The receipt of an advisory is shared by the
   repository's routines (`hooks/cve.ts:129-156`) while their findings are their
   own: a crash between the saves of two routines leaves one routine's finding
   resolved and the other's not; when the advisory returns with a new one, the first
   is passed silently into the old episode and the new one opens the next.
10. `NothingToResume` (`ThreadSessions`; `sessionManager.ts:360-361`): when a cap is
   hit "the thread's session mapping is dropped (so the next run starts FRESH rather
   than resuming)". The recovery cleanup read the log while the thread's last line
   was a placeholder over a session with turns; before it calls
   `remapThreadSession`, the placeholder reaches a cap and the thread's restart is
   staged and its mapping removed. (Or the removal comes first, and its line has not reached
   the disk, or never will, when the cleanup reads it.) The remap puts the old session back, and the next
   run resumes it with the summary of the restart. `StagedRestartStartsFresh`, which
   does hold, excepts these threads.
11. `FallbackRunsItsModel` (`RunLadder`; `runner.ts:302`): "baseArgs already carry the
   model flag". After the fallback lost its session, the retry is
   `stripResume(args)` (851), the lane's command line with the lane's `--model`, run
   with the fallback's environment and api (852-857) and recorded as the fallback's
   session (903-907). The next limit resumes that session with the fallback's model.
   It makes no difference when the fallback differs by its api only. `StoresApart`
   says what remains.

Observations the models make visible and no sentence contradicts:

- Routine runs (`CronJobs`): a failing run by schedule or by hand that overlaps a
  retry in flight overwrites the sentinel (2563-2564), so that a second retry can
  fire beside it; the count still bounds them. A retry whose guard finds no work,
  or that no model can be selected for, leaves the sentinel for good. A run that
  throws skips the restore of the frontmatter. An edit by hand under a run is
  reverted by that run's restore.
- Alerts: `enqueueHook` logs a failure of the queue and drops silently for a
  routine not loaded (951-954, 920-925), so `releaseIssueSeen`, which would give
  the first-seen claim back, never runs. A crash between `markIssueSeen` and the
  enqueue loses the issue for first-seen routines. A failing request for one
  issue's event ends the poll, and the page is visited again.
- Pull requests: a webhook with `mergeable` still null derives open and wipes
  conflicted (`pr-state.ts:232-234`) until the next poll. Two webhooks of the same
  second that arrive in the wrong order leave the older state until the next
  poll. A pull request that is neither in the hook queue nor on the open list is
  never looked up.
- Runner: the fallback model's lost session is not recovered from when the lane
  has no session of its own; the retry after a compaction resumes the session the
  run started from even if a reset has dropped it since; a limit met by that retry
  is not recorded. `/compact` in a chat runs outside the lane's queue
  (`runner.ts:174`). A timed-out process lives up to five seconds beside the
  compaction of its session. The rate-limit pattern (`rate-limit.ts:148`) matches
  anywhere in an output.
- CVE findings: a crash after the row of a reopened finding was queued and before
  its scan was saved makes the next scan compute the same generation, so the id is
  known and the "fresh assessment ID" of `docs/CVE_MONITORING.md:126` is not given;
  a turn follows nevertheless, by continuation (`WorkedUntilGone`). Two routines
  whose findings have different generations overwrite the shared receipt at each
  poll. The feed dispatches at generation 0 whatever the finding's.
- The daemon passes a priority with every thread, so the lanes that
  `hookQueueScheduler.ts:42` describes are never in force, and steady work of a high
  class keeps the lower ones waiting for ever: `StartsInOrder` is that order, and no
  property excludes the starvation it allows; and `isRateLimited`
  resets the backoff counter when a hold passes, so the "next (longer) fib step" of
  `rate-limit.ts:12-13` happens only through runs that were already in flight.

## What is not modelled

Payloads, matching, prompts, titles and the dashboard's reads carry no control
and appear as constants (`JobOf`, `ThreadOf`) or not at all. What GitHub answers
an inspection is a nondeterministic choice. SQLite statements are atomic, as the
one process that owns the file sees them. The constructor's column migrations and
`rehomePendingCve` run once before anything else. Wall-clock lengths are modelled
only where a property is about them (`RetryPolicy`, `RateLimit`). Agent
subprocesses, git, the chat platforms and the front end are external.

Not modelled by choice: `pruneSentrySeen` (`hooks/sentrySeen.ts:104`), which forgets
first-seen claims more than 90 days old, so that `TriagedOnce` is about one
such period; the run counter that shutdown waits for, `killActive` and
the stall watchdog (subprocess handling); the main session's file and its lock,
whose cell is in `RunLadder`; the cgroup arithmetic and pacing of `hookLoad.ts`,
of which `HookDrain` keeps that admission may refuse at any time; of the CVE poller
the cursors of its feeds, bulletins, the history backfill, applicability decisions,
automatic subscriptions and the reading of lockfiles; the heartbeat, a gated run
of `RateLimit`; `pending-resume.ts`, one file renamed before its one use; trigger
matching, configuration, labels and skills, which are pure data; installers,
telemetry, runtimes, chat protocols and the web front end, which are I/O. The web
front end and the chat bridges are more than half of the repository's lines and
keep no state that outlives a request or that another part relies on, apart from
the queueing of chat messages, which is `InteractiveDrain`.

## Plan

Done: 1 `HookQueue`, `HookDrain`, `SerialDelivery`; 2 `Backoff`, `RetryPolicy`;
3 `RateLimit`; 4 `InteractiveDrain`; 5 `HookScheduling`; 6 `ThreadSessions`;
7 `RunLadder`; 8 `CronJobs` composed with `RateLimit`; 9 `PrState`;
10 `AlertIntake`; 11 `CveRemediation`; and the proofs of their invariants
and action properties.

Next, in this order:

12. `HookAdmission` (`hookLoad.ts`) with its arithmetic, refining `Capacity`.
13. The cursors of the CVE feeds across partial pages (`cve-poller.ts`), in front of
    `CveRemediation`'s feed.
14. `RunLadder` composed with `RateLimit` and with `ThreadSessions`, in place of the
    one-slot stores and of the free choice of a limit.
