-------------------------- MODULE CveRemediation --------------------------
(***************************************************************************)
(* From a scan of a repository's lockfiles to the turns that remove what   *)
(* it found: the scan and its reconciliation (errandd/app/                 *)
(* cve-subscriptions.ts), the dispatch it shares with the advisory feed    *)
(* (hooks/cve.ts, cve-feed-dispatch.ts), the episode of a package          *)
(* (cve-remediation-episodes.ts) and the loop that queues another turn as  *)
(* long as a finding is open (cve-remediation-loop.ts).                    *)
(*                                                                         *)
(* One repository and one package: all advisories concern that package,    *)
(* so they share a lane of episodes.  Routines are numbered in the order   *)
(* of their names.  A scan covers every path, an affected version keeps    *)
(* being the same, and nobody records that an advisory does not apply.     *)
(* Rows that say the same are one row.  Which of its ready rows a batch    *)
(* takes, and what becomes of it, is HookDrain's subject.                  *)
(***************************************************************************)
EXTENDS Integers, FiniteSets, FiniteSetsExt

CONSTANTS
  Advisory,
  Routines,    \* how many routines subscribe to the repository
  Accepts,     \* the advisories each routine's rule matches
  MaxCommits,  \* bound: commits that change what the lockfiles are open to
  MaxTroubles  \* bound: crashes, failed scans, refused rows, deferred batches,
               \* and newer records of an advisory in a feed

Job == 1..Routines

ASSUME CveAssumption ==
  /\ {Routines, MaxCommits, MaxTroubles} \subseteq Nat
  /\ IsFiniteSet(Advisory)
  /\ Accepts \in [Job -> SUBSET Advisory]

Episode == 0..MaxCommits \* an episode ends by a commit
Unseen == -1              \* no receipt

Finding == [status : {"affected", "resolved"}, generation : Nat, episode : Episode]
NoFinding == [status |-> "none"]

VARIABLES
  commits,    \* commits so far
  vulnerable, \* the advisories the lockfiles are open to
  receipt,    \* the generation last acknowledged for an advisory
  generation, \* the current episode: its number and its members, those
  open,       \* that are to be remedied and
  done,       \* those that are resolved
  findings,   \* the saved scan of each routine, and
  outcome,    \* whether it has one and the last succeeded
  ahead,      \* history: advisories saved as resolved though their return had
              \* been acknowledged, until saved in the current episode
  owner,      \* the routine that continues an episode, 0 if none
  evidence,   \* what the last continuation of an episode was queued for
  resting,    \* episodes whose next continuation is not due yet
  pending, running,  \* rows of the hook queue
  ids,        \* the ids of alerts ever queued
  told,       \* what the turn of a thread was told to remedy
  scan,       \* the scan under way, or NoScan
  feed,       \* a newer record is due, and whose dispatch of it is left
  troubles

world == <<commits, vulnerable>>
lane == <<generation, open, done>>
scans == <<findings, outcome, ahead>>
loop == <<owner, evidence, resting>>
rows == <<pending, running, ids, told>>
vars == <<world, receipt, lane, scans, loop, rows, scan, feed, troubles>>

Row == [kind : {"alert", "continue"}, job : Job, about : SUBSET Advisory, episode : Episode]
NoScan == [at |-> "off"]
NoFeed == [due |-> FALSE, left |-> {}]
NoPoll == scan = NoScan /\ feed = NoFeed

Trouble == troubles < MaxTroubles /\ troubles' = troubles + 1

Init ==
  /\ commits = 0 /\ vulnerable \in SUBSET Advisory
  /\ receipt = [a \in Advisory |-> Unseen]
  /\ generation = 0 /\ open = {} /\ done = {}
  /\ findings = [j \in Job |-> [a \in Advisory |-> NoFinding]]
  /\ outcome = [j \in Job |-> "none"] /\ ahead = {}
  /\ owner = [e \in Episode |-> 0] /\ evidence = [e \in Episode |-> {}] /\ resting = {}
  /\ pending = {} /\ running = {} /\ ids = {}
  /\ told = [j \in Job |-> [e \in Episode |-> {}]]
  /\ scan = NoScan /\ feed = NoFeed /\ troubles = 0

-----------------------------------------------------------------------------
(* What the saved scans say.                                               *)

(* What is affected, of the scans that succeeded. *)
Open(j) == {a \in Advisory : outcome[j] = "ok" /\ findings[j][a].status = "affected"}

(* Slip: what was found once counts, resolved or not. *)
PlanOfEverFound(j, e) ==
  {a \in Advisory : outcome[j] = "ok" /\ findings[j][a] # NoFinding /\ findings[j][a].episode = e}

(* cveRemediationPlans: the findings of an episode, whose they are, and    *)
(* who continues it. *)
PlanOf(j, e) == {a \in Open(j) : findings[j][a].episode = e}
Plan(e) == UNION {PlanOf(j, e) : j \in Job}
Subscribed(e) == {j \in Job : PlanOf(j, e) # {}}
Planned == {e \in Episode : Plan(e) # {}}
Owner(e) == IF owner[e] \in Subscribed(e) THEN owner[e] ELSE Min(Subscribed(e))

-----------------------------------------------------------------------------
(* The rows of the queue, the loop that adds continuations, the batches.   *)

Of(S, j, e) == {r \in S : r.job = j /\ r.episode = e}
Continuation(j, e) == [kind |-> "continue", job |-> j, about |-> {}, episode |-> e]

(* Slip: only new evidence is reason for another turn. *)
ContinueFromOnEvidence(waiting, working) ==
  LET obsolete == {r \in waiting : r.kind = "continue"
                     /\ ~(r.episode \in Planned /\ r.job = Owner(r.episode))}
      busy(e) == \E r \in (waiting \ obsolete) \cup working : r.job \in Subscribed(e) /\ r.episode = e
      due == {e \in Planned : ~busy(e) /\ evidence[e] # Plan(e)}
  IN  /\ owner' = [e \in Episode |-> IF e \in Planned THEN Owner(e) ELSE owner[e]]
      /\ pending' = (waiting \ obsolete) \cup {Continuation(Owner(e), e) : e \in due}
      /\ evidence' = [e \in Episode |-> IF e \in due THEN Plan(e) ELSE evidence[e]]
      /\ resting' = resting \cup due

(* continueCveRemediations, with the rows `waiting` pending and `working`  *)
(* running: continuations of nothing that is open are dropped, and every   *)
(* episode with open findings that has no row and whose time has come, or  *)
(* whose findings are others now, gets one.                                *)
ContinueFrom(waiting, working) ==
  LET obsolete == {r \in waiting : r.kind = "continue"
                     /\ ~(r.episode \in Planned /\ r.job = Owner(r.episode))}
      busy(e) == \E r \in (waiting \ obsolete) \cup working : r.job \in Subscribed(e) /\ r.episode = e
      due == {e \in Planned : ~busy(e) /\ ~(e \in resting /\ evidence[e] = Plan(e))}
  IN  /\ owner' = [e \in Episode |-> IF e \in Planned THEN Owner(e) ELSE owner[e]]
      /\ pending' = (waiting \ obsolete) \cup {Continuation(Owner(e), e) : e \in due}
      /\ evidence' = [e \in Episode |-> IF e \in due THEN Plan(e) ELSE evidence[e]]
      /\ resting' = resting \cup due

(* The tick of pollCves: the end of a poll, or none was due. *)
Continue ==
  /\ NoPoll
  /\ ContinueFrom(pending, running)
  /\ UNCHANGED <<world, receipt, lane, scans, running, ids, told, scan, feed, troubles>>

(* The time of the next continuation comes. *)
RestEnds(e) ==
  /\ e \in resting
  /\ resting' = resting \ {e}
  /\ UNCHANGED <<world, receipt, lane, scans, owner, evidence, rows, scan, feed, troubles>>

(* A batch of a thread claims rows.  Continuations alone are dropped if    *)
(* nothing is left to continue; otherwise the turn is told of what is open *)
(* now. *)
BatchStarts(j, e) ==
  /\ Of(running, j, e) = {}
  /\ \E S \in SUBSET {r \in Of(pending, j, e) : r.kind = "continue" => e \notin resting} \ {{}} :
       LET planned == e \in Planned /\ Owner(e) = j IN
       /\ pending' = pending \ S
       /\ IF ~planned /\ \A r \in S : r.kind = "continue"
          THEN UNCHANGED <<running, told>>
          ELSE /\ running' = running \cup S
               /\ told' = [told EXCEPT ![j][e] =
                    UNION {r.about : r \in S} \cup (IF planned THEN Plan(e) ELSE {})]
  /\ UNCHANGED <<world, receipt, lane, scans, loop, ids, scan, feed, troubles>>

Ends(j, e) == Of(running, j, e) # {} /\ told' = [told EXCEPT ![j][e] = {}]

(* A turn that ends well queues the next one; one that is given up does    *)
(* not; one that is deferred is tried again.                               *)
BatchDone(j, e) ==
  /\ Ends(j, e)
  /\ running' = running \ Of(running, j, e)
  /\ ContinueFrom(pending, running')
  /\ UNCHANGED <<world, receipt, lane, scans, ids, scan, feed, troubles>>

BatchGivenUp(j, e) ==
  /\ Ends(j, e)
  /\ running' = running \ Of(running, j, e)
  /\ UNCHANGED <<world, receipt, lane, scans, loop, pending, ids, scan, feed, troubles>>

BatchDeferred(j, e) ==
  /\ Ends(j, e) /\ Trouble
  /\ running' = running \ Of(running, j, e)
  /\ pending' = pending \cup Of(running, j, e)
  /\ UNCHANGED <<world, receipt, lane, scans, loop, ids, scan, feed>>

(* resolvePendingCve. *)
Resolved(S, j, A) == {r \in S : r.job = j /\ r.kind = "alert" /\ r.about \cap A # {}}

-----------------------------------------------------------------------------
(* Dispatch: an episode, a row, a receipt.                                 *)

(* assignRemediationEpisode: only an advisory its members do not know      *)
(* opens a new episode after the last one was completed.                   *)
Assign(a) ==
  IF open = {} /\ done # {} /\ a \notin done
  THEN generation' = generation + 1 /\ open' = {a} /\ done' = {}
  ELSE generation' = generation /\ open' = open \cup {a} /\ done' = done \ {a}

(* enqueueHook under the alert's id, which names no routine. *)
Enqueue(a, j, g) ==
  LET id == <<a, g, generation'>> IN
  /\ ids' = ids \cup {id}
  /\ pending' = pending \cup
       (IF id \in ids THEN {}
        ELSE {[kind |-> "alert", job |-> j, about |-> {a}, episode |-> generation']})
  /\ UNCHANGED <<running, told>>

-----------------------------------------------------------------------------
(* The scan: CveSubscriptionMonitor.poll.                                  *)

(* A poll starts: the lockfiles as they are at one commit.  Beside the     *)
(* scan, a feed may bring a newer record.                                  *)
ScanReads ==
  /\ NoPoll
  /\ scan' = [at |-> "routine", found |-> vulnerable, left |-> Job]
  /\ \/ feed' = NoFeed /\ UNCHANGED troubles
     \/ feed' = [NoFeed EXCEPT !.due = TRUE] /\ Trouble
  /\ UNCHANGED <<world, receipt, lane, scans, loop, rows>>

(* reconcileCveScan begins: what was saved before is read once. *)
ScanTakes(j) ==
  /\ scan.at = "routine" /\ j \in scan.left
  /\ scan' = [at |-> "advisories", found |-> scan.found,
               left |-> scan.left \ {j}, job |-> j, before |-> findings[j],
               todo |-> scan.found \cap Accepts[j], made |-> [a \in Advisory |-> NoFinding], fired |-> NoFinding]
  /\ UNCHANGED <<world, receipt, lane, scans, loop, rows, feed, troubles>>

(* The finding's generation is another one if it had been resolved. *)
Generation(a) ==
  LET old == scan.before[a] IN
  CASE old = NoFinding -> 0
    [] old.status = "resolved" -> old.generation + 1
    [] old.status = "affected" -> old.generation

(* Slip: a known finding stays in the episode it had. *)
MadeKeepingEpisode(a) ==
  [status |-> "affected", generation |-> Generation(a),
   episode |-> IF scan.before[a] # NoFinding THEN scan.before[a].episode
               ELSE IF a \in open \cup done THEN generation ELSE 0]

(* The finding, in the current episode if that has it as a member. *)
Made(a) ==
  [status |-> "affected", generation |-> Generation(a),
   episode |-> IF a \in open \cup done THEN generation
               ELSE IF scan.before[a] = NoFinding THEN 0 ELSE scan.before[a].episode]

Unacknowledged(a) == scan.at = "advisories" /\ a \in scan.todo /\ receipt[a] # Generation(a)

(* Nothing to queue: acknowledged before. *)
ScanPasses(a) ==
  /\ scan.at = "advisories" /\ a \in scan.todo
  /\ receipt[a] = Generation(a)
  /\ scan' = [scan EXCEPT !.todo = @ \ {a}, !.made[a] = Made(a)]
  /\ UNCHANGED <<world, receipt, lane, scans, loop, rows, feed, troubles>>

(* The episode and the row; the receipt follows the queue's answer. *)
ScanFires(a) ==
  /\ Unacknowledged(a)
  /\ Assign(a)
  /\ Enqueue(a, scan.job, Generation(a))
  /\ scan' = [scan EXCEPT !.at = "fired", !.fired = a]
  /\ UNCHANGED <<world, receipt, scans, loop, feed, troubles>>

ScanAcknowledges ==
  /\ scan.at = "fired"
  /\ receipt' = [receipt EXCEPT ![scan.fired] = Generation(scan.fired)]
  /\ scan' = [scan EXCEPT !.at = "advisories", !.todo = @ \ {scan.fired},
                          !.made[scan.fired] = Made(scan.fired), !.fired = NoFinding]
  /\ UNCHANGED <<world, lane, scans, loop, rows, feed, troubles>>

(* What was found before and is not found now is resolved. *)
Kept(a) ==
  LET old == scan.before[a] IN
  IF a \in scan.found \/ old = NoFinding THEN old ELSE [old EXCEPT !.status = "resolved"]
Saved == [a \in Advisory |-> IF scan.made[a] # NoFinding THEN scan.made[a] ELSE Kept(a)]

(* withSubscriptionEvidence, updateEpisodes: the newest episode among the  *)
(* findings of all routines.  An advisory is resolved there if every       *)
(* routine whose last scan succeeded says so and the others never found it. *)
Reconciled(j) ==
  LET all == [findings EXCEPT ![j] = Saved]
      found == {p \in Job \X Advisory : all[p[1]][p[2]] # NoFinding}
      newest == Max({all[p[1]][p[2]].episode : p \in found})
      members == {p \in found : all[p[1]][p[2]].episode = newest}
      affected(p) == all[p[1]][p[2]].status = "affected" \/ (p[1] # j /\ outcome[p[1]] = "error")
      unresolved == {p[2] : p \in {q \in members : affected(q)}}
      resolved == {p[2] : p \in members} \ unresolved
  IN  IF \/ \E k \in Job \ {j} : outcome[k] = "none"    \* no evidence of k yet
         \/ found = {} \/ generation > newest
      THEN UNCHANGED lane
      ELSE /\ open' = (open \ resolved) \cup unresolved
           /\ done' = (done \ unresolved) \cup resolved
           /\ generation' = generation

(* The scan of a routine is saved and its episode reconciled. *)
ScanSaves ==
  /\ scan.at = "advisories" /\ scan.todo = {}
  /\ findings' = [findings EXCEPT ![scan.job] = Saved]
  /\ outcome' = [outcome EXCEPT ![scan.job] = "ok"]
  /\ ahead' = {a \in Advisory :
       IF Saved[a].status = "resolved" /\ receipt[a] = Saved[a].generation + 1 THEN TRUE
       ELSE a \in ahead /\ ~(Saved[a].status = "affected" /\ Saved[a].episode = generation)}
  /\ Reconciled(scan.job)
  /\ scan' = [scan EXCEPT !.at = "saved"]
  /\ UNCHANGED <<world, receipt, loop, rows, feed, troubles>>

(* Alerts of what is resolved need no turn any more. *)
ScanResolves ==
  /\ scan.at = "saved"
  /\ LET j == scan.job
         gone == {a \in Advisory : findings[j][a].status = "resolved"}
     IN  pending' = pending \ Resolved(pending, j, gone)
  /\ scan' = IF scan.left = {} THEN NoScan
             ELSE [at |-> "routine", found |-> scan.found, left |-> scan.left]
  /\ UNCHANGED <<world, receipt, lane, scans, loop, running, ids, told, feed, troubles>>

(* The lockfiles could not be scanned, or the queue refused a row (its     *)
(* episode is assigned by then): all routines keep what they had.          *)
ScanFails ==
  /\ \/ NoPoll /\ UNCHANGED lane
     \/ \E a \in Advisory : Unacknowledged(a) /\ Assign(a)
  /\ Trouble
  /\ scan' = NoScan
  /\ outcome' = [j \in Job |-> "error"]
  /\ UNCHANGED <<world, receipt, findings, ahead, loop, rows, feed>>

-----------------------------------------------------------------------------
(* The feed: a newer record of an advisory, dispatchPolledCveAlert.        *)

FeedReads(a) ==
  /\ feed.due
  /\ feed' = [due |-> FALSE, left |-> {<<a, j>> : j \in {k \in Job : a \in Open(k)}}]
  /\ UNCHANGED <<world, receipt, lane, scans, loop, rows, scan, troubles>>

(* The dispatches of the scan and of the feed take turns. *)
FeedDispatches(a, j) ==
  /\ <<a, j>> \in feed.left /\ (\A other \in feed.left : j <= other[2]) /\ scan.at # "fired"
  /\ IF receipt[a] = 0
     THEN UNCHANGED <<receipt, lane, rows>>
     ELSE /\ Assign(a)
          /\ Enqueue(a, j, 0)
          /\ receipt' = [receipt EXCEPT ![a] = 0]
  /\ feed' = [feed EXCEPT !.left = @ \ {<<a, j>>}]
  /\ UNCHANGED <<world, scans, loop, scan, troubles>>

-----------------------------------------------------------------------------
(* The repository and the process.                                         *)

(* A commit: a turn's, or anyone's, may cure the lockfiles or hurt them.   *)
Commit(V) ==
  /\ commits < MaxCommits /\ V # vulnerable
  /\ commits' = commits + 1 /\ vulnerable' = V
  /\ UNCHANGED <<receipt, lane, scans, loop, rows, scan, feed, troubles>>

(* A kill and the next start, which requeues what was running. *)
Crash ==
  /\ Trouble
  /\ pending' = pending \cup running /\ running' = {}
  /\ told' = [j \in Job |-> [e \in Episode |-> {}]]
  /\ scan' = NoScan /\ feed' = NoFeed
  /\ UNCHANGED <<world, receipt, lane, scans, loop, ids>>

-----------------------------------------------------------------------------
Scan ==
  \/ ScanReads \/ \E j \in Job : ScanTakes(j)
  \/ \E a \in Advisory : ScanPasses(a) \/ ScanFires(a)
  \/ ScanAcknowledges \/ ScanSaves \/ ScanResolves

Feed == \E a \in Advisory : FeedReads(a) \/ \E j \in Job : FeedDispatches(a, j)

Batch(j, e) == BatchDone(j, e) \/ BatchGivenUp(j, e)

Next ==
  \/ Scan \/ ScanFails \/ Continue
  \/ \E e \in Episode : RestEnds(e)
  \/ \E j \in Job, e \in Episode : BatchStarts(j, e) \/ Batch(j, e) \/ BatchDeferred(j, e)
  \/ Feed
  \/ \E V \in SUBSET Advisory : Commit(V)
  \/ Crash

Spec == Init /\ [][Next]_vars

Fairness ==
  /\ WF_vars(Scan) /\ WF_vars(Feed) /\ SF_vars(Continue)
  /\ WF_vars(\E e \in Episode : RestEnds(e))
  /\ \A j \in Job, e \in Episode : WF_vars(BatchStarts(j, e) \/ Batch(j, e))

FairSpec == Spec /\ Fairness

-----------------------------------------------------------------------------
(* Properties.                                                             *)

(* Of a repository with one routine: between polls, when the last scan     *)
(* succeeded, every finding that is affected is an open member of the      *)
(* current episode and bears its number, whatever was acknowledged,        *)
(* refused or cut short before.  The two are written apart                 *)
(* (cve-subscriptions.ts 106, cve-remediation-episodes.ts 45): a finding   *)
(* left in an older episode would get a second chat and a second branch    *)
(* beside the current one's.  It does happen to an advisory whose return   *)
(* was acknowledged by a scan that was cut short, and that was cured       *)
(* before the next: its receipt is ahead of its finding, so that its next  *)
(* return passes as acknowledged.  `ahead' names those.                    *)
EpisodeTracksAffected ==
  (\A j \in Job : outcome[j] = "ok") /\ scan = NoScan =>
    \A j \in Job : \A a \in Open(j) \ ahead : a \in open /\ findings[j][a].episode = generation

(* "Queue completion ends a turn; only current finding evidence ends       *)
(* remediation" (cve-remediation-loop.ts 17), one half: as long as the     *)
(* lockfiles are open to an advisory that a routine watches, turn after    *)
(* turn is told to remedy it, though turns be given up, scans fail, rows   *)
(* be refused and receipts written for rows the queue did not take.        *)
WorkedUntilGone ==
  \A a \in Advisory :
    (\E j \in Job : a \in Accepts[j]) /\ <>[](a \in vulnerable)
      => []<>(\E j \in Job, e \in Episode : a \in told[j][e])

(* The other half: once the lockfiles are clean, the queue empties and     *)
(* stays empty; no turn follows on what is resolved.                       *)
QuietOnceGone == <>[](vulnerable = {}) => <>[](pending = {} /\ running = {})

(* What docs/CVE_MONITORING.md:134 says: an advisory assessed before       *)
(* returns to its episode; only a new one opens another.  Broken by four   *)
(* commits, since the members of an episode know nothing of those before.  *)
ReopenedReused ==
  [][generation' # generation => \A a \in open', j \in Job : findings[j][a] = NoFinding]_vars

(* What app/__tests__/cve-remediation-episodes.test.ts:34 says: findings   *)
(* that are open share one lane.  Broken with two routines, since the      *)
(* receipt of one silences the other.                                      *)
OneLane == Cardinality({e \in Episode : Plan(e) # {}}) <= 1
=============================================================================
