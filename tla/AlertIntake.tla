---------------------------- MODULE AlertIntake ----------------------------
(***************************************************************************)
(* How an alert becomes rows of the hook queue: a webhook (errandd/app/    *)
(* hooks/webhookEnvelope.ts) or the poll of Sentry's unresolved issues     *)
(* (sentry-poller.ts), the match and first-seen pass both share            *)
(* (dispatchSentryAlert, hooks/sentry.ts), and the insertion of one row    *)
(* per routine (enqueueHook of start.ts, HookQueue.enqueue).               *)
(*                                                                         *)
(* The routines here are those whose rule matches.  The rows are only      *)
(* counted: what the drain makes of them is HookDrain's subject.           *)
(***************************************************************************)
EXTENDS Naturals, Sequences, FiniteSets

CONSTANTS
  Routine,     \* routines that match
  FirstSeen,   \* those whose rule has firstSeen
  Issues,      \* bound: issues that ever occur, numbered as they do
  Page,        \* issues on a page (PAGE_SIZE, 10 in the code)
  MaxHooks,    \* bound: webhooks, by delivery id
  MaxRevision, \* bound: revisions of an issue
  MaxTroubles  \* bound: crashes, refused writes, forgotten deliveries

ASSUME IntakeAssumption ==
  /\ FirstSeen \subseteq Routine
  /\ {Issues, Page, MaxHooks, MaxRevision} \subseteq Nat \ {0}
  /\ MaxTroubles \in Nat

Issue == 1..Issues
Via == {"hook", "poll"}

VARIABLES
  revision,   \* Sentry: the issue's revision, 0 before it occurs
  sent,       \* webhooks sent, under way or to be redelivered; ids from 1
  accepted,   \* delivery ids recorded within the last 24 hours
  seen,       \* the first-seen ledger
  queue,      \* rows of the hook queue
  dispatches, \* calls of dispatchSentryAlert under way
  poll,       \* the poll under way: "off", "listing" or "issues"
  page,       \* issues of the page still to be visited
  next,       \* where the next poll begins if this one succeeds
  cursor,     \* where the poll began: issues to pass over
  receipts,   \* the revision of each issue the poll has a receipt for
  troubles,
  hurt        \* history: issues an alert of which was cut off by a crash, a
              \* refused write, or an id taken by the alert's own first row

stores == <<accepted, seen, queue, receipts>>
polling == <<poll, page, next, cursor>>
vars == <<revision, sent, stores, dispatches, polling, troubles, hurt>>

(* A row's id is the delivery's for a webhook; the poll makes it from the  *)
(* issue, its revision and the routine.                                    *)
Row == [via : Via, number : Nat, issue : Issue, routine : Routine]
Hook == [id : 1..MaxHooks, issue : Issue]
Dispatch ==
  [via : Via, number : Nat, issue : Issue, judged : BOOLEAN,
   woken : SUBSET Routine, todo : SUBSET Routine]

TypeOK ==
  /\ revision \in [Issue -> 0..MaxRevision]
  /\ sent \subseteq Hook /\ accepted \subseteq 1..MaxHooks
  /\ seen \subseteq Issue /\ hurt \subseteq Issue
  /\ queue \subseteq Row /\ dispatches \subseteq Dispatch
  /\ poll \in {"off", "listing", "issues"}
  /\ page \in Seq(Issue) /\ next \in 0..Issues /\ cursor \in 0..Issues
  /\ receipts \in [Issue -> 0..MaxRevision]
  /\ troubles \in 0..MaxTroubles

Init ==
  /\ revision = [i \in Issue |-> 0] /\ receipts = [i \in Issue |-> 0]
  /\ sent = {} /\ accepted = {} /\ seen = {} /\ queue = {} /\ dispatches = {}
  /\ poll = "off" /\ page = <<>> /\ next = 0 /\ cursor = 0
  /\ troubles = 0 /\ hurt = {}

Trouble == troubles < MaxTroubles /\ troubles' = troubles + 1

-----------------------------------------------------------------------------
(* Sentry: an issue occurs, occurs again or changes, and a webhook may say *)
(* so, under a new delivery id.                                            *)
Existing == {i \in Issue : revision[i] > 0}

Occurs(i) ==
  /\ revision[i] < MaxRevision
  /\ i > 1 => revision[i - 1] > 0
  /\ revision' = [revision EXCEPT ![i] = @ + 1]
  /\ UNCHANGED <<sent, stores, dispatches, polling, troubles, hurt>>

Sends(i) ==
  /\ i \in Existing /\ Cardinality(sent) < MaxHooks
  /\ sent' = sent \cup {[id |-> Cardinality(sent) + 1, issue |-> i]}
  /\ UNCHANGED <<revision, stores, dispatches, polling, troubles, hurt>>

-----------------------------------------------------------------------------
Begun(via, n, i) ==
  [via |-> via, number |-> n, issue |-> i, judged |-> FALSE, woken |-> {}, todo |-> {}]

(* handleSignedWebhook: a webhook arrives, perhaps once more; recordDelivery *)
(* tells whether its id is new.                                            *)
Arrives(h) ==
  /\ h \in sent
  /\ accepted' = accepted \cup {h.id}
  /\ dispatches' = IF h.id \in accepted THEN dispatches
                   ELSE dispatches \cup {Begun("hook", h.id, h.issue)}
  /\ dispatches' # dispatches
  /\ UNCHANGED <<revision, sent, seen, queue, receipts, polling, troubles, hurt>>

(* Slip: whether the issue is new is looked up but not recorded. *)
JudgeWithoutClaim(d) ==
  /\ d \in dispatches /\ ~d.judged
  /\ LET woken == IF d.issue \in seen THEN Routine \ FirstSeen ELSE Routine
     IN  dispatches' = (dispatches \ {d}) \cup {[d EXCEPT !.judged = TRUE, !.woken = woken, !.todo = woken]}
  /\ UNCHANGED <<revision, sent, stores, polling, troubles, hurt>>

(* The gate of dispatchSentryAlert: markIssueSeen, once per delivery.      *)
Judge(d) ==
  /\ d \in dispatches /\ ~d.judged
  /\ seen' = IF FirstSeen = {} THEN seen ELSE seen \cup {d.issue}
  /\ LET woken == IF d.issue \in seen THEN Routine \ FirstSeen ELSE Routine
     IN  dispatches' = (dispatches \ {d}) \cup
                         {[d EXCEPT !.judged = TRUE, !.woken = woken, !.todo = woken]}
  /\ UNCHANGED <<revision, sent, accepted, queue, receipts, polling, troubles, hurt>>

RowOf(d, r) == [via |-> d.via, number |-> d.number, issue |-> d.issue, routine |-> r]

SameId(q, row) ==
  /\ q.via = row.via /\ q.number = row.number
  /\ q.via = "poll" => q.issue = row.issue /\ q.routine = row.routine

Known(row) == \E q \in queue : SameId(q, row)

(* onHookFire, that is enqueueHook: a row with a known id is ignored, and  *)
(* an error of the queue is logged and goes no further.                    *)
Fire(d, r) ==
  /\ d \in dispatches /\ r \in d.todo
  /\ dispatches' = (dispatches \ {d}) \cup {[d EXCEPT !.todo = @ \ {r}]}
  /\ LET row == RowOf(d, r) IN
     \/ /\ queue' = IF Known(row) THEN queue ELSE queue \cup {row}
        /\ hurt' = IF row \notin queue' THEN hurt \cup {d.issue} ELSE hurt
        /\ UNCHANGED troubles
     \/ Trouble /\ hurt' = hurt \cup {d.issue} /\ UNCHANGED queue
  /\ UNCHANGED <<revision, sent, accepted, seen, receipts, polling>>

Finished(d) == d \in dispatches /\ d.judged /\ d.todo = {}

Answered(d) ==
  /\ Finished(d) /\ d.via = "hook"
  /\ dispatches' = dispatches \ {d}
  /\ UNCHANGED <<revision, sent, stores, polling, troubles, hurt>>

-----------------------------------------------------------------------------
(* SentryPoller.poll: one at a time; the newest issues first.              *)
Poll ==
  /\ poll = "off"
  /\ poll' = "listing"
  /\ UNCHANGED <<revision, sent, stores, dispatches, page, next, cursor, troubles, hurt>>

Least(a, b) == IF a <= b THEN a ELSE b

(* Nth newest of the issues there are. *)
Newest(i, n) == Cardinality({j \in Existing : j > i}) = n

Listed ==
  /\ poll = "listing" /\ poll' = "issues"
  /\ LET count == Cardinality(Existing)
         last == Least(cursor + Page, count)
         size == IF last > cursor THEN last - cursor ELSE 0
     IN  /\ page' \in {p \in [1..size -> Existing] : \A k \in 1..size : Newest(p[k], cursor + k - 1)}
         /\ next' = IF last < count THEN last ELSE 0
  /\ UNCHANGED <<revision, sent, stores, dispatches, cursor, troubles, hurt>>

Ours == {d \in dispatches : d.via = "poll"}

(* The next issue of the page: its latest event decides the revision.      *)
Visit ==
  /\ poll = "issues" /\ page # <<>> /\ Ours = {}
  /\ LET i == Head(page) IN
     IF receipts[i] = revision[i]
     THEN page' = Tail(page) /\ UNCHANGED dispatches
     ELSE dispatches' = dispatches \cup {Begun("poll", revision[i], i)} /\ UNCHANGED page
  /\ UNCHANGED <<revision, sent, stores, poll, next, cursor, troubles, hurt>>

(* Slip: the receipt is written before the rows. *)
ReceiptedEarly(d) ==
  /\ d \in dispatches /\ d.judged /\ d.via = "poll"
  /\ receipts[d.issue] # d.number
  /\ receipts' = [receipts EXCEPT ![d.issue] = d.number]
  /\ page' = Tail(page)
  /\ UNCHANGED dispatches
  /\ UNCHANGED <<revision, sent, accepted, seen, queue, poll, next, cursor, troubles, hurt>>

(* The receipt, once the rows are in the queue.                            *)
Receipted(d) ==
  /\ Finished(d) /\ d.via = "poll"
  /\ receipts' = [receipts EXCEPT ![d.issue] = d.number]
  /\ page' = Tail(page)
  /\ dispatches' = dispatches \ {d}
  /\ UNCHANGED <<revision, sent, accepted, seen, queue, poll, next, cursor, troubles, hurt>>

(* Slip: the cursor moves on although the page was not finished. *)
PollFailsAdvancing ==
  /\ poll = "listing" \/ (poll = "issues" /\ page # <<>> /\ Ours = {})
  /\ poll' = "off" /\ page' = <<>> /\ next' = 0
  /\ cursor' = next
  /\ UNCHANGED <<revision, sent, stores, dispatches, troubles, hurt>>

PollEnds ==
  /\ poll = "issues" /\ page = <<>>
  /\ poll' = "off" /\ cursor' = next /\ next' = 0
  /\ UNCHANGED <<revision, sent, stores, dispatches, page, troubles, hurt>>

(* A request fails: the page is visited again.                             *)
PollFails ==
  /\ poll = "listing" \/ (poll = "issues" /\ page # <<>> /\ Ours = {})
  /\ poll' = "off" /\ page' = <<>> /\ next' = 0
  /\ UNCHANGED <<revision, sent, stores, dispatches, cursor, troubles, hurt>>

-----------------------------------------------------------------------------
(* The process is killed and starts again; the delivery log forgets ids    *)
(* after a day and keeps a bounded number across a restart.                *)
Restart ==
  /\ Trouble
  /\ dispatches' = {}
  /\ hurt' = hurt \cup {d.issue : d \in {e \in dispatches : e.judged}}
  /\ poll' = "off" /\ page' = <<>> /\ next' = 0
  /\ UNCHANGED <<revision, sent, stores, cursor>>

Forget(id) ==
  /\ Trouble
  /\ id \in accepted /\ accepted' = accepted \ {id}
  /\ UNCHANGED <<revision, sent, seen, queue, receipts, dispatches, polling, hurt>>

Dispatches ==
  \E d \in dispatches :
    \/ Judge(d) \/ Answered(d) \/ Receipted(d)
    \/ \E r \in Routine : Fire(d, r)

Polls == Poll \/ Listed \/ Visit \/ PollEnds \/ PollFails

Next ==
  \/ \E i \in Issue : Occurs(i) \/ Sends(i)
  \/ \E h \in sent : Arrives(h)
  \/ Dispatches \/ Polls
  \/ Restart \/ \E id \in accepted : Forget(id)

Spec == Init /\ [][Next]_vars

(* Ticks go on; requests keep succeeding often enough for a page to be     *)
(* listed, visited and finished; a dispatch runs to its end.               *)
FairSpec ==
  /\ Spec
  /\ WF_vars(Dispatches) /\ WF_vars(Poll)
  /\ SF_vars(Listed) /\ SF_vars(Visit) /\ SF_vars(PollEnds)

-----------------------------------------------------------------------------
Rows(i, r) == {q \in queue : q.issue = i /\ q.routine = r}

(* sentrySeen.ts:4-7: the triage routine runs for an issue when it is      *)
(* first observed and stays quiet afterwards; whichever webhooks and polls *)
(* of the issue overlap, are repeated, or are cut off by a restart.        *)
TriagedOnce == \A i \in Issue, r \in FirstSeen : Cardinality(Rows(i, r)) <= 1

(* A receipt, which keeps the poll from ever looking at that revision      *)
(* again, is there only when its rows are; the triage routine's row may    *)
(* still be owed by the webhook that came first.                           *)
ReceiptAfterRows ==
  \A i \in Issue \ hurt, r \in Routine : receipts[i] > 0 =>
    \/ \E q \in Rows(i, r) : r \notin FirstSeen => q.via = "poll" /\ q.number = receipts[i]
    \/ r \in FirstSeen /\ \E d \in dispatches : d.issue = i /\ r \in d.todo

(* Every issue reaches every routine, by webhook or by poll, though any    *)
(* request of a poll may fail and any webhook may be lost; the exceptions  *)
(* are the three ways of `hurt`.                                           *)
EveryIssueQueued ==
  \A i \in Issue, r \in Routine : (revision[i] > 0) ~> (Rows(i, r) # {} \/ i \in hurt)

(* sentry.ts:171-172: "a single new-issue delivery may match multiple      *)
(* first-seen jobs; ALL of them should run on that first occurrence".  A   *)
(* webhook is answered when all the routines it woke have their row.       *)
AllWokenAreQueued ==
  [][\A d \in dispatches : Answered(d) =>
       troubles > 0 \/ \A r \in d.woken : Rows(d.issue, r) # {}]_vars
=============================================================================
