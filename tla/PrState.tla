------------------------------ MODULE PrState ------------------------------
(***************************************************************************)
(* What the daemon believes of pull requests (errandd/app/pr-state.ts) and *)
(* where it learns it: webhooks, which GitHub sends once per change and    *)
(* the network delays, reorders, drops or repeats; the poll of the open    *)
(* list (pr-poller.ts); and the lookup of the pull requests the hook queue *)
(* knows and the list lacks (pr-backfill.ts).                              *)
(*                                                                         *)
(* `mergeable` of an entry is only shown, and left out.  The store's       *)
(* `revision` only serves to tell whether a pull request was written since *)
(* a fetch began (previous.revision > startedRevision); here that is the   *)
(* set `touched`.  The pull requests are those of one repository, whose    *)
(* polls run one at a time.                                                *)
(***************************************************************************)
EXTENDS Naturals, FiniteSets

CONSTANTS
  PR,
  Known,        \* pull requests with rows in the hook queue
  MaxChanges,   \* bound: changes of a pull request at GitHub
  MaxTroubles,  \* bound: crashes, failed writes, webhooks delivered once more,
                \* conflicts that come or go with the base branch
  Legacy        \* states of rows an older version wrote without a timestamp

Git == {"open", "draft", "closed", "merged"}
State == Git \cup {"conflicted"}

ASSUME PrAssumption ==
  /\ Known \subseteq PR
  /\ MaxChanges \in Nat /\ MaxTroubles \in Nat
  /\ Legacy \subseteq State

VARIABLES
  truth,    \* GitHub: git, dirty, at (updated_at) and the number of changes
  hooks,    \* webhooks on their way
  store,    \* the map in memory, and the row on disk, of each pull request:
  disk,     \*   a set with one observation, or none
  list,     \* the last open list, in memory and in the read cache
  seeded,   \* hydrateCache has run since boot
  fetch,    \* the fetch of the poll cycle: "none", "list", "late list" (answered),
            \*   "between", "nodes", "late nodes"
  answer,   \* what GitHub answered to it
  asked,    \* pull requests the lookup asks for
  touched,  \* pull requests written since the fetch began
  troubles  \* how many there have been

remote == <<truth, hooks>>
cycle == <<fetch, answer, asked>>
vars == <<remote, store, disk, list, seeded, cycle, touched, troubles>>

(* `src` is sourceUpdatedAtMs, 0 for null; `seen` is not in the code: how  *)
(* many changes the pull request had when GitHub said this.                *)
Observation == [git : State, src : Nat, seen : Nat]
Webhook == [pr : PR, said : Observation, again : BOOLEAN]
Listed == [draft : BOOLEAN, src : Nat, seen : Nat]

TypeOK ==
  /\ truth \in [PR -> [git : Git, dirty : BOOLEAN, at : Nat, changes : 0..MaxChanges]]
  /\ hooks \subseteq Webhook
  /\ \A rows \in {store, disk} : \A p \in PR :
       rows[p] \subseteq Observation /\ Cardinality(rows[p]) <= 1
  /\ \A p \in PR : list[p] \subseteq Listed /\ Cardinality(list[p]) <= 1
  /\ seeded \in BOOLEAN
  /\ fetch \in {"none", "list", "late list", "between", "nodes", "late nodes"}
  /\ asked \subseteq PR /\ touched \subseteq PR
  /\ troubles \in 0..MaxTroubles

Nothing == [p \in PR |-> {}]

Init ==
  /\ truth \in [PR -> [git : {"open", "closed"}, dirty : {FALSE}, at : {1}, changes : {0}]]
  /\ disk \in [PR -> {{}} \cup {{[git |-> g, src |-> 0, seen |-> 0]} : g \in Legacy}]
  /\ store = disk
  /\ hooks = {} /\ list = Nothing /\ seeded = FALSE
  /\ fetch = "none" /\ answer = Nothing /\ asked = {} /\ touched = {}
  /\ troubles = 0

Trouble == troubles < MaxTroubles /\ troubles' = troubles + 1

-----------------------------------------------------------------------------
(* GitHub.                                                                 *)
OpenAt(p) == truth[p].git \in {"open", "draft"}

(* derivePrState and derivePrStateFromGraphql: an open one that is dirty   *)
(* is conflicted, if GitHub has computed that already.                     *)
Derived(p) ==
  {truth[p].git} \cup (IF truth[p].git = "open" /\ truth[p].dirty THEN {"conflicted"} ELSE {})

Says(p, git) == [git |-> git, src |-> truth[p].at, seen |-> truth[p].changes]

Successor(git) ==
  CASE git = "open"   -> {"draft", "closed", "merged", "open"}
    [] git = "draft"  -> {"open", "closed", "draft"}
    [] git = "closed" -> {"open", "draft", "closed"}
    [] git = "merged" -> {"merged"}

(* Someone opens, closes, merges or merely labels a pull request, perhaps  *)
(* in the second of the change before; a webhook shows it as it is now.    *)
Change(p) ==
  /\ truth[p].changes < MaxChanges
  /\ \E git \in Successor(truth[p].git), later \in {0, 1} :
       truth' = [truth EXCEPT ![p].git = git, ![p].at = @ + later, ![p].changes = @ + 1]
  /\ \E git \in Derived(p)' : 
       hooks' = hooks \cup {[pr |-> p, said |-> Says(p, git)', again |-> FALSE]}
  /\ UNCHANGED <<store, disk, list, seeded, cycle, touched, troubles>>

(* The base branch moves: no event, and updated_at stays.                  *)
BaseMoves(p) ==
  /\ OpenAt(p) /\ Trouble
  /\ truth' = [truth EXCEPT ![p].dirty = ~@]
  /\ UNCHANGED <<hooks, store, disk, list, seeded, cycle, touched>>

(* A webhook is lost, or GitHub sends it once more. *)
Lost(h) ==
  /\ hooks' = hooks \ {h}
  /\ UNCHANGED <<truth, store, disk, list, seeded, cycle, touched, troubles>>

SentAgain(h) ==
  /\ Trouble /\ hooks' = hooks \cup {[h EXCEPT !.again = TRUE]}
  /\ ~h.again
  /\ UNCHANGED <<truth, store, disk, list, seeded, cycle, touched>>

-----------------------------------------------------------------------------
(* commitPrStates for the pull requests of `batch`; those in `changed`     *)
(* were written since the observation began.                               *)
Versioned(o) == o.src > 0

(* Slip: merged is not final. *)
AcceptsReopening(p, o, changed) ==
  \A old \in store[p] :
    IF Versioned(o) /\ Versioned(old) /\ o.src # old.src THEN o.src > old.src
    ELSE p \notin changed /\ (Versioned(old) /\ ~Versioned(o) => o.git = "merged")

(* Slip: an observation of the same second never troubles. *)
AcceptsOnlyLater(p, o, changed) ==
  \A old \in store[p] :
    /\ old.git = "merged" => o.git = "merged"
    /\ IF Versioned(o) /\ Versioned(old) THEN o.src > old.src
       ELSE p \notin changed /\ (Versioned(old) /\ ~Versioned(o) => o.git = "merged")

Accepts(p, o, changed) ==
  \A old \in store[p] :
    /\ old.git = "merged" => o.git = "merged"
    /\ IF Versioned(o) /\ Versioned(old) /\ o.src # old.src THEN o.src > old.src
       ELSE p \notin changed /\ (Versioned(old) /\ ~Versioned(o) => o.git = "merged")

Stamp(p, o) ==
  [o EXCEPT !.src = IF Versioned(o) THEN o.src
                    ELSE IF store[p] # {} THEN (CHOOSE old \in store[p] : TRUE).src ELSE 0]

Accepted(batch, changed) == {p \in PR : \E o \in batch[p] : Accepts(p, o, changed)}

(* put: memory, and through to the disk, whose failure is swallowed.       *)
Commit(batch, changed) ==
  LET new == Accepted(batch, changed)
      put(rows, S) == [p \in PR |-> IF p \in S THEN {Stamp(p, o) : o \in batch[p]} ELSE rows[p]]
  IN  /\ store' = put(store, new)
      /\ touched' = IF fetch' \in {"none", "between"} THEN {} ELSE touched \cup new
      /\ \/ disk' = put(disk, new) /\ UNCHANGED troubles
         \/ new # {} /\ Trouble /\ UNCHANGED disk

(* recordPrStateFromWebhook.                                               *)
Received(h) ==
  /\ h \in hooks
  /\ UNCHANGED <<truth, list, seeded, cycle>>
  /\ Commit([p \in PR |-> IF p = h.pr THEN {h.said} ELSE {}], {})

Arrives(h) == Received(h) /\ hooks' = hooks \ {h}

-----------------------------------------------------------------------------
(* recordOpenPrStates: a list shows drafts but no conflicts.               *)
FromList(open) ==
  [p \in PR |->
    {[git  |-> IF l.draft THEN "draft"
               ELSE IF \E old \in store[p] : old.git = "conflicted" THEN "conflicted" ELSE "open",
      src  |-> l.src, seen |-> l.seen] : l \in open[p]}]

(* hydrateCache, before the first poll or read: every entry outranks it,   *)
(* unless older at the source.                                             *)
Seed ==
  /\ ~seeded /\ seeded' = TRUE
  /\ UNCHANGED <<remote, list, cycle>>
  /\ Commit(FromList(list), PR)

(* pollOpenPRs: one cycle at a time; the revision is taken before the      *)
(* list is fetched.                                                        *)
Poll ==
  /\ seeded /\ fetch = "none"
  /\ fetch' = "list" /\ touched' = {}
  /\ UNCHANGED <<remote, store, disk, list, seeded, answer, asked, troubles>>

ListAnswered ==
  /\ fetch = "list" /\ fetch' = "late list"
  /\ answer' = [p \in PR |-> IF OpenAt(p)
       THEN {[draft |-> truth[p].git = "draft", src |-> truth[p].at, seen |-> truth[p].changes]}
       ELSE {}]
  /\ UNCHANGED <<remote, store, disk, list, seeded, asked, touched, troubles>>

(* Slip: the revision is taken when the list has come. *)
ListRecordedAsOfNow ==
  /\ fetch = "late list" /\ fetch' = "between"
  /\ list' = answer /\ answer' = Nothing
  /\ Commit(FromList(answer), {})
  /\ UNCHANGED <<remote, seeded, asked>>

ListRecorded ==
  /\ fetch = "late list" /\ fetch' = "between"
  /\ list' = answer /\ answer' = Nothing
  /\ Commit(FromList(answer), touched)
  /\ UNCHANGED <<remote, seeded, asked>>

(* The old list is kept, and while it is fresh enough looked up against.   *)
ListFails ==
  /\ fetch = "list"
  /\ fetch' \in {"between", "none"}
  /\ touched' = {}
  /\ UNCHANGED <<remote, store, disk, list, seeded, answer, asked, troubles>>

(* backfillClosedPrStates: merged is settled; a retry time may keep others *)
(* out of this cycle.                                                      *)
Eligible ==
  {p \in Known : list[p] = {} /\ \A old \in store[p] : old.git # "merged"}

Lookup(S) ==
  /\ fetch = "between"
  /\ asked' = S
  /\ fetch' = IF S = {} THEN "none" ELSE "nodes"
  /\ touched' = {}
  /\ UNCHANGED <<remote, store, disk, list, seeded, answer, troubles>>

(* GitHub resolves some of the pull requests asked for.                    *)
NodesAnswered(resolved) ==
  /\ fetch = "nodes" /\ fetch' = "late nodes"
  /\ \E said \in [PR -> State] :
       /\ \A p \in PR : IF p \in resolved THEN said[p] \in Derived(p) ELSE said[p] = truth[p].git
       /\ answer' = [p \in PR |-> IF p \in resolved THEN {Says(p, said[p])} ELSE {}]
  /\ UNCHANGED <<remote, store, disk, list, seeded, asked, touched, troubles>>

NodesRecorded ==
  /\ fetch = "late nodes" /\ fetch' = "none"
  /\ answer' = Nothing /\ asked' = {}
  /\ Commit(answer, touched)
  /\ UNCHANGED <<remote, list, seeded>>

NodesFail ==
  /\ fetch = "nodes" /\ fetch' = "none" /\ asked' = {} /\ touched' = {}
  /\ UNCHANGED <<remote, store, disk, list, seeded, answer, troubles>>

(* A crash, and initPrStateStore at the next boot, which drops old rows.   *)
Restart(old) ==
  /\ Trouble
  /\ disk' = [p \in PR |-> IF p \in old THEN {} ELSE disk[p]]
  /\ store' = disk'
  /\ seeded' = FALSE
  /\ fetch' = "none" /\ answer' = Nothing /\ asked' = {} /\ touched' = {}
  /\ UNCHANGED <<remote, list>>

Restarts == \E old \in SUBSET PR : Restart(old)

Cycle ==
  \/ Poll \/ ListAnswered \/ ListRecorded \/ ListFails
  \/ \E S \in SUBSET Eligible : Lookup(S)
  \/ \E S \in SUBSET asked : NodesAnswered(S)
  \/ NodesRecorded \/ NodesFail

Next ==
  \/ \E p \in PR : Change(p) \/ BaseMoves(p)
  \/ \E h \in hooks : Lost(h) \/ SentAgain(h) \/ Arrives(h)
  \/ Seed \/ Cycle
  \/ Restarts

Spec == Init /\ [][Next]_vars

(* A dashboard is open (its requests seed the list and keep the poll       *)
(* going), and now and then GitHub answers and resolves what is asked.     *)
FairSpec ==
  /\ Spec
  /\ WF_vars(Seed) /\ WF_vars(Cycle)
  /\ SF_vars(ListAnswered)
  /\ \A p \in Known :
       /\ SF_vars(\E S \in SUBSET Eligible : p \in S /\ Lookup(S))
       /\ SF_vars(\E S \in SUBSET asked : p \in S /\ NodesAnswered(S))

-----------------------------------------------------------------------------
(* A pull request that is known to be merged is not shown otherwise until  *)
(* a restart, whatever late, repeated or stale observation follows.        *)
MergedIsFinal ==
  [][\A p \in PR : \A old \in store[p] :
       old.git = "merged" /\ ~Restarts => \A new \in store'[p] : new.git = "merged"]_vars

(* No list, lookup or seed takes the store back to an earlier state of a   *)
(* pull request than a webhook already showed, and a webhook does so only  *)
(* to a state of the very same second (timestamps are in seconds).         *)
NeverBackwards ==
  [][~Restarts =>
     \A p \in PR : \A old \in store[p], new \in store'[p] :
       new.seen < old.seen => UNCHANGED <<fetch, seeded>> /\ new.src = old.src]_vars

Shows(p) ==
  \E o \in store[p] :
    truth[p].git = IF o.git = "conflicted" THEN "open" ELSE o.git

(* Once GitHub has nothing new, the store comes to show every pull request *)
(* of the queue as it is, whichever webhooks were lost, whatever a crash   *)
(* or a failed write lost, and whatever an older version left behind.      *)
Converges == \A p \in Known : <>[]Shows(p)
=============================================================================
