----------------------------- MODULE RunLadder -----------------------------
(***************************************************************************)
(* One lane of the runner (errandd/app/runner.ts): the runs queued for one *)
(* thread, or for the main session, and what execClaude makes of each: the *)
(* prompt goes to the agent, and depending on what comes back goes again   *)
(* to the fallback model, to a fresh session after a corrupted or a        *)
(* vanished one, or to the compacted session after a timeout.  The session *)
(* stores are those of sessionManager.ts (a thread), sessions.ts (main)    *)
(* and the fallback files, here one slot each.                             *)
(*                                                                         *)
(* A step is the code from one answer of the agent to its next start.      *)
(***************************************************************************)
EXTENDS Naturals, FiniteSets

CONSTANTS
  Session,      \* session ids; an id nobody mentions any more is used again
  None,
  Capped,       \* the values `maxBudgetUsd !== undefined` may take
  MaxWaiting    \* bound: runs queued in the lane

ASSUME LadderAssumption ==
  /\ None \notin Session
  /\ IsFiniteSet(Session) /\ Cardinality(Session) > 6
  /\ Capped \subseteq BOOLEAN /\ Capped # {}
  /\ MaxWaiting \in Nat \ {0}

VARIABLES
  main,       \* this is the lane of the main session, which is rotated
  waiting,    \* runs queued behind the one on its way
  mapped,     \* the session the lane resumes
  spare,      \* the session its fallback model resumes
  gone,       \* sessions the agent no longer has
  damaged,    \* sessions whose transcript the agent rejects
  at,         \* where the current run is; "idle" between runs
  capped,     \* it has a spend cap
  existing,   \* the session it found at its start
  resumed,    \* the session the agent was started on, None for a fresh one
  viaSpare,   \* usedFallback
  spareModel, \* history: sessions opened with the fallback's model argument
  spareApi,   \* history: sessions opened with the fallback's api and environment
  told,       \* history: sessions this run was told are gone or damaged
  answered    \* history: an execution of this run's prompt succeeded

stores == <<mapped, spare>>
opened == <<spareModel, spareApi>>
agent == <<gone, damaged, opened>>
locals == <<capped, existing, resumed, viaSpare>>
history == <<told, answered>>
vars == <<main, waiting, stores, agent, at, locals, history>>

Maybe == Session \cup {None}

(* Where the prompt is being executed: by the model of the run, by the     *)
(* fallback model, freshly after a session was found damaged or gone, and  *)
(* again after a compaction.                                               *)
Executing == {"primary", "spare", "spareFresh", "afterDamage", "afterLoss", "again"}
Place == Executing \cup {"idle", "summary", "compact", "shrink"}

TypeOK ==
  /\ main \in BOOLEAN /\ waiting \in 0..MaxWaiting
  /\ mapped \in Maybe /\ spare \in Maybe
  /\ gone \subseteq Session /\ damaged \subseteq Session
  /\ spareModel \subseteq Session /\ spareApi \subseteq Session
  /\ at \in Place
  /\ capped \in BOOLEAN /\ viaSpare \in BOOLEAN /\ answered \in BOOLEAN
  /\ existing \in Maybe /\ resumed \in Maybe
  /\ told \subseteq Session

Init ==
  /\ main \in BOOLEAN
  /\ waiting = 0
  /\ mapped = None /\ spare = None
  /\ gone = {} /\ damaged = {} /\ spareModel = {} /\ spareApi = {}
  /\ at = "idle"
  /\ capped = FALSE /\ viaSpare = FALSE /\ answered = FALSE
  /\ existing = None /\ resumed = None
  /\ told = {}

-----------------------------------------------------------------------------
(* The agent.  A session it no longer has, or cannot read, it reports as   *)
(* such; otherwise a run succeeds, fails, runs into its timeout (exit 124) *)
(* or into the provider's limit.                                           *)
Answers ==
  CASE resumed \in gone    -> {"gone"}
    [] resumed \in damaged -> {"damaged"}
    [] OTHER               -> {"ok", "error", "timeout", "limit"}

Unused == Session \ ({mapped, spare, existing, resumed} \cup told)

(* The session a fresh run names; one that does not succeed may end before *)
(* it gets as far.  A resumed run names the one it was started on.         *)
Named(answer) ==
  IF resumed # None THEN {None}
  ELSE {CHOOSE s \in Unused : TRUE} \cup (IF answer = "ok" THEN {} ELSE {None})

(* The places whose command line was built for the fallback (fallbackArgs  *)
(* and what is derived from it).  The others run what was built for the    *)
(* lane's own model; which api and environment they run it with is         *)
(* another matter (see AfterLoss).                                         *)
WithSpareArgs == {"spare", "spareFresh"}

Marked(set, s, belongs) == IF belongs THEN set \cup ({s} \ {None}) ELSE set \ {s}

Opens(place, s) ==
  /\ gone' = gone \ {s} /\ damaged' = damaged \ {s}
  /\ spareModel' = Marked(spareModel, s, place \in WithSpareArgs)
  /\ spareApi' = Marked(spareApi, s, viaSpare)

Resume(place, s) == at' = place /\ resumed' = s
Over == at' = "idle" /\ resumed' = None /\ existing' = None

(* Whether the run is in a place to do something about it: the retry after *)
(* a compaction is not, and neither is the fallback model's run when its   *)
(* session is gone and the lane has none of its own.                       *)
Recoverable(place, answer) ==
  /\ answer \in {"gone", "damaged"}
  /\ place # "again"
  /\ ~(place = "spare" /\ answer = "gone" /\ existing = None)

(* An execution of the prompt comes back with `answer`, having opened s.   *)
Returns(place, answer, s) ==
  /\ at = place
  /\ answer \in Answers /\ s \in Named(answer)
  /\ answered' = (answered \/ answer = "ok")
  /\ told' = IF Recoverable(place, answer) THEN told \cup {resumed} ELSE told
  /\ Opens(place, s)
  /\ UNCHANGED <<main, waiting, capped>>

(* A session is recorded unless the run only reached a limit.              *)
Recorded(slot, answer, s) == IF s # None /\ answer # "limit" THEN s ELSE slot

(* Slip: any end of a resumed run leads to a compaction and a retry. *)
SettlesByCompacting(answer) ==
  \/ Over
  \/ existing # None /\ Resume("compact", existing) /\ UNCHANGED existing

(* The ladder is done.  A timed-out session is compacted and tried again   *)
(* unless the watchdog objects; one grown too large is compacted for the   *)
(* next run.  Neither happens to a run that opened its session.            *)
Settles(answer) ==
  \/ Over
  \/ /\ existing # None
     /\ \/ answer = "timeout" /\ Resume("compact", existing)
        \/ answer = "ok" /\ ~capped /\ Resume("shrink", existing)
     /\ UNCHANGED existing

-----------------------------------------------------------------------------
(* run: the lane's promise chain takes one run after the other.            *)
Enqueue ==
  /\ waiting < MaxWaiting
  /\ waiting' = waiting + 1
  /\ UNCHANGED <<main, stores, agent, at, locals, history>>

Mentioned == {mapped, spare}

Begins(cap) ==
  /\ at = "idle" /\ waiting > 0
  /\ waiting' = waiting - 1
  /\ capped' = cap /\ viaSpare' = FALSE
  /\ told' = {} /\ answered' = FALSE
  /\ gone' = gone \cap Mentioned /\ damaged' = damaged \cap Mentioned
  /\ spareModel' = spareModel \cap Mentioned /\ spareApi' = spareApi \cap Mentioned
  /\ UNCHANGED <<main, stores>>

(* The start of execClaude: resume the lane's session, if it has one.      *)
Start(cap) == Begins(cap) /\ existing' = mapped /\ Resume("primary", mapped)

(* rotateSession: the main session has had its messages or hours; it is    *)
(* asked for a summary first.                                              *)
StartByRotating(cap) ==
  /\ main /\ mapped # None
  /\ Begins(cap) /\ UNCHANGED existing /\ Resume("summary", mapped)

(* Whatever became of the summary, backupSession and resetSession leave no *)
(* session, and the prompt goes to a fresh one.                            *)
Rotated ==
  /\ at = "summary"
  /\ mapped' = None
  /\ Resume("primary", None)
  /\ UNCHANGED <<main, waiting, spare, agent, capped, existing, viaSpare, history>>

-----------------------------------------------------------------------------
(* The prompt's first execution.                                           *)
(* With a spend cap anything but success ends the run at once.             *)
StopsAtCap(answer, s) ==
  /\ Returns("primary", answer, s)
  /\ capped /\ answer # "ok"
  /\ Over
  /\ UNCHANGED <<stores, viaSpare>>

Uncapped(answer, s) ==
  /\ Returns("primary", answer, s)
  /\ capped => answer = "ok"

(* The provider's limit: the fallback model takes over, if there is one.   *)
FallsBack(s) ==
  /\ Uncapped("limit", s)
  /\ Resume("spare", spare) /\ viaSpare' = TRUE
  /\ UNCHANGED <<stores, existing>>

(* Slip: the mapping is left for the fresh run to overwrite. *)
FindsDamageOnly ==
  /\ Uncapped("damaged", None)
  /\ Resume("afterDamage", None)
  /\ UNCHANGED <<mapped, spare, existing, viaSpare>>

(* isCorruptedSession: the mapping goes, the prompt is sent afresh.        *)
FindsDamage ==
  /\ Uncapped("damaged", None)
  /\ mapped' = None
  /\ Resume("afterDamage", None)
  /\ UNCHANGED <<spare, existing, viaSpare>>

(* Slip: the same for a vanished session. *)
FindsLossOnly ==
  /\ Uncapped("gone", None)
  /\ Resume("afterLoss", None)
  /\ UNCHANGED <<mapped, spare, existing, viaSpare>>

(* isStaleSession: likewise.                                               *)
FindsLoss ==
  /\ Uncapped("gone", None)
  /\ mapped' = None
  /\ Resume("afterLoss", None)
  /\ UNCHANGED <<spare, existing, viaSpare>>

PrimaryEnds(answer, s) ==
  /\ Uncapped(answer, s)
  /\ answer \notin {"gone", "damaged"}
  /\ mapped' = Recorded(mapped, answer, s)
  /\ Settles(answer)
  /\ UNCHANGED <<spare, viaSpare>>

-----------------------------------------------------------------------------
(* The fallback model's execution.                                         *)
SpareFindsDamage ==
  /\ Returns("spare", "damaged", None)
  /\ spare' = None
  /\ Resume("spareFresh", None)
  /\ UNCHANGED <<mapped, existing, viaSpare>>

(* Only a run that had a session of its own looks for a stale one.         *)
SpareFindsLoss ==
  /\ Returns("spare", "gone", None)
  /\ existing # None
  /\ spare' = None
  /\ Resume("afterLoss", None)
  /\ UNCHANGED <<mapped, existing, viaSpare>>

SpareEnds(answer, s) ==
  /\ \/ Returns("spare", answer, s) /\ answer # "damaged"
        /\ (answer = "gone" => existing = None)
     \/ Returns("spareFresh", answer, s)
  /\ spare' = Recorded(spare, answer, s)
  /\ Settles(answer)
  /\ UNCHANGED <<mapped, viaSpare>>

-----------------------------------------------------------------------------
(* A fresh session after a damaged one is recorded before anything else;   *)
(* the run still counts as one that resumed.                               *)
AfterDamage(answer, s) ==
  /\ Returns("afterDamage", answer, s)
  /\ mapped' = IF s # None THEN s ELSE mapped
  /\ Settles(answer)
  /\ UNCHANGED <<spare, viaSpare>>

(* Slip: the retry forgets which model it retried. *)
AfterLossOfOwn(answer, s) ==
  /\ Returns("afterLoss", answer, s)
  /\ mapped' = Recorded(mapped, answer, s)
  /\ Over
  /\ UNCHANGED <<spare, viaSpare>>

(* After a vanished one the run counts as new: recoveredFromStale.  When   *)
(* it was the fallback's, the retry is the lane's own command line, with   *)
(* its model, run with the fallback's api (retryArgs, retryConfig), and    *)
(* the session it opens is filed as the fallback's.                        *)
AfterLoss(answer, s) ==
  /\ Returns("afterLoss", answer, s)
  /\ IF viaSpare THEN spare' = Recorded(spare, answer, s) /\ UNCHANGED mapped
     ELSE mapped' = Recorded(mapped, answer, s) /\ UNCHANGED spare
  /\ Over
  /\ UNCHANGED viaSpare

(* /compact of the session the run started from; it fails on one that is   *)
(* gone or damaged.  Afterwards the prompt is sent to it again.            *)
Compacted ==
  /\ at = "compact"
  /\ \/ Over
     \/ /\ existing \notin gone \cup damaged
        /\ Resume("again", existing) /\ UNCHANGED existing
  /\ UNCHANGED <<main, waiting, stores, agent, capped, viaSpare, history>>

(* Slip: a retry that times out is compacted and retried like any other. *)
AgainAndAgain(answer) ==
  /\ Returns("again", answer, None)
  /\ Settles(answer)
  /\ UNCHANGED <<stores, viaSpare>>

Again(answer) ==
  /\ Returns("again", answer, None)
  /\ Over
  /\ UNCHANGED <<stores, viaSpare>>

Shrunk ==
  /\ at = "shrink"
  /\ Over
  /\ UNCHANGED <<main, waiting, stores, agent, capped, viaSpare, history>>

-----------------------------------------------------------------------------
(* What happens around the lane: the agent clears a session or writes a    *)
(* transcript it will not accept, and a user types /reset.                 *)
Loses(s) ==
  /\ s \in {mapped, spare} \ {None, resumed}
  /\ gone' = gone \cup {s}
  /\ UNCHANGED <<main, waiting, stores, damaged, opened, at, locals, history>>

Damages(s) ==
  /\ s \in {mapped, spare} \ {None, resumed}
  /\ damaged' = damaged \cup {s}
  /\ UNCHANGED <<main, waiting, stores, gone, opened, at, locals, history>>

Reset ==
  /\ mapped' = None /\ spare' = None
  /\ UNCHANGED <<main, waiting, agent, at, locals, history>>

Answer == {"ok", "error", "timeout", "limit", "gone", "damaged"}

(* The current run goes on.                                                *)
Proceeds ==
  \/ Rotated \/ FindsDamage \/ FindsLoss \/ SpareFindsDamage \/ SpareFindsLoss
  \/ Compacted \/ Shrunk
  \/ \E s \in Maybe : FallsBack(s)
  \/ \E answer \in Answer :
       \/ Again(answer)
       \/ \E s \in Maybe :
            \/ StopsAtCap(answer, s) \/ PrimaryEnds(answer, s) \/ SpareEnds(answer, s)
            \/ AfterDamage(answer, s) \/ AfterLoss(answer, s)

Starts(cap) == Start(cap) \/ StartByRotating(cap)

Next ==
  \/ Enqueue
  \/ \E cap \in Capped : Starts(cap)
  \/ Proceeds
  \/ \E s \in Session : Loses(s) \/ Damages(s)
  \/ Reset

Spec == Init /\ [][Next]_vars

(* Runs keep coming and start in their turn; every call of the agent ends, *)
(* at the latest at its timeout.                                           *)
RunsGoOn == WF_vars(Enqueue) /\ WF_vars(\E cap \in Capped : Starts(cap)) /\ WF_vars(Proceeds)
FairSpec == Spec /\ RunsGoOn

(* Moreover now and then a run has no spend cap.                           *)
SometimesUncapped == SF_vars(Starts(FALSE))
MixedSpec == FairSpec /\ SometimesUncapped

-----------------------------------------------------------------------------
(* A prompt is not executed again once an execution of it succeeded: no    *)
(* fallback, recovery or compaction follows a success (runner.ts 738-870,  *)
(* 971-1013).                                                              *)
NotRepeatedAfterSuccess == answered => at \notin Executing

(* The lane resumes only sessions it opened itself, with its own model and *)
(* api; the fallback resumes only sessions opened with its api, so that    *)
(* neither is handed a transcript written under the other's credentials,   *)
(* whichever of them vanish or break in whatever order (765-776, 802-827,  *)
(* 841-857, 903-922).  Of the fallback's model it says nothing: the retry  *)
(* after a loss opens the fallback's session with the lane's (AfterLoss).  *)
StoresApart ==
  /\ mapped \notin spareModel \cup spareApi
  /\ spare # None => spare \in spareApi

(* "baseArgs already carry the model flag" (302): what runs as the         *)
(* fallback, and is filed as its session, runs the fallback's model.  It   *)
(* does not hold after a loss (README).                                    *)
FallbackRunsItsModel == spare # None => spare \in spareModel

(* A run without a spend cap leaves behind no session that the agent told  *)
(* it is gone or damaged while it could still recover (see Recoverable),   *)
(* so the next run does not meet the same refusal.                         *)
UnusableIsDropped == at = "idle" /\ ~capped => {mapped, spare} \cap told = {}

(* Every run ends, however often the agent times out.                      *)
EveryRunEnds == (at # "idle") ~> (at = "idle")

(* "retry as a new session so the user isn't permanently stuck" (829-830): *)
(* a lane does not go on for ever resuming a session that is gone.         *)
NotStuck == (mapped \in gone) ~> (mapped \notin gone)
=============================================================================
