----------------------------- MODULE RateLimit -----------------------------
(***************************************************************************)
(* The provider hold (errandd/app/rate-limit.ts), a process-wide singleton *)
(* shared by every model run, and the runs that read and write it          *)
(* (runner.ts execClaude).  A gated run (hook drain, interactive drain,    *)
(* chat handler, cron, heartbeat) starts only when isRateLimited() is      *)
(* false; a stray one (web chat, a fork) never asks.  What a run reports   *)
(* is recorded when it ends, after any number of others started or ended.  *)
(*                                                                         *)
(* Time is counted in seconds left, so the state stays finite.             *)
(***************************************************************************)
EXTENDS Integers

CONSTANTS
  Slots,      \* gated runs that may be in flight at once
  MaxStrays,  \* bound: ungated runs that may start at all
  Week,       \* the longest hold a weekly message states (MAX_WEEKLY_HOLD_MS)
  Top,        \* the hits from which fibBackoffMs no longer grows, 9 in the code
  Step,       \* fibBackoffMs in seconds, up to Top hits
  None

ASSUME RateLimitAssumption ==
  /\ Slots \in Nat \ {0}
  /\ MaxStrays \in Nat
  /\ Top \in Nat \ {0}
  /\ Week \in Nat \ {0}
  /\ Step \in [1..Top -> Nat \ {0}]
  /\ \A i, j \in 1..Top : i <= j => Step[i] <= Step[j]
  /\ None \notin Int

VARIABLES
  hold,         \* seconds until rateLimitResetAt; None when it is 0 (not set)
  consecutive,  \* consecutiveRateLimits
  gated,        \* gated runs in flight
  stray,        \* ungated runs in flight
  strays,       \* history: ungated runs started so far
  weekly        \* history: the hold in force is one a weekly message stated

vars == <<hold, consecutive, gated, stray, strays, weekly>>
runs == <<gated, stray, strays>>

Init ==
  /\ hold = None
  /\ consecutive = 0
  /\ gated = 0 /\ stray = 0 /\ strays = 0
  /\ weekly = FALSE

(* The variables stay in their ranges. *)
TypeOK ==
  /\ hold \in Nat \cup {None}
  /\ consecutive \in 0..Top
  /\ gated \in 0..Slots
  /\ stray \in 0..MaxStrays
  /\ strays \in 0..MaxStrays
  /\ weekly \in BOOLEAN

-----------------------------------------------------------------------------
(* clearRateLimit, and the release branch of isRateLimited. *)
Clear == hold' = None /\ consecutive' = 0 /\ weekly' = FALSE

(* Slip: a release forgets to restart the backoff. *)
ReleaseKeepingCount ==
  /\ hold \in {None, 0}
  /\ hold' = None /\ weekly' = FALSE
  /\ UNCHANGED consecutive

(* isRateLimited() answers no: a passed deadline is cleared on the way. *)
Release == hold \in {None, 0} /\ Clear

(* Any poll that finds the deadline passed: the 3 s ticks, the dashboard. *)
Poll == hold = 0 /\ Release /\ UNCHANGED runs

(* Slip: a run starts without asking. *)
StartUngated ==
  /\ gated < Slots
  /\ gated' = gated + 1
  /\ UNCHANGED <<hold, consecutive, weekly, stray, strays>>

Start ==
  /\ Release
  /\ gated < Slots
  /\ gated' = gated + 1
  /\ UNCHANGED <<stray, strays>>

StartStray ==
  /\ strays < MaxStrays
  /\ strays' = strays + 1 /\ stray' = stray + 1
  /\ UNCHANGED <<hold, consecutive, gated, weekly>>

(* One run of either sort is over. *)
RunEnds ==
  /\ \/ gated > 0 /\ gated' = gated - 1 /\ UNCHANGED stray
     \/ stray > 0 /\ stray' = stray - 1 /\ UNCHANGED gated
  /\ UNCHANGED strays

(* recordRateLimit counts the hit; from Top up the counts are one class. *)
Recorded == IF consecutive < Top THEN consecutive + 1 ELSE Top

Hit ==
  /\ RunEnds
  /\ consecutive' = Recorded

(* Without a usable weekly date: the next short step, whatever hold is in  *)
(* force.                                                                  *)
HitsLimit ==
  /\ Hit
  /\ hold' = Step[Recorded]
  /\ weekly' = FALSE

(* With a stated weekly reset `d` seconds away. *)
HitsWeeklyLimit(d) ==
  /\ Hit
  /\ hold' = d
  /\ weekly' = TRUE

(* Exit 0 and no limit message: a set hold is lifted, whoever set it. *)
Succeeds ==
  /\ RunEnds
  /\ IF hold # None THEN Clear ELSE UNCHANGED <<hold, consecutive, weekly>>

(* Any other end; a budgeted run returns here even on a limit message. *)
Fails == RunEnds /\ UNCHANGED <<hold, consecutive, weekly>>

Second ==
  /\ hold \notin {None, 0}
  /\ hold' = hold - 1
  /\ UNCHANGED <<consecutive, runs, weekly>>

(* The process restarts: hold and runs were in its memory only. *)
Restart == Clear /\ gated' = 0 /\ stray' = 0 /\ UNCHANGED strays

Next ==
  \/ Poll \/ Start \/ StartStray \/ Restart
  \/ HitsLimit \/ Succeeds \/ Fails
  \/ \E d \in 1..Week : HitsWeeklyLimit(d)
  \/ Second

Spec == Init /\ [][Next]_vars

(* The clock runs and the ticks poll. *)
FairSpec == Spec /\ WF_vars(Second) /\ WF_vars(Poll)

-----------------------------------------------------------------------------
(* The backoff counter is bounded by the runs that were already past the   *)
(* gate when the hold began: a release restarts it, and nothing gated is   *)
(* added while it holds.  So however long the provider stays limited, a    *)
(* short hold is at most the step of that many hits (rate-limit.ts:60-98). *)
BackoffBoundedByRuns ==
  /\ consecutive <= Slots + strays
  /\ hold # None /\ ~weekly /\ consecutive > 0 => hold <= Step[consecutive]

(* A hold does not feed on itself: although every run that meets the limit *)
(* may prolong it, the daemon is free to start a model again and again.    *)
HoldsEnd == []<>(hold = None)

(* rate-limit.ts:14: "a WEEKLY cap with a stated UTC reset date holds      *)
(* until that date", unless a run succeeds.  It does not hold (README).    *)
WeeklyHoldKept ==
  [][weekly /\ hold # None /\ hold > 0 /\ hold' # None => hold' >= hold - 1]_vars
=============================================================================
