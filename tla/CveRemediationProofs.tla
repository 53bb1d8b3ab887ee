------------------------ MODULE CveRemediationProofs ------------------------
(***************************************************************************)
(* Theorems about the remediation of advisories (CveRemediation) for a     *)
(* repository with one routine, and for any advisories, any rule, and any  *)
(* number of commits, crashes, failed scans and newer records.             *)
(***************************************************************************)
EXTENDS CveRemediation, WellFoundedInduction, TLAPS

(* With two routines the receipt of one silences the other (README).       *)
OneRoutine == Routines = 1

Recorded == [status : {"affected", "resolved"}, generation : Nat, episode : Nat]
Saves == [Advisory -> Recorded \cup {NoFinding}]
ScanAtWork ==
  [at : {"advisories", "fired"}, found : SUBSET Advisory, left : SUBSET Job, job : Job,
   before : Saves, todo : SUBSET Advisory, made : Saves, fired : Advisory \cup {NoFinding}]
AtWork == scan.at \in {"advisories", "fired"}
f == findings[1]

Typed ==
  /\ vulnerable \in SUBSET Advisory
  /\ receipt \in [Advisory -> Nat \cup {Unseen}]
  /\ generation \in Nat /\ open \in SUBSET Advisory /\ done \in SUBSET Advisory
  /\ findings \in [Job -> Saves]
  /\ ahead \in SUBSET Advisory
  /\ scan.at = "routine" => scan.found \in SUBSET Advisory /\ scan.left \in SUBSET Job
  /\ scan.at = "saved" => scan.found \in SUBSET Advisory /\ scan.left \in SUBSET Job
  /\ AtWork => scan \in ScanAtWork

(* What is affected is open in the current episode, or was acknowledged    *)
(* ahead of its scan. *)
Tracked ==
  \A a \in Advisory \ ahead :
    f[a].status = "affected" => a \in open /\ f[a].episode = generation

(* A receipt without a finding is of an alert that is still open.          *)
Claimed == \A a \in Advisory : f[a] = NoFinding => receipt[a] = Unseen \/ (receipt[a] = 0 /\ a \in open)

(* So is one of the return of a resolved advisory.                         *)
Returned ==
  \A a \in Advisory \ ahead :
    f[a].status = "resolved" /\ receipt[a] = f[a].generation + 1 => a \in open

(* No finding is of an episode to come, or of what the rule does not match. *)
Known == \A a \in Advisory : f[a] # NoFinding => f[a].episode <= generation /\ a \in Accepts[1]

(* A scan at work goes by what was saved before; what it found so far is   *)
(* open in the current episode, with the same exception.                   *)
Scanning ==
  AtWork =>
    /\ scan.before = f
    /\ scan.found \cap Accepts[1] = scan.todo \cup {b \in Advisory : scan.made[b] # NoFinding}
    /\ \A a \in Advisory : scan.made[a] # NoFinding =>
         /\ scan.made[a].status = "affected" /\ scan.made[a].episode <= generation
         /\ a \notin ahead => a \in open /\ scan.made[a].episode = generation
    /\ scan.at = "fired" => scan.fired \in open /\ scan.fired \in scan.todo

(* The inductive invariant. *)
CveInv == Typed /\ Tracked /\ Claimed /\ Returned /\ Known /\ Scanning

(* What one routine makes of the constants. *)
LEMMA OneJob ==
  ASSUME OneRoutine PROVE Job = {1} /\ Accepts[1] \in SUBSET Advisory
  BY CveAssumption DEF OneRoutine, Job

(* There is a finding, or there is none. *)
LEMMA FindingOrNone ==
  ASSUME NEW r \in Recorded \cup {NoFinding}
  PROVE  /\ r # NoFinding => r \in Recorded /\ r.status \in {"affected", "resolved"}
                              /\ r.generation \in Nat /\ r.episode \in Nat
         /\ r.status = "affected" => r # NoFinding
         /\ r.status = "resolved" => r # NoFinding
         /\ r # NoFinding /\ r.status # "resolved" => r.status = "affected"
  BY DEF Recorded, NoFinding

(* The saved scan of the routine. *)
LEMMA SavedTyped ==
  ASSUME OneRoutine, Typed, NEW a \in Advisory PROVE f[a] \in Recorded \cup {NoFinding}
  BY OneJob DEF Typed, Saves, f

(* The invariant holds initially. *)
LEMMA CveInit == ASSUME OneRoutine PROVE Init => CveInv
<1> SUFFICES ASSUME Init PROVE CveInv
  OBVIOUS
<1>1. f = [a \in Advisory |-> NoFinding] /\ f \in Saves
  BY OneJob DEF Init, f, Saves
<1>2. scan.at = "off"
  BY DEF Init, NoScan
<1>3. Typed
  BY <1>1, <1>2, OneJob DEF Init, Typed, AtWork, Saves
<1>4. NoFinding.status = "none"
  BY DEF NoFinding
<1>5. Tracked /\ Claimed /\ Returned /\ Known
  BY <1>1, <1>4 DEF Init, Tracked, Claimed, Returned, Known
<1> QED BY <1>2, <1>3, <1>5 DEF CveInv, Scanning, AtWork

-----------------------------------------------------------------------------
(* A step that dispatches may open the next episode, when nothing is open, *)
(* and adds to what is open. *)
LaneGrows ==
  /\ generation' \in Nat /\ open' \in SUBSET Advisory /\ done' \in SUBSET Advisory
  /\ generation <= generation' /\ open \subseteq open'
  /\ open # {} => generation' = generation

LEMMA AssignGrows ==
  ASSUME Typed, NEW a \in Advisory, Assign(a) PROVE LaneGrows /\ a \in open'
  BY DEF Typed, Assign, LaneGrows

LEMMA LaneStays ==
  ASSUME Typed, UNCHANGED lane PROVE LaneGrows
  BY DEF Typed, lane, LaneGrows

(* What a dispatch leaves of the invariant: receipts only appear for what  *)
(* is open.  *)
LEMMA Dispatched ==
  ASSUME OneRoutine, CveInv, LaneGrows, findings' = findings, ahead' = ahead,
         \A b \in Advisory :
           receipt'[b] = receipt[b] \/ (b \in open' /\ (f[b] = NoFinding => receipt'[b] = 0))
  PROVE  Tracked' /\ Claimed' /\ Returned' /\ Known'
<1>0. Tracked /\ Claimed /\ Returned /\ Known /\ f' = f
  BY DEF CveInv, f
<1>1. Tracked'
  BY <1>0 DEF Tracked, LaneGrows, CveInv, Typed
<1>2. Claimed'
  BY <1>0 DEF Claimed, LaneGrows
<1>3. Returned'
  BY <1>0, SavedTyped, FindingOrNone DEF Returned, LaneGrows, CveInv
<1>4. Known'
  <2> SUFFICES ASSUME NEW a \in Advisory, f[a] # NoFinding
               PROVE  f[a].episode <= generation' /\ a \in Accepts[1]
    BY <1>0 DEF Known
  <2>1. f[a].episode <= generation /\ a \in Accepts[1]
    BY <1>0 DEF Known
  <2>2. f[a].episode \in Nat
    BY SavedTyped, FindingOrNone DEF CveInv
  <2> QED BY <2>1, <2>2 DEF CveInv, Typed, LaneGrows
<1> QED BY <1>1, <1>2, <1>3, <1>4

(* What a dispatch leaves of a scan at work that it is no part of. *)
LEMMA ScanWaits ==
  ASSUME OneRoutine, CveInv, LaneGrows, findings' = findings, ahead' = ahead, scan' = scan
  PROVE  Scanning'
<1> SUFFICES ASSUME AtWork PROVE Scanning'
  BY DEF Scanning, AtWork
<1>0. /\ Typed /\ Scanning /\ f' = f
  BY DEF CveInv, f
<1>1. scan.made \in Saves
  BY <1>0 DEF Typed, ScanAtWork
<1>2. ASSUME NEW a \in Advisory, scan.made[a] # NoFinding
      PROVE  /\ scan.made[a].status = "affected" /\ scan.made[a].episode <= generation'
             /\ a \notin ahead => a \in open' /\ scan.made[a].episode = generation'
  <2>1. /\ scan.made[a].status = "affected" /\ scan.made[a].episode <= generation
        /\ a \notin ahead => a \in open /\ scan.made[a].episode = generation
    BY <1>0, <1>2 DEF Scanning
  <2>2. scan.made[a].episode \in Nat
    BY <1>1, <1>2, FindingOrNone DEF Saves
  <2>3. generation <= generation' /\ generation \in Nat /\ generation' \in Nat
    BY <1>0 DEF Typed, LaneGrows
  <2>4. a \in open => a \in open' /\ generation' = generation
    BY DEF LaneGrows
  <2> QED BY <2>1, <2>2, <2>3, <2>4
<1> QED BY <1>0, <1>2 DEF Scanning, LaneGrows, AtWork

(* A step that neither dispatches nor scans. *)
LEMMA CveUntouched ==
  ASSUME OneRoutine, CveInv, UNCHANGED <<receipt, lane, findings, ahead>>,
         vulnerable' \in SUBSET Advisory, scan' = scan \/ scan' = NoScan
  PROVE  CveInv'
<1>0. Typed /\ LaneGrows
  BY LaneStays DEF CveInv
<1>1. Tracked' /\ Claimed' /\ Returned' /\ Known'
  BY <1>0, Dispatched
<1>2. NoScan.at = "off"
  BY DEF NoScan
<1>3. Scanning'
  BY <1>0, <1>2, ScanWaits DEF Scanning, AtWork
<1>4. Typed'
  BY <1>0, <1>2 DEF Typed, AtWork, lane
<1> QED BY <1>1, <1>3, <1>4 DEF CveInv

-----------------------------------------------------------------------------
(* A poll starts, and ends. *)
LEMMA ReadsKeeps == ASSUME OneRoutine, CveInv, ScanReads PROVE CveInv'
<1>0. Typed /\ LaneGrows
  BY LaneStays DEF CveInv, ScanReads
<1>1. /\ scan' = [at |-> "routine", found |-> vulnerable, left |-> Job]
      /\ UNCHANGED <<vulnerable, receipt, lane, findings, ahead>>
  BY DEF ScanReads, world, scans
<1>2. Tracked' /\ Claimed' /\ Returned' /\ Known'
  BY <1>0, <1>1, Dispatched
<1>3. scan'.at = "routine" /\ scan'.found = vulnerable /\ scan'.left = Job
  BY <1>1
<1>4. Typed' /\ Scanning'
  BY <1>0, <1>1, <1>3 DEF Typed, AtWork, lane, Scanning
<1> QED BY <1>2, <1>4 DEF CveInv

LEMMA ResolvesKeeps == ASSUME OneRoutine, CveInv, ScanResolves PROVE CveInv'
<1>0. Typed /\ LaneGrows
  BY LaneStays DEF CveInv, ScanResolves
<1>1. /\ UNCHANGED <<vulnerable, receipt, lane, findings, ahead>> /\ scan.at = "saved"
      /\ scan' = NoScan \/ scan' = [at |-> "routine", found |-> scan.found, left |-> scan.left]
  BY DEF ScanResolves, world, scans
<1>2. Tracked' /\ Claimed' /\ Returned' /\ Known'
  BY <1>0, <1>1, Dispatched
<1>3. CASE scan' = NoScan
  BY <1>1, <1>3, CveUntouched DEF Typed, CveInv
<1>4. CASE scan' = [at |-> "routine", found |-> scan.found, left |-> scan.left]
  <2>1. scan'.at = "routine" /\ scan'.found = scan.found /\ scan'.left = scan.left
    BY <1>4
  <2>2. Typed' /\ Scanning'
    BY <1>0, <1>1, <2>1 DEF Typed, AtWork, lane, Scanning
  <2> QED BY <1>2, <2>2 DEF CveInv
<1> QED BY <1>1, <1>3, <1>4

(* A scan takes up the routine: nothing is found yet. *)
LEMMA TakesKeeps == ASSUME OneRoutine, CveInv, NEW j \in Job, ScanTakes(j) PROVE CveInv'
<1> DEFINE none == [a \in Advisory |-> NoFinding]
           begun == [at |-> "advisories", found |-> scan.found,
                     left |-> scan.left \ {j}, job |-> j, before |-> findings[j],
                     todo |-> scan.found \cap Accepts[j], made |-> none, fired |-> NoFinding]
<1>0. Typed /\ LaneGrows /\ j = 1
  BY LaneStays, OneJob DEF CveInv, ScanTakes
<1>1. /\ UNCHANGED <<vulnerable, receipt, lane, findings, ahead>> /\ scan' = begun
      /\ scan.found \in SUBSET Advisory /\ scan.left \in SUBSET Job
  BY <1>0 DEF ScanTakes, world, scans, Typed
<1>2. Tracked' /\ Claimed' /\ Returned' /\ Known'
  BY <1>0, <1>1, Dispatched
<1>3. none \in Saves /\ \A a \in Advisory : none[a] = NoFinding
  BY DEF Saves
<1>4. findings[j] \in Saves /\ Accepts[j] \in SUBSET Advisory
  BY <1>0, OneJob DEF Typed
<1> HIDE DEF none
<1>5. begun \in ScanAtWork
  BY <1>1, <1>3, <1>4 DEF ScanAtWork
<1>6. /\ begun.at = "advisories" /\ begun.before = f /\ begun.made = none
      /\ begun.todo = begun.found \cap Accepts[1]
  BY <1>0 DEF f
<1> HIDE DEF begun
<1>7. Typed'
  BY <1>0, <1>1, <1>5, <1>6 DEF Typed, AtWork, lane
<1>8. Scanning'
  BY <1>1, <1>3, <1>6 DEF Scanning, f
<1> QED BY <1>2, <1>7, <1>8 DEF CveInv

(* The generation of a finding that is found again, or for the first time. *)
LEMMA GenerationOf ==
  ASSUME OneRoutine, CveInv, AtWork, NEW a \in Advisory
  PROVE  /\ Generation(a) \in Nat
         /\ f[a] = NoFinding => Generation(a) = 0
         /\ f[a].status = "resolved" => Generation(a) = f[a].generation + 1
         /\ f[a].status = "affected" => Generation(a) = f[a].generation
<1>1. scan.before = f
  BY DEF CveInv, Scanning
<1>2. f[a] \in Recorded \cup {NoFinding}
  BY SavedTyped DEF CveInv
<1>3. NoFinding.status = "none"
  BY DEF NoFinding
<1>4. CASE f[a] = NoFinding
  BY <1>1, <1>3, <1>4 DEF Generation
<1>5. CASE f[a].status = "resolved"
  BY <1>1, <1>2, <1>3, <1>5, FindingOrNone DEF Generation
<1>6. CASE f[a].status = "affected"
  BY <1>1, <1>2, <1>3, <1>6, FindingOrNone DEF Generation
<1> QED BY <1>2, <1>3, <1>4, <1>5, <1>6, FindingOrNone

(* What a scan finds is in the current episode if it is open there.        *)
LEMMA MadeOf ==
  ASSUME OneRoutine, CveInv, AtWork, NEW a \in Advisory
  PROVE  /\ Made(a) \in Recorded /\ Made(a) # NoFinding /\ Made(a).status = "affected"
         /\ Made(a).episode <= generation
         /\ a \in open => Made(a).episode = generation
<1>1. scan.before = f /\ Known /\ Typed
  BY DEF CveInv, Scanning
<1>2. f[a] \in Recorded \cup {NoFinding} /\ generation \in Nat
  BY <1>1, SavedTyped DEF Typed
<1>3. Generation(a) \in Nat
  BY GenerationOf
<1> DEFINE e == IF a \in open \cup done THEN generation
                ELSE IF scan.before[a] = NoFinding THEN 0 ELSE scan.before[a].episode
<1>4. e \in Nat /\ e <= generation /\ (a \in open => e = generation)
  BY <1>1, <1>2, FindingOrNone DEF Known
<1>5. Made(a) = [status |-> "affected", generation |-> Generation(a), episode |-> e]
  BY DEF Made
<1> HIDE DEF e
<1>6. Made(a) \in Recorded /\ Made(a).status = "affected" /\ Made(a).episode = e
  BY <1>3, <1>4, <1>5 DEF Recorded
<1> QED BY <1>4, <1>6 DEF NoFinding

(* A scan goes on to its next advisory, with a finding that is open in the *)
(* current episode. *)
LEMMA ScanMakes ==
  ASSUME OneRoutine, CveInv, AtWork, UNCHANGED <<lane, findings, ahead>>,
         NEW a \in Advisory, a \in scan.todo, a \in open \/ a \in ahead,
         scan'.at = "advisories", scan'.before = scan.before, scan'.found = scan.found,
         scan'.todo = scan.todo \ {a}, scan'.made = [scan.made EXCEPT ![a] = Made(a)]
  PROVE  Scanning' /\ scan'.made \in Saves
<1>0. Typed /\ Scanning /\ f' = f
  BY DEF CveInv, f
<1>1. scan.made \in Saves /\ scan.todo \in SUBSET Advisory
  BY <1>0 DEF Typed, ScanAtWork
<1>2. /\ Made(a) \in Recorded /\ Made(a) # NoFinding /\ Made(a).status = "affected"
      /\ Made(a).episode <= generation /\ (a \in open => Made(a).episode = generation)
  BY MadeOf
<1>3. scan'.made \in Saves /\ scan'.made[a] = Made(a)
      /\ \A b \in Advisory : b # a => scan'.made[b] = scan.made[b]
  BY <1>1, <1>2 DEF Saves
<1>4. scan'.found \cap Accepts[1] = scan'.todo \cup {b \in Advisory : scan'.made[b] # NoFinding}
  <2>1. scan.found \cap Accepts[1] = scan.todo \cup {b \in Advisory : scan.made[b] # NoFinding}
    BY <1>0 DEF Scanning
  <2>2. {b \in Advisory : scan'.made[b] # NoFinding} = {b \in Advisory : scan.made[b] # NoFinding} \cup {a}
    BY <1>2, <1>3
  <2> QED BY <2>1, <2>2
<1>5. ASSUME NEW b \in Advisory, scan'.made[b] # NoFinding
      PROVE  /\ scan'.made[b].status = "affected" /\ scan'.made[b].episode <= generation
             /\ b \notin ahead => b \in open /\ scan'.made[b].episode = generation
  BY <1>0, <1>2, <1>3, <1>5 DEF Scanning
<1> QED BY <1>0, <1>3, <1>4, <1>5 DEF Scanning, lane

(* Acknowledged before: then it is open, or its return was acknowledged    *)
(* ahead of its scan.                                                      *)
LEMMA PassesKeeps == ASSUME OneRoutine, CveInv, NEW a \in Advisory, ScanPasses(a) PROVE CveInv'
<1>0. Typed /\ LaneGrows /\ Tracked /\ Claimed /\ Returned
  BY LaneStays DEF CveInv, ScanPasses
<1>1. /\ scan.at = "advisories" /\ AtWork /\ a \in scan.todo /\ receipt[a] = Generation(a)
      /\ scan' = [scan EXCEPT !.todo = @ \ {a}, !.made[a] = Made(a)]
      /\ UNCHANGED <<vulnerable, receipt, lane, findings, ahead>>
  BY DEF ScanPasses, world, scans, AtWork
<1>2. scan \in ScanAtWork
  BY <1>0, <1>1 DEF Typed
<1>3. /\ scan'.at = "advisories" /\ scan'.before = scan.before /\ scan'.found = scan.found
      /\ scan'.todo = scan.todo \ {a} /\ scan'.made = [scan.made EXCEPT ![a] = Made(a)]
      /\ scan'.left = scan.left /\ scan'.job = scan.job /\ scan'.fired = scan.fired
      /\ scan' = [at |-> scan'.at, found |-> scan'.found, left |-> scan'.left, job |-> scan'.job,
                  before |-> scan'.before, todo |-> scan'.todo, made |-> scan'.made,
                  fired |-> scan'.fired]
  BY <1>1, <1>2 DEF ScanAtWork
<1>4. a \in open \/ a \in ahead
  <2>1. f[a] \in Recorded \cup {NoFinding}
    BY <1>0, SavedTyped
  <2>2. /\ receipt[a] \in Nat
        /\ f[a] = NoFinding => receipt[a] = 0
        /\ f[a].status = "resolved" => receipt[a] = f[a].generation + 1
    BY <1>1, GenerationOf
  <2>3. receipt[a] # Unseen
    BY <2>2 DEF Unseen
  <2>4. CASE f[a] = NoFinding
    BY <1>0, <2>3, <2>4 DEF Claimed
  <2>5. CASE f[a].status = "resolved"
    BY <1>0, <2>2, <2>5 DEF Returned
  <2>6. CASE f[a].status = "affected"
    BY <1>0, <2>6 DEF Tracked
  <2> QED BY <2>1, <2>4, <2>5, <2>6, FindingOrNone
<1>5. Scanning' /\ scan'.made \in Saves
  BY <1>1, <1>3, <1>4, ScanMakes
<1>6. scan' \in ScanAtWork
  BY <1>2, <1>3, <1>5 DEF ScanAtWork
<1>7. Typed'
  BY <1>0, <1>1, <1>3, <1>6 DEF Typed, AtWork, lane
<1>8. Tracked' /\ Claimed' /\ Returned' /\ Known'
  BY <1>0, <1>1, Dispatched
<1> QED BY <1>5, <1>7, <1>8 DEF CveInv

(* An alert is fired: its advisory is open from then on. *)
LEMMA FiresKeeps == ASSUME OneRoutine, CveInv, NEW a \in Advisory, ScanFires(a) PROVE CveInv'
<1>0. Typed /\ Scanning /\ LaneGrows /\ a \in open'
  BY AssignGrows DEF CveInv, ScanFires
<1>1. /\ scan.at = "advisories" /\ AtWork /\ a \in scan.todo
      /\ scan' = [scan EXCEPT !.at = "fired", !.fired = a]
      /\ UNCHANGED <<vulnerable, receipt, findings, ahead>>
  BY DEF ScanFires, Unacknowledged, world, scans, AtWork
<1>2. scan \in ScanAtWork
  BY <1>0, <1>1 DEF Typed
<1>3. /\ scan'.at = "fired" /\ scan'.before = scan.before /\ scan'.found = scan.found
      /\ scan'.todo = scan.todo /\ scan'.made = scan.made
      /\ scan'.fired = a /\ scan' \in ScanAtWork
  BY <1>1, <1>2 DEF ScanAtWork
<1>4. Tracked' /\ Claimed' /\ Returned' /\ Known'
  BY <1>0, <1>1, Dispatched
<1>5. Typed'
  BY <1>0, <1>1, <1>3 DEF Typed, AtWork, LaneGrows
<1>6. Scanning'
  <2>1. scan.made \in Saves /\ f' = f
    BY <1>1, <1>2 DEF ScanAtWork, f
  <2>2. ASSUME NEW b \in Advisory, scan.made[b] # NoFinding
        PROVE  /\ scan.made[b].status = "affected" /\ scan.made[b].episode <= generation'
               /\ b \notin ahead => b \in open' /\ scan.made[b].episode = generation'
    <3>1. /\ scan.made[b].status = "affected" /\ scan.made[b].episode <= generation
          /\ b \notin ahead => b \in open /\ scan.made[b].episode = generation
      BY <1>0, <1>1, <2>2 DEF Scanning
    <3>2. scan.made[b].episode \in Nat
      BY <2>1, <2>2, FindingOrNone DEF Saves
    <3>3. generation <= generation' /\ generation \in Nat /\ generation' \in Nat
      BY <1>0 DEF Typed, LaneGrows
    <3>4. b \in open => b \in open' /\ generation' = generation
      BY <1>0 DEF LaneGrows
    <3> QED BY <3>1, <3>2, <3>3, <3>4
  <2> QED BY <1>0, <1>1, <1>3, <2>1, <2>2 DEF Scanning
<1> QED BY <1>4, <1>5, <1>6 DEF CveInv

(* The receipt of what is open follows. *)
LEMMA AcknowledgesKeeps == ASSUME OneRoutine, CveInv, ScanAcknowledges PROVE CveInv'
<1> DEFINE a == scan.fired
<1>0. Typed /\ Scanning /\ LaneGrows
  BY LaneStays DEF CveInv, ScanAcknowledges
<1>1. /\ scan.at = "fired" /\ AtWork
      /\ receipt' = [receipt EXCEPT ![a] = Generation(a)]
      /\ scan' = [scan EXCEPT !.at = "advisories", !.todo = @ \ {a},
                              !.made[a] = Made(a), !.fired = NoFinding]
      /\ UNCHANGED <<vulnerable, lane, findings, ahead>>
  BY DEF ScanAcknowledges, world, scans, AtWork
<1>2. scan \in ScanAtWork
  BY <1>0, <1>1 DEF Typed
<1>3. a \in open /\ a \in scan.todo /\ a \in Advisory
  BY <1>0, <1>1, <1>2 DEF Scanning, ScanAtWork
<1> HIDE DEF a
<1>4. /\ scan'.at = "advisories" /\ scan'.before = scan.before /\ scan'.found = scan.found
      /\ scan'.todo = scan.todo \ {a} /\ scan'.made = [scan.made EXCEPT ![a] = Made(a)]
      /\ scan'.left = scan.left /\ scan'.job = scan.job /\ scan'.fired = NoFinding
      /\ scan' = [at |-> scan'.at, found |-> scan'.found, left |-> scan'.left, job |-> scan'.job,
                  before |-> scan'.before, todo |-> scan'.todo, made |-> scan'.made,
                  fired |-> scan'.fired]
  BY <1>1, <1>2 DEF ScanAtWork
<1>5. Scanning' /\ scan'.made \in Saves
  BY <1>1, <1>3, <1>4, ScanMakes
<1>6. scan' \in ScanAtWork
  BY <1>2, <1>4, <1>5 DEF ScanAtWork
<1>7. Generation(a) \in Nat /\ (f[a] = NoFinding => Generation(a) = 0)
  BY <1>1, <1>3, GenerationOf
<1>8. /\ receipt' \in [Advisory -> Nat \cup {Unseen}]
      /\ \A b \in Advisory :
           receipt'[b] = receipt[b] \/ (b \in open' /\ (f[b] = NoFinding => receipt'[b] = 0))
  BY <1>0, <1>1, <1>3, <1>7 DEF Typed, lane
<1>9. Typed'
  BY <1>0, <1>1, <1>4, <1>6, <1>8 DEF Typed, AtWork, lane
<1>10. Tracked' /\ Claimed' /\ Returned' /\ Known'
  BY <1>0, <1>1, <1>8, Dispatched
<1> QED BY <1>5, <1>9, <1>10 DEF CveInv

-----------------------------------------------------------------------------
(* What a scan saves when it has gone through its advisories: what it made *)
(* of those it found, and nothing else is affected.                        *)
LEMMA SavedOf ==
  ASSUME OneRoutine, CveInv, scan.at = "advisories", scan.todo = {}, NEW a \in Advisory
  PROVE  /\ Saved[a] \in Recorded \cup {NoFinding}
         /\ Saved[a] # NoFinding => Saved[a].episode <= generation /\ a \in Accepts[1]
         /\ Saved[a].status = "affected" /\ a \notin ahead => Saved[a].episode = generation
         /\ Saved[a] = NoFinding => f[a] = NoFinding
<1>0. Typed /\ Scanning /\ Known /\ AtWork
  BY DEF CveInv, AtWork
<1>1. /\ scan.before = f /\ scan \in ScanAtWork
      /\ scan.found \cap Accepts[1] = {b \in Advisory : scan.made[b] # NoFinding}
  BY <1>0 DEF Scanning, Typed
<1>2. f[a] \in Recorded \cup {NoFinding} /\ scan.made[a] \in Recorded \cup {NoFinding}
  BY <1>0, <1>1, SavedTyped DEF ScanAtWork, Saves
<1>3. Saved[a] = IF scan.made[a] # NoFinding THEN scan.made[a] ELSE Kept(a)
  BY DEF Saved
<1>4. CASE scan.made[a] # NoFinding
  <2>1. /\ scan.made[a].status = "affected" /\ scan.made[a].episode <= generation
        /\ a \notin ahead => scan.made[a].episode = generation
    BY <1>0, <1>4 DEF Scanning
  <2>2. a \in Accepts[1]
    BY <1>1, <1>4
  <2> QED BY <1>2, <1>3, <1>4, <2>1, <2>2
<1>5. CASE scan.made[a] = NoFinding
  <2>1. a \notin scan.found \cap Accepts[1]
    BY <1>1, <1>5
  <2>2. Saved[a] = IF a \in scan.found \/ f[a] = NoFinding THEN f[a]
                   ELSE [f[a] EXCEPT !.status = "resolved"]
    BY <1>1, <1>3, <1>5 DEF Kept
  <2>3. CASE f[a] = NoFinding
    BY <2>2, <2>3, FindingOrNone DEF NoFinding
  <2>4. CASE f[a] # NoFinding
    <3>1. f[a] \in Recorded /\ f[a].episode <= generation /\ a \in Accepts[1]
      BY <1>0, <1>2, <2>4 DEF Known
    <3>2. Saved[a] = [f[a] EXCEPT !.status = "resolved"]
      BY <2>1, <2>2, <2>4, <3>1
    <3>3. /\ Saved[a] \in Recorded /\ Saved[a].status = "resolved"
          /\ Saved[a].episode = f[a].episode
      BY <3>1, <3>2 DEF Recorded
    <3> QED BY <3>1, <3>3, FindingOrNone
  <2> QED BY <2>3, <2>4
<1> QED BY <1>4, <1>5

(* A nonempty set of numbers up to n has a greatest one.                   *)
LEMMA GreatestUpTo ==
  ASSUME NEW n \in Nat, NEW T \in SUBSET (0..n), T # {}
  PROVE  Max(T) \in T /\ \A y \in T : y <= Max(T)
<1> DEFINE Bound == {b \in Nat : \A y \in T : y <= b}
           Less == OpToRel(<, Nat)
<1>1. PICK b \in Bound : \A d \in Bound : ~(<<d, b>> \in Less)
  <2>1. n \in Bound /\ Bound \subseteq Nat
    OBVIOUS
  <2>2. IsWellFoundedOn(Less, Nat)
    BY NatLessThanWellFounded, Zenon
  <2> HIDE DEF Less, Bound
  <2> QED BY <2>1, <2>2, WFMin
<1>2. ASSUME NEW d \in Bound, d < b PROVE FALSE
  <2>1. <<d, b>> \in {ss \in Nat \X Nat : ss[1] < ss[2]}
    BY <1>2
  <2>2. Less = {ss \in Nat \X Nat : ss[1] < ss[2]}
    BY Zenon DEF OpToRel
  <2> HIDE DEF Less
  <2> QED BY <1>1, <2>1, <2>2
<1> HIDE DEF Less
<1>3. PICK z \in T : TRUE
  OBVIOUS
<1>4. b \in T
  <2> SUFFICES ASSUME b \notin T PROVE FALSE
    OBVIOUS
  <2>1. b \in Nat /\ z \in Nat /\ z <= b /\ z # b
    BY <1>1, <1>3
  <2>2. b - 1 \in Nat /\ b - 1 < b
    BY <2>1
  <2>3. \A y \in T : y <= b - 1
    BY <1>1, <2>1
  <2>4. b - 1 \in Bound
    BY <2>2, <2>3
  <2> QED BY <1>2, <2>2, <2>4
<1>5. \E x \in T : \A y \in T : x >= y
  BY <1>1, <1>4
<1> HIDE DEF Bound
<1>6. Max(T) \in T /\ \A y \in T : Max(T) >= y
  BY <1>5, Zenon DEF Max
<1> QED BY <1>6

(* Reconciliation opens what is affected in the current episode, and       *)
(* leaves open what there is no finding of.                                *)
LEMMA ReconciledOf ==
  ASSUME OneRoutine, CveInv, scan.at = "advisories", scan.todo = {}, Reconciled(1)
  PROVE  /\ generation' = generation
         /\ open' \in SUBSET Advisory /\ done' \in SUBSET Advisory
         /\ \A a \in Advisory :
              Saved[a].status = "affected" /\ Saved[a].episode = generation => a \in open'
         /\ \A a \in Advisory : Saved[a] = NoFinding /\ a \in open => a \in open'
<1> DEFINE all == [findings EXCEPT ![1] = Saved]
           found == {p \in Job \X Advisory : all[p[1]][p[2]] # NoFinding}
           episodes == {all[p[1]][p[2]].episode : p \in found}
           newest == Max(episodes)
           members == {p \in found : all[p[1]][p[2]].episode = newest}
           affected(p) == all[p[1]][p[2]].status = "affected" \/ (p[1] # 1 /\ outcome[p[1]] = "error")
           unresolved == {p[2] : p \in {q \in members : affected(q)}}
           resolved == {p[2] : p \in members} \ unresolved
<1>0. Typed /\ Job = {1}
  BY OneJob DEF CveInv
<1>1. all[1] = Saved
  BY <1>0 DEF Typed
<1>2. \/ /\ found = {} \/ generation > newest
         /\ UNCHANGED lane
      \/ /\ found # {}
         /\ open' = (open \ resolved) \cup unresolved
         /\ done' = (done \ unresolved) \cup resolved
         /\ generation' = generation
  BY <1>0 DEF Reconciled
<1> HIDE DEF all
<1>3. \A p : p \in found <=> p \in Job \X Advisory /\ Saved[p[2]] # NoFinding
  BY <1>0, <1>1
<1>4. \A p \in found : p[1] = 1 /\ p[2] \in Advisory /\ Saved[p[2]] # NoFinding
                       /\ all[p[1]][p[2]] = Saved[p[2]]
  BY <1>0, <1>1, <1>3
<1>5. \A a \in Advisory : Saved[a] # NoFinding => <<1, a>> \in found
  BY <1>0, <1>3
<1>u. /\ \A a \in unresolved : \E p \in found : a = p[2]
      /\ \A p \in found : all[p[1]][p[2]].episode = newest /\ all[p[1]][p[2]].status = "affected"
                          => p[2] \in unresolved
  OBVIOUS
<1>r. \A a \in resolved : \E p \in found : a = p[2]
  OBVIOUS
<1> HIDE DEF found, newest, members, affected, unresolved, resolved
<1>6. unresolved \in SUBSET Advisory /\ resolved \in SUBSET Advisory
  BY <1>4, <1>u, <1>r
<1>7. /\ generation' = generation
      /\ open' \in SUBSET Advisory /\ done' \in SUBSET Advisory
  BY <1>0, <1>2, <1>6 DEF Typed, lane
<1>8. ASSUME NEW a \in Advisory, Saved[a] = NoFinding, a \in open PROVE a \in open'
  <2>1. a \notin resolved
    BY <1>4, <1>8, <1>r
  <2> QED BY <1>2, <1>8, <2>1 DEF lane
<1>9. ASSUME NEW a \in Advisory, Saved[a].status = "affected", Saved[a].episode = generation
      PROVE  a \in open'
  <2>1. Saved[a] \in Recorded \cup {NoFinding} /\ Saved[a] # NoFinding
    BY <1>9, SavedOf, FindingOrNone
  <2>2. <<1, a>> \in found /\ all[1][a] = Saved[a]
    BY <1>1, <1>5, <2>1
  <2>3. episodes \in SUBSET (0..generation)
    <3>1. ASSUME NEW p \in found PROVE all[p[1]][p[2]].episode \in 0..generation
      <4>1. p[2] \in Advisory /\ Saved[p[2]] # NoFinding /\ all[p[1]][p[2]] = Saved[p[2]]
        BY <1>4
      <4>2. Saved[p[2]].episode \in Nat /\ Saved[p[2]].episode <= generation
        BY <4>1, SavedOf, FindingOrNone
      <4>3. generation \in Nat
        BY <1>0 DEF Typed
      <4> QED BY <4>1, <4>2, <4>3
    <3> QED BY <3>1
  <2>4. generation \in episodes
    BY <1>9, <2>2
  <2>5. newest = generation
    <3>1. generation \in Nat
      BY <1>0 DEF Typed
    <3> HIDE DEF episodes
    <3>2. Max(episodes) \in 0..generation /\ generation <= Max(episodes)
      BY <2>3, <2>4, <3>1, GreatestUpTo
    <3> QED BY <3>1, <3>2 DEF newest
  <2>6. ~(found = {} \/ generation > newest)
    BY <1>0, <2>2, <2>5 DEF Typed
  <2>7. a \in unresolved
    BY <1>9, <1>u, <2>2, <2>5
  <2> QED BY <1>2, <2>6, <2>7
<1> QED BY <1>7, <1>8, <1>9

(* The scan is saved: what it says is affected is open. *)
LEMMA SavesKeeps == ASSUME OneRoutine, CveInv, ScanSaves PROVE CveInv'
<1>0. Typed /\ Claimed /\ Job = {1}
  BY OneJob DEF CveInv
<1>1. /\ scan.at = "advisories" /\ AtWork /\ scan.todo = {} /\ scan' = [scan EXCEPT !.at = "saved"]
      /\ findings' = [findings EXCEPT ![scan.job] = Saved] /\ Reconciled(scan.job)
      /\ ahead' = {a \in Advisory :
           IF Saved[a].status = "resolved" /\ receipt[a] = Saved[a].generation + 1 THEN TRUE
           ELSE a \in ahead /\ ~(Saved[a].status = "affected" /\ Saved[a].episode = generation)}
      /\ UNCHANGED <<vulnerable, receipt>>
  BY DEF ScanSaves, world, AtWork
<1>2. scan \in ScanAtWork /\ scan.job = 1
  BY <1>0, <1>1 DEF Typed, ScanAtWork
<1>3. /\ scan'.at = "saved" /\ scan'.found \in SUBSET Advisory /\ scan'.left \in SUBSET Job
  BY <1>1, <1>2 DEF ScanAtWork
<1>4. /\ \A a \in Advisory : Saved[a] \in Recorded \cup {NoFinding}
      /\ \A a \in Advisory : Saved[a] # NoFinding => Saved[a].episode <= generation /\ a \in Accepts[1]
      /\ \A a \in Advisory :
           Saved[a].status = "affected" /\ a \notin ahead => Saved[a].episode = generation
      /\ \A a \in Advisory : Saved[a] = NoFinding => f[a] = NoFinding
  BY <1>1, SavedOf
<1>5. Saved \in Saves
  <2>1. Saved = [a \in Advisory |-> Saved[a]]
    BY DEF Saved
  <2> QED BY <1>4, <2>1 DEF Saves
<1>6. /\ generation' = generation
      /\ open' \in SUBSET Advisory /\ done' \in SUBSET Advisory
      /\ \A a \in Advisory :
           Saved[a].status = "affected" /\ Saved[a].episode = generation => a \in open'
      /\ \A a \in Advisory : Saved[a] = NoFinding /\ a \in open => a \in open'
  BY <1>1, <1>2, ReconciledOf
<1>7. f' = Saved /\ findings' \in [Job -> Saves]
  BY <1>0, <1>1, <1>2, <1>5 DEF Typed, f
<1> HIDE DEF Saved
<1>8. Typed'
  BY <1>0, <1>1, <1>3, <1>6, <1>7 DEF Typed, AtWork
<1>9. Tracked'
  <2> SUFFICES ASSUME NEW a \in Advisory \ ahead', Saved[a].status = "affected"
               PROVE  a \in open' /\ Saved[a].episode = generation
    BY <1>6, <1>7 DEF Tracked
  <2>1. Saved[a].episode = generation
    BY <1>1, <1>4
  <2> QED BY <1>6, <2>1
<1>10. Claimed'
  BY <1>0, <1>1, <1>4, <1>6, <1>7 DEF Claimed
<1>11. Returned'
  BY <1>1, <1>7 DEF Returned
<1>12. Known'
  BY <1>4, <1>6, <1>7 DEF Known
<1>13. Scanning'
  BY <1>3 DEF Scanning, AtWork
<1> QED BY <1>8, <1>9, <1>10, <1>11, <1>12, <1>13 DEF CveInv

-----------------------------------------------------------------------------
(* The scan that fails may have assigned an episode; a dispatch of the     *)
(* feed assigns one. *)
LEMMA FailsKeeps == ASSUME OneRoutine, CveInv, ScanFails PROVE CveInv'
<1>0. Typed /\ LaneGrows
  <2>1. Typed
    BY DEF CveInv
  <2>2. (NoPoll /\ UNCHANGED lane) \/ \E a \in Advisory : Unacknowledged(a) /\ Assign(a)
    BY DEF ScanFails
  <2> QED BY <2>1, <2>2, LaneStays, AssignGrows
<1>1. scan' = NoScan /\ UNCHANGED <<vulnerable, receipt, findings, ahead>>
  BY DEF ScanFails, world
<1>2. scan'.at = "off"
  BY <1>1 DEF NoScan
<1>3. Tracked' /\ Claimed' /\ Returned' /\ Known'
  BY <1>0, <1>1, Dispatched
<1>4. Typed' /\ Scanning'
  BY <1>0, <1>1, <1>2 DEF Typed, AtWork, LaneGrows, Scanning
<1> QED BY <1>3, <1>4 DEF CveInv

LEMMA FeedKeeps ==
  ASSUME OneRoutine, CveInv, NEW a \in Advisory, NEW j \in Job, FeedDispatches(a, j) PROVE CveInv'
<1>0. Typed
  BY DEF CveInv
<1>1. scan' = scan /\ UNCHANGED <<vulnerable, findings, ahead>>
  BY DEF FeedDispatches, world, scans
<1>2. CASE receipt[a] = 0
  BY <1>0, <1>1, <1>2, CveUntouched DEF FeedDispatches, Typed
<1>3. CASE receipt[a] # 0
  <2>1. Assign(a) /\ receipt' = [receipt EXCEPT ![a] = 0]
    BY <1>3 DEF FeedDispatches
  <2>2. LaneGrows /\ a \in open'
    BY <1>0, <2>1, AssignGrows
  <2>3. /\ receipt' \in [Advisory -> Nat \cup {Unseen}]
        /\ \A b \in Advisory :
             receipt'[b] = receipt[b] \/ (b \in open' /\ (f[b] = NoFinding => receipt'[b] = 0))
    BY <1>0, <2>1, <2>2 DEF Typed
  <2>4. Tracked' /\ Claimed' /\ Returned' /\ Known' /\ Scanning'
    BY <1>1, <2>2, <2>3, Dispatched, ScanWaits
  <2>5. Typed'
    BY <1>0, <1>1, <2>2, <2>3 DEF Typed, AtWork, LaneGrows
  <2> QED BY <2>4, <2>5 DEF CveInv
<1> QED BY <1>2, <1>3

(* Every step preserves the invariant. *)
LEMMA CveStep == ASSUME OneRoutine PROVE CveInv /\ [Next]_vars => CveInv'
<1> SUFFICES ASSUME CveInv, [Next]_vars PROVE CveInv'
  OBVIOUS
<1>0. vulnerable \in SUBSET Advisory
  BY DEF CveInv, Typed
<1>1. CASE Scan
  BY <1>1, ReadsKeeps, TakesKeeps, PassesKeeps, FiresKeeps, AcknowledgesKeeps, SavesKeeps,
     ResolvesKeeps DEF Scan
<1>2. CASE ScanFails
  BY <1>2, FailsKeeps
<1>3. CASE Continue
  BY <1>0, <1>3, CveUntouched DEF Continue, world, scans
<1>4. ASSUME NEW e \in Episode, RestEnds(e) PROVE CveInv'
  BY <1>0, <1>4, CveUntouched DEF RestEnds, world, scans
<1>5. ASSUME NEW j \in Job, NEW e \in Episode, BatchStarts(j, e) \/ Batch(j, e) \/ BatchDeferred(j, e)
      PROVE  CveInv'
  <2>1. UNCHANGED <<world, receipt, lane, scans, scan>>
    BY <1>5 DEF BatchStarts, Batch, BatchDone, BatchGivenUp, BatchDeferred
  <2> QED BY <1>0, <2>1, CveUntouched DEF world, scans
<1>6. CASE Feed
  <2>1. ASSUME NEW a \in Advisory, FeedReads(a) PROVE CveInv'
    BY <1>0, <2>1, CveUntouched DEF FeedReads, world, scans
  <2> QED BY <1>6, <2>1, FeedKeeps DEF Feed
<1>7. ASSUME NEW V \in SUBSET Advisory, Commit(V) PROVE CveInv'
  BY <1>7, CveUntouched DEF Commit, scans
<1>8. CASE Crash
  BY <1>0, <1>8, CveUntouched DEF Crash, world, scans
<1>9. CASE UNCHANGED vars
  BY <1>0, <1>9, CveUntouched DEF vars, world, scans
<1> QED BY <1>1, <1>2, <1>3, <1>4, <1>5, <1>6, <1>7, <1>8, <1>9 DEF Next

(* The invariant is one. *)
LEMMA CveAlways == ASSUME OneRoutine PROVE Spec => []CveInv
  BY CveInit, CveStep, PTL DEF Spec

-----------------------------------------------------------------------------
(* Of a repository with one routine: whatever commits come, scans fail,    *)
(* crashes cut scans short, rows be refused and newer records arrive, what *)
(* the last scan found affected is an open member of the current episode   *)
(* and bears its number, unless its return was acknowledged by a scan that *)
(* was never saved (reconcileCveScan, dispatchCveAlert, updateEpisodes).   *)
THEOREM EpisodeTracks == ASSUME OneRoutine PROVE Spec => []EpisodeTracksAffected
<1>1. CveInv => EpisodeTracksAffected
  <2> SUFFICES ASSUME CveInv, NEW j \in Job, NEW a \in Open(j) \ ahead
               PROVE  a \in open /\ findings[j][a].episode = generation
    BY DEF EpisodeTracksAffected
  <2>1. j = 1 /\ a \in Advisory \ ahead /\ f[a].status = "affected" /\ findings[j][a] = f[a]
    BY OneJob DEF Open, f
  <2> QED BY <2>1 DEF CveInv, Tracked
<1> QED BY <1>1, CveAlways, PTL
=============================================================================
