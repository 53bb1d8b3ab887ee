--------------------------- MODULE PrStateProofs ---------------------------
(***************************************************************************)
(* The pull-request store against any number of pull requests, changes,    *)
(* late, repeated and lost webhooks, polls, lookups, failed writes and     *)
(* restarts: merged is final, and no observation takes the store back.     *)
(***************************************************************************)
EXTENDS PrState, FiniteSetTheorems, TLAPS

AtMostOne(S) == \A a, b \in S : a = b

(* Types, and that only rows of an older version have no timestamp.        *)
Types ==
  /\ truth \in [PR -> [git : Git, dirty : BOOLEAN, at : Nat, changes : 0..MaxChanges]]
  /\ \A p \in PR : truth[p].at >= 1
  /\ hooks \subseteq Webhook
  /\ \A h \in hooks : h.said.src >= 1
  /\ store \in [PR -> SUBSET Observation]
  /\ disk \in [PR -> SUBSET Observation]
  /\ list \in [PR -> SUBSET Listed]
  /\ answer \in [PR -> SUBSET (Listed \cup Observation)]
  /\ \A p \in PR : /\ AtMostOne(store[p]) /\ AtMostOne(disk[p])
                   /\ AtMostOne(list[p]) /\ AtMostOne(answer[p])
  /\ \A p \in PR : \A o \in list[p] \cup answer[p] : o.src >= 1
  /\ \A p \in PR : \A o \in store[p] \cup disk[p] : o.src = 0 => o.seen = 0

Control ==
  /\ seeded \in BOOLEAN
  /\ fetch \in {"none", "list", "late list", "between", "nodes", "late nodes"}
  /\ asked \subseteq PR /\ touched \subseteq PR
  /\ troubles \in 0..MaxTroubles
  /\ fetch = "late list" => answer \in [PR -> SUBSET Listed]
  /\ fetch = "late nodes" => answer \in [PR -> SUBSET Observation]

(* Everything that is known or under way about p.                          *)
Sightings(p) ==
  store[p] \cup disk[p] \cup list[p] \cup answer[p]
    \cup {h.said : h \in {g \in hooks : g.pr = p}}

(* They lie on the pull request's own time line: what was seen earlier has *)
(* no later timestamp, and nothing is ahead of GitHub.                     *)
Timely(p) ==
  /\ \A a \in Sightings(p) : a.seen <= truth[p].changes /\ a.src <= truth[p].at
  /\ \A a, b \in Sightings(p) : a.seen < b.seen => a.src <= b.src

(* An answer is not older than what the store had when it was given.       *)
Fresh ==
  fetch \in {"late list", "late nodes"} =>
    \A p \in PR \ touched : \A old \in store[p], o \in answer[p] : old.seen <= o.seen

PrInv == Types /\ Control /\ (\A p \in PR : Timely(p)) /\ Fresh

(* The numbers of a sighting. *)
LEMMA SightingTyped ==
  ASSUME Types, NEW p \in PR, NEW a \in Sightings(p)
  PROVE  a.seen \in Nat /\ a.src \in Nat
<1>1. a \in Observation \cup Listed
  BY DEF Types, Sightings, Webhook
<1> QED BY <1>1 DEF Observation, Listed

(* The numbers of the truth. *)
LEMMA TruthTyped ==
  ASSUME Types
  PROVE  \A p \in PR : truth[p].at \in Nat /\ truth[p].changes \in Nat
  BY PrAssumption DEF Types

(* A step that leaves GitHub's numbers leaves its truth. *)
LEMMA TruthStays ==
  ASSUME Types, truth' = truth
  PROVE  \A p \in PR : truth[p].at <= truth'[p].at /\ truth[p].changes <= truth'[p].changes
<1>1. \A p \in PR : truth[p].at \in Nat /\ truth[p].changes \in Nat
  BY TruthTyped
<1> QED BY <1>1

(* A time line stays one when sightings are lost, repeated, copied, or     *)
(* made of the present.                                                    *)
LEMMA TimeGoesOn ==
  ASSUME Types, Types', NEW p \in PR, Timely(p),
         truth[p].at <= truth'[p].at, truth[p].changes <= truth'[p].changes,
         \A a \in Sightings(p)' :
           \/ \E b \in Sightings(p) : b.src = a.src /\ b.seen = a.seen
           \/ a.src = truth'[p].at /\ a.seen = truth'[p].changes
  PROVE  Timely(p)'
<1>1. /\ truth[p].at \in Nat /\ truth[p].changes \in Nat
      /\ truth'[p].at \in Nat /\ truth'[p].changes \in Nat
  BY PrAssumption DEF Types
<1>2. ASSUME NEW a \in Sightings(p)'
      PROVE  a.seen \in Nat /\ a.src \in Nat /\ a.seen <= truth'[p].changes /\ a.src <= truth'[p].at
  <2>1. CASE \E b \in Sightings(p) : b.src = a.src /\ b.seen = a.seen
    <3>1. PICK b \in Sightings(p) : b.src = a.src /\ b.seen = a.seen
      BY <2>1
    <3>2. b.seen \in Nat /\ b.src \in Nat /\ b.seen <= truth[p].changes /\ b.src <= truth[p].at
      BY SightingTyped DEF Timely
    <3> QED BY <1>1, <3>1, <3>2
  <2>2. CASE a.src = truth'[p].at /\ a.seen = truth'[p].changes
    BY <1>1, <2>2
  <2> QED BY <2>1, <2>2
<1>3. ASSUME NEW a \in Sightings(p)', NEW b \in Sightings(p)', a.seen < b.seen
      PROVE  a.src <= b.src
  <2>1. CASE b.src = truth'[p].at
    BY <1>2, <2>1
  <2>2. CASE a.src = truth'[p].at /\ a.seen = truth'[p].changes
    BY <1>1, <1>2, <1>3, <2>2
  <2>3. CASE /\ \E c \in Sightings(p) : c.src = a.src /\ c.seen = a.seen
             /\ \E d \in Sightings(p) : d.src = b.src /\ d.seen = b.seen
    BY <1>3, <2>3 DEF Timely
  <2> QED BY <2>1, <2>2, <2>3
<1> QED BY <1>2, <1>3 DEF Timely

-----------------------------------------------------------------------------
(* What commitPrStates does to memory and disk.                            *)
LEMMA CommitEffect ==
  ASSUME Types, Control, NEW batch \in [PR -> SUBSET Observation],
         \A p \in PR : AtMostOne(batch[p]) /\ \A o \in batch[p] : o.src >= 1,
         NEW changed, Commit(batch, changed)
  PROVE  /\ store' \in [PR -> SUBSET Observation] /\ disk' \in [PR -> SUBSET Observation]
         /\ \A p \in PR :
              \/ store'[p] = store[p]
              \/ /\ store'[p] = batch[p]
                 /\ \A o \in batch[p] : Accepts(p, o, changed)
                 /\ fetch' \notin {"none", "between"} => p \in touched'
         /\ \A p \in PR : disk'[p] \in {disk[p], batch[p]}
         /\ fetch' \notin {"none", "between"} => touched \subseteq touched'
         /\ touched' \subseteq PR /\ troubles' \in 0..MaxTroubles
<1> DEFINE new == Accepted(batch, changed)
           put(rows, S) == [p \in PR |-> IF p \in S THEN {Stamp(p, o) : o \in batch[p]} ELSE rows[p]]
<1>1. /\ store' = put(store, new)
      /\ touched' = IF fetch' \in {"none", "between"} THEN {} ELSE touched \cup new
      /\ disk' = put(disk, new) \/ disk' = disk
      /\ troubles' = troubles \/ Trouble
  BY DEF Commit
<1>2. \A p \in PR : {Stamp(p, o) : o \in batch[p]} = batch[p]
  <2>1. ASSUME NEW p \in PR, NEW o \in batch[p] PROVE Stamp(p, o) = o
    <3>1. o \in Observation /\ Versioned(o)
      BY DEF Versioned, Observation
    <3>2. Stamp(p, o) = [o EXCEPT !.src = o.src]
      BY <3>1 DEF Stamp
    <3> QED BY <3>1, <3>2 DEF Observation
  <2> QED BY <2>1
<1>3. new \subseteq PR
  BY DEF Accepted
<1>4. \A p \in PR : store'[p] = IF p \in new THEN batch[p] ELSE store[p]
  BY <1>1, <1>2
<1>5. \A p \in PR : disk'[p] \in {disk[p], batch[p]}
  BY <1>1, <1>2
<1>6. store' \in [PR -> SUBSET Observation] /\ disk' \in [PR -> SUBSET Observation]
  <2>1. put(store, new) \in [PR -> SUBSET Observation] /\ put(disk, new) \in [PR -> SUBSET Observation]
    BY <1>2 DEF Types
  <2> QED BY <1>1, <2>1 DEF Types
<1>7. \A p \in new : \A o \in batch[p] : Accepts(p, o, changed)
  BY <1>3 DEF Accepted, AtMostOne
<1>8. troubles' \in 0..MaxTroubles
  <2>1. troubles \in 0..MaxTroubles /\ MaxTroubles \in Nat
    BY PrAssumption DEF Control
  <2> QED BY <1>1, <2>1 DEF Trouble
<1>9. touched' \subseteq PR
  BY <1>1, <1>3 DEF Control
<1> QED BY <1>1, <1>4, <1>5, <1>6, <1>7, <1>8, <1>9

(* What a list says is an observation of every pull request on it.         *)
LEMMA ListObserved ==
  ASSUME NEW open \in [PR -> SUBSET Listed], \A p \in PR : AtMostOne(open[p]),
         \A p \in PR : \A l \in open[p] : l.src >= 1
  PROVE  /\ FromList(open) \in [PR -> SUBSET Observation]
         /\ \A p \in PR : AtMostOne(FromList(open)[p])
         /\ \A p \in PR : \A o \in FromList(open)[p] :
              o.src >= 1 /\ \E l \in open[p] : l.src = o.src /\ l.seen = o.seen
<1> DEFINE shown(p, l) ==
      [git  |-> IF l.draft THEN "draft"
                ELSE IF \E old \in store[p] : old.git = "conflicted" THEN "conflicted" ELSE "open",
       src  |-> l.src, seen |-> l.seen]
<1>1. \A p \in PR : FromList(open)[p] = {shown(p, l) : l \in open[p]}
  BY DEF FromList
<1>2. ASSUME NEW p \in PR, NEW l \in open[p]
      PROVE  shown(p, l) \in Observation /\ shown(p, l).src = l.src /\ shown(p, l).seen = l.seen
  <2>1. l.src \in Nat /\ l.seen \in Nat
    BY DEF Listed
  <2>2. shown(p, l).git \in State
    BY DEF State, Git
  <2> QED BY <2>1, <2>2 DEF Observation
<1>3. FromList(open) \in [PR -> SUBSET Observation]
  <2>1. \A p \in PR : FromList(open)[p] \subseteq Observation
    BY <1>1, <1>2
  <2> QED BY <2>1 DEF FromList
<1>4. \A p \in PR : AtMostOne(FromList(open)[p])
  BY <1>1 DEF AtMostOne
<1>5. \A p \in PR : \A o \in FromList(open)[p] :
        o.src >= 1 /\ \E l \in open[p] : l.src = o.src /\ l.seen = o.seen
  BY <1>1, <1>2
<1> QED BY <1>3, <1>4, <1>5

(* A recorded batch of things already seen keeps the invariant, whether it *)
(* comes from a webhook, the seed, the list or the lookup.                 *)
LEMMA CommitKeeps ==
  ASSUME PrInv, NEW batch \in [PR -> SUBSET Observation],
         \A p \in PR : AtMostOne(batch[p]) /\ \A o \in batch[p] : o.src >= 1,
         \A p \in PR : \A o \in batch[p] :
           \E b \in Sightings(p) : b.src = o.src /\ b.seen = o.seen,
         NEW changed, Commit(batch, changed),
         truth' = truth, hooks' \subseteq hooks,
         list' \in [PR -> SUBSET Listed],
         \A p \in PR : list'[p] \in {list[p], answer[p]},
         answer' \in {answer, Nothing},
         seeded' \in BOOLEAN, asked' \subseteq PR,
         fetch' \in {"none", "list", "between", "nodes"} \/ (fetch' = fetch /\ answer' = answer),
         fetch' \in {"list", "nodes"} => fetch' = fetch
  PROVE  PrInv'
<1>0. Types /\ Control /\ Fresh /\ \A p \in PR : Timely(p)
  BY DEF PrInv
<1>1. /\ store' \in [PR -> SUBSET Observation] /\ disk' \in [PR -> SUBSET Observation]
      /\ \A p \in PR :
           \/ store'[p] = store[p]
           \/ store'[p] = batch[p] /\ (fetch' \notin {"none", "between"} => p \in touched')
      /\ \A p \in PR : disk'[p] \in {disk[p], batch[p]}
      /\ fetch' \notin {"none", "between"} => touched \subseteq touched'
      /\ touched' \subseteq PR /\ troubles' \in 0..MaxTroubles
  BY <1>0, CommitEffect
<1>2. \A p \in PR : answer'[p] \in {answer[p], {}}
  BY DEF Nothing
<1>3. Types'
  <2>1. truth' \in [PR -> [git : Git, dirty : BOOLEAN, at : Nat, changes : 0..MaxChanges]]
    BY <1>0 DEF Types
  <2>2. /\ \A p \in PR : truth'[p].at >= 1
        /\ hooks' \subseteq Webhook
        /\ \A h \in hooks' : h.said.src >= 1
    BY <1>0 DEF Types
  <2>3. answer' \in [PR -> SUBSET (Listed \cup Observation)]
    BY <1>0 DEF Types, Nothing
  <2>4. \A p \in PR : /\ AtMostOne(store'[p]) /\ AtMostOne(disk'[p])
                      /\ AtMostOne(list'[p]) /\ AtMostOne(answer'[p])
    BY <1>0, <1>1, <1>2 DEF Types, AtMostOne
  <2>5. \A p \in PR : \A o \in list'[p] \cup answer'[p] : o.src >= 1
    BY <1>0, <1>2 DEF Types
  <2>6. \A p \in PR : \A o \in store'[p] \cup disk'[p] : o.src = 0 => o.seen = 0
    BY <1>0, <1>1 DEF Types
  <2> QED BY <1>1, <2>1, <2>2, <2>3, <2>4, <2>5, <2>6 DEF Types, AtMostOne
<1>4. Control'
  <2>1. fetch' \in {"none", "list", "late list", "between", "nodes", "late nodes"}
    BY <1>0 DEF Control
  <2>2. /\ fetch' = "late list" => answer' \in [PR -> SUBSET Listed]
        /\ fetch' = "late nodes" => answer' \in [PR -> SUBSET Observation]
    BY <1>0 DEF Control
  <2> QED BY <1>1, <2>1, <2>2 DEF Control
<1>5. ASSUME NEW p \in PR PROVE Timely(p)'
  <2>1. \A a \in Sightings(p)' : \E b \in Sightings(p) : b.src = a.src /\ b.seen = a.seen
    <3> SUFFICES ASSUME NEW a \in Sightings(p)'
                 PROVE  \E b \in Sightings(p) : b.src = a.src /\ b.seen = a.seen
      OBVIOUS
    <3>1. a \in batch[p] \/ a \in Sightings(p)
      BY <1>1, <1>2 DEF Sightings
    <3> QED BY <3>1
  <2>2. truth[p].at \in Nat /\ truth[p].changes \in Nat
    BY <1>0, PrAssumption DEF Types
  <2> QED BY <1>0, <1>3, <2>1, <2>2, TimeGoesOn
<1>6. Fresh'
  BY <1>0, <1>1 DEF Fresh
<1> QED BY <1>3, <1>4, <1>5, <1>6 DEF PrInv

(* The invariant when the store is left alone. *)
LEMMA StoreKept ==
  ASSUME PrInv, Types', Control', UNCHANGED <<store, disk>>, Fresh',
         \A p \in PR : truth[p].at <= truth'[p].at /\ truth[p].changes <= truth'[p].changes,
         \A p \in PR : \A a \in list'[p] \cup answer'[p] \cup {h.said : h \in {g \in hooks' : g.pr = p}} :
           \/ a \in Sightings(p)
           \/ a.src = truth'[p].at /\ a.seen = truth'[p].changes
  PROVE  PrInv'
<1>1. ASSUME NEW p \in PR PROVE Timely(p)'
  <2>1. \A a \in Sightings(p)' :
           \/ \E b \in Sightings(p) : b.src = a.src /\ b.seen = a.seen
           \/ a.src = truth'[p].at /\ a.seen = truth'[p].changes
    <3> SUFFICES ASSUME NEW a \in Sightings(p)',
                        ~(a.src = truth'[p].at /\ a.seen = truth'[p].changes)
                 PROVE  a \in Sightings(p)
      OBVIOUS
    <3>1. CASE a \in store[p] \cup disk[p]
      BY <3>1 DEF Sightings
    <3>2. CASE a \in list'[p] \cup answer'[p] \cup {h.said : h \in {g \in hooks' : g.pr = p}}
      BY <3>2
    <3> QED BY <3>1, <3>2 DEF Sightings
  <2> QED BY <2>1, TimeGoesOn DEF PrInv
<1> QED BY <1>1 DEF PrInv

-----------------------------------------------------------------------------
(* The inductive invariant holds initially. *)
LEMMA PrInvInit == Init => PrInv
<1> SUFFICES ASSUME Init PROVE PrInv
  OBVIOUS
<1>1. \A p \in PR : truth[p] \in [git : {"open", "closed"}, dirty : {FALSE}, at : {1}, changes : {0}]
  BY DEF Init
<1>2. truth \in [PR -> [git : Git, dirty : BOOLEAN, at : Nat, changes : 0..MaxChanges]]
  <2>1. 0 \in 0..MaxChanges
    BY PrAssumption
  <2>2. ASSUME NEW x \in [git : {"open", "closed"}, dirty : {FALSE}, at : {1}, changes : {0}]
        PROVE  x \in [git : Git, dirty : BOOLEAN, at : Nat, changes : 0..MaxChanges]
    <3>1. /\ x = [git |-> x.git, dirty |-> x.dirty, at |-> x.at, changes |-> x.changes]
          /\ x.git \in Git /\ x.at \in Nat /\ x.changes \in 0..MaxChanges
      BY <2>1 DEF Git
    <3>2. x.dirty \in BOOLEAN
      BY Zenon
    <3> QED BY <3>1, <3>2
  <2>3. truth \in [PR -> [git : {"open", "closed"}, dirty : {FALSE}, at : {1}, changes : {0}]]
    BY DEF Init
  <2> QED BY <2>2, <2>3
<1>3. /\ disk \in [PR -> SUBSET Observation] /\ store = disk
      /\ \A p \in PR : AtMostOne(disk[p]) /\ \A o \in disk[p] : o.src = 0 /\ o.seen = 0
  <2>1. \A g \in Legacy : [git |-> g, src |-> 0, seen |-> 0] \in Observation
    BY PrAssumption DEF Observation
  <2>2. ASSUME NEW p \in PR
        PROVE  disk[p] \subseteq Observation /\ AtMostOne(disk[p])
               /\ \A o \in disk[p] : o.src = 0 /\ o.seen = 0
    BY <2>1 DEF Init, AtMostOne
  <2> QED BY <2>2 DEF Init
<1>4. hooks = {} /\ list = Nothing /\ answer = Nothing
  BY DEF Init
<1>5. Types
  <2>1. \A p \in PR : truth[p].at >= 1
    <3>1. \A p \in PR : truth[p].at = 1
      BY <1>1
    <3> QED BY <3>1
  <2> QED BY <1>2, <1>3, <1>4, <2>1 DEF Types, Nothing, AtMostOne
<1>6. Control
  <2>1. seeded = FALSE /\ fetch = "none" /\ asked = {} /\ touched = {} /\ troubles = 0
    BY DEF Init
  <2>2. 0 \in 0..MaxTroubles
    BY PrAssumption
  <2> QED BY <2>1, <2>2 DEF Control
<1>7. ASSUME NEW p \in PR PROVE Timely(p)
  <2>1. \A a \in Sightings(p) : a.src = 0 /\ a.seen = 0
    BY <1>3, <1>4 DEF Sightings, Nothing
  <2>2. truth[p].at = 1 /\ truth[p].changes = 0
    BY <1>1
  <2> QED BY <2>1, <2>2 DEF Timely
<1>8. Fresh
  BY DEF Init, Fresh
<1> QED BY <1>5, <1>6, <1>7, <1>8 DEF PrInv

(* What GitHub says of a pull request is an observation of the present.    *)
LEMMA SaysPresent ==
  ASSUME Types, NEW p \in PR, NEW git \in State
  PROVE  /\ Says(p, git) \in Observation
         /\ Says(p, git).src = truth[p].at /\ Says(p, git).src >= 1
         /\ Says(p, git).seen = truth[p].changes
<1>1. truth[p].at \in Nat /\ truth[p].changes \in Nat /\ truth[p].at >= 1
  BY PrAssumption DEF Types
<1> QED BY <1>1 DEF Says, Observation

(* What a webhook's action implies is a state. *)
LEMMA DerivedIsState == ASSUME Types, NEW p \in PR PROVE Derived(p) \subseteq State
  BY DEF Types, Derived, State

(* GitHub's side of a step changes nothing the daemon has. *)
LEMMA RemoteKeeps ==
  ASSUME PrInv, UNCHANGED <<store, disk, list, seeded, cycle, touched>>,
         troubles' \in 0..MaxTroubles,
         truth' \in [PR -> [git : Git, dirty : BOOLEAN, at : Nat, changes : 0..MaxChanges]],
         \A p \in PR : truth[p].at <= truth'[p].at /\ truth[p].changes <= truth'[p].changes,
         hooks' \subseteq Webhook, \A h \in hooks' : h.said.src >= 1,
         \A h \in hooks' :
           \/ \E g \in hooks : g.pr = h.pr /\ g.said = h.said
           \/ h.said.src = truth'[h.pr].at /\ h.said.seen = truth'[h.pr].changes
  PROVE  PrInv'
<1>0. Types /\ Control /\ Fresh
  BY DEF PrInv
<1>1. /\ store' = store /\ disk' = disk /\ list' = list /\ seeded' = seeded
      /\ fetch' = fetch /\ answer' = answer /\ asked' = asked /\ touched' = touched
  BY DEF cycle
<1>2. \A p \in PR : truth'[p].at >= 1
  <2>1. \A p \in PR : truth[p].at \in Nat /\ truth'[p].at \in Nat /\ truth[p].at >= 1
    BY <1>0 DEF Types
  <2> QED BY <2>1
<1>3. Types'
  BY <1>0, <1>1, <1>2 DEF Types, AtMostOne
<1>4. Control'
  BY <1>0, <1>1 DEF Control
<1>5. Fresh'
  BY <1>0, <1>1 DEF Fresh
<1>6. ASSUME NEW p \in PR,
             NEW a \in list'[p] \cup answer'[p] \cup {h.said : h \in {g \in hooks' : g.pr = p}}
      PROVE  a \in Sightings(p) \/ (a.src = truth'[p].at /\ a.seen = truth'[p].changes)
  <2>1. CASE a \in list'[p] \cup answer'[p]
    BY <1>1, <2>1 DEF Sightings
  <2>2. CASE a \in {h.said : h \in {g \in hooks' : g.pr = p}}
    <3>1. PICK h \in hooks' : h.pr = p /\ h.said = a
      BY <2>2
    <3> QED BY <3>1 DEF Sightings
  <2> QED BY <1>6, <2>1, <2>2
<1> QED BY <1>1, <1>3, <1>4, <1>5, <1>6, StoreKept

(* GitHub changes a pull request: what was observed becomes the past.     *)
LEMMA ChangeKeeps == ASSUME PrInv, NEW p \in PR, Change(p) PROVE PrInv'
<1>0. Types /\ Control
  BY DEF PrInv
<1>1. PICK git \in Git, later \in {0, 1} :
        truth' = [truth EXCEPT ![p].git = git, ![p].at = @ + later, ![p].changes = @ + 1]
  <2>1. \A g \in Git : Successor(g) \subseteq Git
    BY DEF Successor, Git
  <2>2. truth[p].git \in Git
    BY <1>0 DEF Types
  <2> QED BY <2>1, <2>2 DEF Change
<1>2. PICK g \in Derived(p)' : hooks' = hooks \cup {[pr |-> p, said |-> Says(p, g)', again |-> FALSE]}
  BY DEF Change
<1>3. truth[p].changes \in Nat /\ truth[p].changes < MaxChanges /\ MaxChanges \in Nat /\ truth[p].at \in Nat
  BY <1>0, PrAssumption DEF Change, Types
<1>4. /\ truth'[p] = [git |-> git, dirty |-> truth[p].dirty,
                      at |-> truth[p].at + later, changes |-> truth[p].changes + 1]
      /\ \A q \in PR \ {p} : truth'[q] = truth[q]
  BY <1>0, <1>1 DEF Types
<1>5. truth'[p] \in [git : Git, dirty : BOOLEAN, at : Nat, changes : 0..MaxChanges]
  <2>1. truth[p].dirty \in BOOLEAN
    BY <1>0 DEF Types
  <2>2. truth[p].at + later \in Nat /\ truth[p].changes + 1 \in 0..MaxChanges
    BY <1>3
  <2> QED BY <1>4, <2>1, <2>2
<1>6. truth' \in [PR -> [git : Git, dirty : BOOLEAN, at : Nat, changes : 0..MaxChanges]]
  <2>1. \A q \in PR : truth'[q] \in [git : Git, dirty : BOOLEAN, at : Nat, changes : 0..MaxChanges]
    BY <1>0, <1>4, <1>5 DEF Types
  <2>2. truth' = [q \in PR |-> truth'[q]]
    BY <1>0, <1>1 DEF Types
  <2> QED BY <2>1, <2>2
<1>7. \A q \in PR : truth[q].at <= truth'[q].at /\ truth[q].changes <= truth'[q].changes
  <2>1. \A q \in PR : truth[q].at \in Nat /\ truth[q].changes \in Nat
    BY <1>0, PrAssumption DEF Types
  <2>2. truth'[p].at = truth[p].at + later /\ truth'[p].changes = truth[p].changes + 1
    BY <1>4
  <2> QED BY <1>3, <1>4, <2>1, <2>2
<1>8. /\ Says(p, g)' = [git |-> g, src |-> truth'[p].at, seen |-> truth'[p].changes]
      /\ g \in State
  BY <1>2, <1>4 DEF Says, Derived, State
<1>9. Says(p, g)' \in Observation /\ Says(p, g)'.src >= 1
  <2>1. truth'[p].at \in Nat /\ truth'[p].changes \in Nat /\ truth'[p].at >= 1
    <3>1. truth[p].at >= 1
      BY <1>0 DEF Types
    <3>2. truth'[p].at = truth[p].at + later /\ truth'[p].changes = truth[p].changes + 1
      BY <1>4
    <3> QED BY <1>3, <3>1, <3>2
  <2> QED BY <1>8, <2>1 DEF Observation
<1>10. /\ hooks' \subseteq Webhook /\ \A h \in hooks' : h.said.src >= 1
       /\ \A h \in hooks' :
            \/ \E k \in hooks : k.pr = h.pr /\ k.said = h.said
            \/ h.said.src = truth'[h.pr].at /\ h.said.seen = truth'[h.pr].changes
  <2>1. [pr |-> p, said |-> Says(p, g)', again |-> FALSE] \in Webhook
    BY <1>9 DEF Webhook
  <2>2. /\ hooks \subseteq Webhook /\ \A h \in hooks : h.said.src >= 1
    BY <1>0 DEF Types
  <2>3. ASSUME NEW h \in hooks', h \notin hooks
        PROVE  h.pr = p /\ h.said = Says(p, g)'
    BY <1>2, <2>3
  <2>4. Says(p, g)'.src = truth'[p].at /\ Says(p, g)'.seen = truth'[p].changes
    BY <1>8
  <2>5. hooks' \subseteq Webhook
    BY <1>2, <2>1, <2>2
  <2>6. \A h \in hooks' : h.said.src >= 1
    BY <1>9, <2>2, <2>3
  <2>7. ASSUME NEW h \in hooks'
        PROVE  \/ \E k \in hooks : k.pr = h.pr /\ k.said = h.said
               \/ h.said.src = truth'[h.pr].at /\ h.said.seen = truth'[h.pr].changes
    BY <2>3, <2>4
  <2> QED BY <2>5, <2>6, <2>7
<1>11. UNCHANGED <<store, disk, list, seeded, cycle, touched>> /\ troubles' = troubles
  BY DEF Change
<1>12. troubles' \in 0..MaxTroubles
  BY <1>0, <1>11 DEF Control
<1> QED BY <1>6, <1>7, <1>10, <1>11, <1>12, RemoteKeeps

(* A step of the poll cycle between two recordings.                        *)
LEMMA CycleKeeps ==
  ASSUME PrInv, UNCHANGED <<remote, store, disk, list, seeded, troubles>>,
         fetch' \in {"none", "list", "between", "nodes"},
         asked' \subseteq PR, touched' \subseteq PR, answer' = answer
  PROVE  PrInv'
<1>0. Types /\ Control
  BY DEF PrInv
<1>1. /\ truth' = truth /\ hooks' = hooks /\ store' = store /\ disk' = disk
      /\ list' = list /\ seeded' = seeded /\ troubles' = troubles
  BY DEF remote
<1>2. Types'
  BY <1>0, <1>1 DEF Types, AtMostOne
<1>3. Control'
  BY <1>0, <1>1 DEF Control
<1>4. Fresh'
  BY DEF Fresh
<1>5. \A p \in PR : truth[p].at <= truth'[p].at /\ truth[p].changes <= truth'[p].changes
  <2>1. \A p \in PR : truth[p].at \in Nat /\ truth[p].changes \in Nat
    BY <1>0, PrAssumption DEF Types
  <2> QED BY <1>1, <2>1
<1>6. \A p \in PR : \A a \in list'[p] \cup answer'[p] \cup {h.said : h \in {g \in hooks' : g.pr = p}} :
        a \in Sightings(p)
  BY <1>1 DEF Sightings
<1> QED BY <1>1, <1>2, <1>3, <1>4, <1>5, <1>6, StoreKept

(* GitHub answers, with the present of some pull requests.                 *)
OfThePresent ==
  \A p \in PR :
    /\ AtMostOne(answer[p])
    /\ \A a \in answer[p] : a.src = truth[p].at /\ a.seen = truth[p].changes

(* An answer of GitHub, made of the present, is on its way.               *)
LEMMA AnswerKeeps ==
  ASSUME PrInv, UNCHANGED <<remote, store, disk, list, seeded, asked, touched, troubles>>,
         \/ fetch' = "late list" /\ answer' \in [PR -> SUBSET Listed]
         \/ fetch' = "late nodes" /\ answer' \in [PR -> SUBSET Observation],
         OfThePresent'
  PROVE  PrInv'
<1>0. Types /\ Control
  BY DEF PrInv
<1>1. /\ truth' = truth /\ hooks' = hooks /\ store' = store /\ disk' = disk /\ list' = list
      /\ seeded' = seeded /\ asked' = asked /\ touched' = touched /\ troubles' = troubles
  BY DEF remote
<1>2. \A p \in PR : \A o \in answer'[p] : o.src >= 1
  <2>1. \A p \in PR : truth'[p].at >= 1
    BY <1>0, <1>1 DEF Types
  <2> QED BY <2>1 DEF OfThePresent
<1>3. Types'
  <2>1. answer' \in [PR -> SUBSET (Listed \cup Observation)]
    OBVIOUS
  <2>2. \A p \in PR : AtMostOne(answer'[p])
    BY DEF OfThePresent
  <2>3. \A p \in PR : \A o \in list'[p] \cup answer'[p] : o.src >= 1
    BY <1>0, <1>1, <1>2 DEF Types
  <2> QED BY <1>0, <1>1, <2>1, <2>2, <2>3 DEF Types, AtMostOne
<1>4. Control'
  BY <1>0, <1>1 DEF Control
<1>5. Fresh'
  <2>1. ASSUME NEW p \in PR, NEW old \in store[p], NEW o \in answer'[p]
        PROVE  old.seen <= o.seen
    <3>1. old \in Sightings(p) /\ Timely(p)
      BY DEF Sightings, PrInv
    <3>2. old.seen <= truth[p].changes
      BY <3>1 DEF Timely
    <3>3. o.seen = truth[p].changes
      BY <1>1 DEF OfThePresent
    <3> QED BY <3>2, <3>3
  <2> QED BY <1>1, <2>1 DEF Fresh
<1>6. \A p \in PR : truth[p].at <= truth'[p].at /\ truth[p].changes <= truth'[p].changes
  BY <1>0, <1>1, TruthStays
<1>7. \A p \in PR : \A a \in list'[p] \cup answer'[p] \cup {h.said : h \in {g \in hooks' : g.pr = p}} :
        \/ a \in Sightings(p)
        \/ a.src = truth'[p].at /\ a.seen = truth'[p].changes
  BY <1>1 DEF Sightings, OfThePresent
<1> QED BY <1>1, <1>3, <1>4, <1>5, <1>6, <1>7, StoreKept

(* The four batches that are recorded: each is of things sighted before.   *)
Recording(batch, changed) ==
  /\ batch \in [PR -> SUBSET Observation]
  /\ \A p \in PR : AtMostOne(batch[p]) /\ \A o \in batch[p] : o.src >= 1
  /\ \A p \in PR : \A o \in batch[p] : \E b \in Sightings(p) : b.src = o.src /\ b.seen = o.seen
  /\ Commit(batch, changed)

OfHook(h) == [p \in PR |-> IF p = h.pr THEN {h.said} ELSE {}]

(* A webhook's arrival records its one observation.                       *)
LEMMA HookIsRecording ==
  ASSUME PrInv, NEW h \in hooks, Received(h)
  PROVE  Recording(OfHook(h), {})
<1>1. h \in Webhook /\ h.said.src >= 1
  BY DEF PrInv, Types
<1>2. h.pr \in PR /\ h.said \in Observation
  BY <1>1 DEF Webhook
<1>3. OfHook(h) \in [PR -> SUBSET Observation]
  BY <1>2 DEF OfHook
<1>4. \A p \in PR : \A o \in OfHook(h)[p] : o = h.said /\ p = h.pr
  BY DEF OfHook
<1>5. \A p \in PR : \A o \in OfHook(h)[p] : o \in Sightings(p)
  BY <1>4 DEF Sightings
<1>6. Commit(OfHook(h), {})
  BY DEF Received, OfHook
<1> QED BY <1>1, <1>3, <1>4, <1>5, <1>6 DEF Recording, AtMostOne

(* The seed at boot records the list the read cache kept.                 *)
LEMMA SeedIsRecording ==
  ASSUME PrInv, Seed
  PROVE  Recording(FromList(list), PR)
<1>1. /\ list \in [PR -> SUBSET Listed] /\ \A p \in PR : AtMostOne(list[p])
      /\ \A p \in PR : \A l \in list[p] : l.src >= 1
  BY DEF PrInv, Types
<1>2. \A p \in PR : list[p] \subseteq Sightings(p)
  BY DEF Sightings
<1> QED BY <1>1, <1>2, ListObserved DEF Recording, Seed

(* The poll records the list that came back.                               *)
LEMMA ListIsRecording ==
  ASSUME PrInv, ListRecorded
  PROVE  Recording(FromList(answer), touched)
<1>1. /\ answer \in [PR -> SUBSET Listed] /\ \A p \in PR : AtMostOne(answer[p])
      /\ \A p \in PR : \A l \in answer[p] : l.src >= 1
  BY DEF PrInv, Types, Control, ListRecorded
<1>2. \A p \in PR : answer[p] \subseteq Sightings(p)
  BY DEF Sightings
<1>3. /\ FromList(answer) \in [PR -> SUBSET Observation]
      /\ \A p \in PR : AtMostOne(FromList(answer)[p])
      /\ \A p \in PR : \A o \in FromList(answer)[p] :
           o.src >= 1 /\ \E l \in answer[p] : l.src = o.src /\ l.seen = o.seen
  BY <1>1, ListObserved
<1>4. Commit(FromList(answer), touched)
  BY DEF ListRecorded
<1> QED BY <1>2, <1>3, <1>4 DEF Recording

(* The backfill records what its lookup answered.                         *)
LEMMA NodesIsRecording ==
  ASSUME PrInv, NodesRecorded
  PROVE  Recording(answer, touched)
<1>1. /\ answer \in [PR -> SUBSET Observation] /\ \A p \in PR : AtMostOne(answer[p])
      /\ \A p \in PR : \A l \in answer[p] : l.src >= 1
  BY DEF PrInv, Types, Control, NodesRecorded
<1>2. \A p \in PR : answer[p] \subseteq Sightings(p)
  BY DEF Sightings
<1> QED BY <1>1, <1>2 DEF Recording, NodesRecorded

(* Every step preserves the inductive invariant. *)
LEMMA PrInvStep == PrInv /\ [Next]_vars => PrInv'
<1> SUFFICES ASSUME PrInv, [Next]_vars PROVE PrInv'
  OBVIOUS
<1>0. Types /\ Control
  BY DEF PrInv
<1>same. \A p \in PR : truth[p].at <= truth[p].at /\ truth[p].changes <= truth[p].changes
  <2>1. \A p \in PR : truth[p].at \in Nat /\ truth[p].changes \in Nat
    BY <1>0, PrAssumption DEF Types
  <2> QED BY <2>1
<1>1. ASSUME NEW p \in PR, Change(p) PROVE PrInv'
  BY <1>1, ChangeKeeps
<1>2. ASSUME NEW p \in PR, BaseMoves(p) PROVE PrInv'
  <2>1. /\ truth' = [truth EXCEPT ![p].dirty = ~@] /\ hooks' = hooks /\ Trouble
        /\ UNCHANGED <<store, disk, list, seeded, cycle, touched>>
    BY <1>2 DEF BaseMoves
  <2>2. troubles' \in 0..MaxTroubles
    <3>1. troubles \in 0..MaxTroubles /\ MaxTroubles \in Nat
      BY <1>0, PrAssumption DEF Control
    <3> QED BY <2>1, <3>1 DEF Trouble
  <2>3. /\ truth'[p] = [git |-> truth[p].git, dirty |-> ~truth[p].dirty,
                        at |-> truth[p].at, changes |-> truth[p].changes]
        /\ \A q \in PR \ {p} : truth'[q] = truth[q]
        /\ truth' = [q \in PR |-> truth'[q]]
    BY <1>0, <2>1 DEF Types
  <2>4. truth'[p] \in [git : Git, dirty : BOOLEAN, at : Nat, changes : 0..MaxChanges]
    <3>1. /\ truth[p].git \in Git /\ truth[p].at \in Nat /\ truth[p].changes \in 0..MaxChanges
      BY <1>0 DEF Types
    <3>2. (~truth[p].dirty) \in BOOLEAN
      OBVIOUS
    <3> QED BY <2>3, <3>1, <3>2
  <2>5. \A q \in PR : truth'[q] \in [git : Git, dirty : BOOLEAN, at : Nat, changes : 0..MaxChanges]
    BY <1>0, <2>3, <2>4 DEF Types
  <2>6. truth' \in [PR -> [git : Git, dirty : BOOLEAN, at : Nat, changes : 0..MaxChanges]]
    BY <2>3, <2>5
  <2>7. \A q \in PR : truth'[q].at = truth[q].at /\ truth'[q].changes = truth[q].changes
    BY <2>3
  <2>8. hooks' \subseteq Webhook /\ \A h \in hooks' : h.said.src >= 1
    BY <1>0, <2>1 DEF Types
  <2> QED BY <1>same, <2>1, <2>2, <2>6, <2>7, <2>8, RemoteKeeps
<1>3. ASSUME NEW h \in hooks, Lost(h) \/ SentAgain(h) PROVE PrInv'
  <2>1. /\ truth' = truth /\ UNCHANGED <<store, disk, list, seeded, cycle, touched>>
        /\ hooks' \subseteq hooks \cup {[h EXCEPT !.again = TRUE]}
        /\ troubles' = troubles \/ Trouble
    BY <1>3 DEF Lost, SentAgain
  <2>2. troubles' \in 0..MaxTroubles
    <3>1. troubles \in 0..MaxTroubles /\ MaxTroubles \in Nat
      BY <1>0, PrAssumption DEF Control
    <3> QED BY <2>1, <3>1 DEF Trouble
  <2>3. /\ [h EXCEPT !.again = TRUE] \in Webhook
        /\ [h EXCEPT !.again = TRUE].pr = h.pr /\ [h EXCEPT !.again = TRUE].said = h.said
    BY <1>0 DEF Types, Webhook
  <2>4. /\ hooks' \subseteq Webhook /\ \A k \in hooks' : k.said.src >= 1
        /\ \A k \in hooks' : \E g \in hooks : g.pr = k.pr /\ g.said = k.said
    BY <1>0, <2>1, <2>3 DEF Types
  <2>5. truth' \in [PR -> [git : Git, dirty : BOOLEAN, at : Nat, changes : 0..MaxChanges]]
    BY <1>0, <2>1 DEF Types
  <2> QED BY <1>same, <2>1, <2>2, <2>4, <2>5, RemoteKeeps
<1>4. ASSUME NEW h \in hooks, Arrives(h) PROVE PrInv'
  <2>1. /\ truth' = truth /\ hooks' \subseteq hooks /\ list' = list /\ answer' = answer
        /\ seeded' = seeded /\ asked' = asked /\ fetch' = fetch /\ Received(h)
    BY <1>4 DEF Arrives, Received, cycle
  <2>2. list' \in [PR -> SUBSET Listed]
    BY <1>0, <2>1 DEF Types
  <2>3. asked' \subseteq PR
    BY <1>0, <2>1 DEF Control
  <2>4. seeded' \in BOOLEAN
    BY <1>0, <2>1 DEF Control
  <2> QED BY <2>1, <2>2, <2>3, <2>4, HookIsRecording, CommitKeeps DEF Recording
<1>5. CASE Seed
  <2>1. /\ truth' = truth /\ hooks' = hooks /\ list' = list /\ answer' = answer
        /\ seeded' = TRUE /\ asked' = asked /\ fetch' = fetch
    BY <1>5 DEF Seed, remote, cycle
  <2>2. list' \in [PR -> SUBSET Listed]
    BY <1>0, <2>1 DEF Types
  <2>3. asked' \subseteq PR
    BY <1>0, <2>1 DEF Control
  <2> QED BY <1>5, <2>1, <2>2, <2>3, SeedIsRecording, CommitKeeps DEF Recording
<1>6. CASE ListRecorded
  <2>1. /\ truth' = truth /\ hooks' = hooks /\ list' = answer /\ answer' = Nothing
        /\ seeded' = seeded /\ asked' = asked /\ fetch' = "between" /\ fetch = "late list"
    BY <1>6 DEF ListRecorded, remote
  <2>2. list' \in [PR -> SUBSET Listed] /\ asked' \subseteq PR
    BY <1>0, <2>1 DEF Control
  <2>3. seeded' \in BOOLEAN
    BY <1>0, <2>1 DEF Control
  <2> QED BY <1>6, <2>1, <2>2, <2>3, ListIsRecording, CommitKeeps DEF Recording
<1>7. CASE NodesRecorded
  <2>1. /\ truth' = truth /\ hooks' = hooks /\ list' = list /\ answer' = Nothing
        /\ seeded' = seeded /\ asked' = {} /\ fetch' = "none"
    BY <1>7 DEF NodesRecorded, remote
  <2>2. list' \in [PR -> SUBSET Listed]
    BY <1>0, <2>1 DEF Types
  <2>3. seeded' \in BOOLEAN
    BY <1>0, <2>1 DEF Control
  <2> QED BY <1>7, <2>1, <2>2, <2>3, NodesIsRecording, CommitKeeps DEF Recording
<1>8. CASE Poll
  BY <1>0, <1>8, CycleKeeps DEF Poll, Control
<1>9. CASE ListFails
  BY <1>0, <1>9, CycleKeeps DEF ListFails, Control
<1>10. ASSUME NEW S \in SUBSET Eligible, Lookup(S) PROVE PrInv'
  <2>1. S \subseteq PR
    BY PrAssumption DEF Eligible
  <2> QED BY <1>10, <2>1, CycleKeeps DEF Lookup
<1>11. CASE NodesFail
  BY <1>11, CycleKeeps DEF NodesFail
<1>12. CASE ListAnswered
  <2> DEFINE l(p) == [draft |-> truth[p].git = "draft", src |-> truth[p].at, seen |-> truth[p].changes]
  <2>1. /\ fetch' = "late list"
        /\ answer' = [p \in PR |-> IF OpenAt(p) THEN {l(p)} ELSE {}]
        /\ UNCHANGED <<remote, store, disk, list, seeded, asked, touched, troubles>>
    BY <1>12 DEF ListAnswered
  <2>2. ASSUME NEW p \in PR PROVE l(p) \in Listed
    <3>1. truth[p].at \in Nat /\ truth[p].changes \in Nat
      BY <1>0, PrAssumption DEF Types
    <3>2. (truth[p].git = "draft") \in BOOLEAN
      OBVIOUS
    <3> QED BY <3>1, <3>2 DEF Listed
  <2>3. answer' \in [PR -> SUBSET Listed]
    BY <2>1, <2>2
  <2>4. \A p \in PR : \A a \in answer'[p] : a = l(p)
    BY <2>1
  <2>5. \A p \in PR : AtMostOne(answer'[p])
    BY <2>4 DEF AtMostOne
  <2>6. \A p \in PR : \A a \in answer'[p] : a.src = truth'[p].at /\ a.seen = truth'[p].changes
    <3>1. truth' = truth
      BY <2>1 DEF remote
    <3> QED BY <2>4, <3>1
  <2> QED BY <2>1, <2>3, <2>5, <2>6, AnswerKeeps DEF OfThePresent
<1>13. ASSUME NEW S \in SUBSET asked, NodesAnswered(S) PROVE PrInv'
  <2>1. PICK said \in [PR -> State] :
          answer' = [p \in PR |-> IF p \in S THEN {Says(p, said[p])} ELSE {}]
    BY <1>13 DEF NodesAnswered
  <2>2. /\ fetch' = "late nodes"
        /\ UNCHANGED <<remote, store, disk, list, seeded, asked, touched, troubles>>
    BY <1>13 DEF NodesAnswered
  <2>3. \A p \in PR : /\ Says(p, said[p]) \in Observation
                      /\ Says(p, said[p]).src = truth[p].at
                      /\ Says(p, said[p]).seen = truth[p].changes
    BY <1>0, SaysPresent
  <2>4. answer' \in [PR -> SUBSET Observation]
    BY <2>1, <2>3
  <2>5. \A p \in PR : \A a \in answer'[p] : a = Says(p, said[p])
    BY <2>1
  <2>6. \A p \in PR : AtMostOne(answer'[p])
    BY <2>5 DEF AtMostOne
  <2>7. \A p \in PR : \A a \in answer'[p] : a.src = truth'[p].at /\ a.seen = truth'[p].changes
    <3>1. truth' = truth
      BY <2>2 DEF remote
    <3>2. \A p \in PR : \A a \in answer'[p] : a.src = truth[p].at /\ a.seen = truth[p].changes
      BY <2>3, <2>5
    <3> QED BY <3>1, <3>2
  <2> QED BY <2>2, <2>4, <2>6, <2>7, AnswerKeeps DEF OfThePresent
<1>14. CASE Restarts
  <2>1. PICK old \in SUBSET PR : Restart(old)
    BY <1>14 DEF Restarts
  <2>2. /\ disk' = [p \in PR |-> IF p \in old THEN {} ELSE disk[p]] /\ store' = disk'
        /\ truth' = truth /\ hooks' = hooks /\ list' = list
        /\ seeded' = FALSE /\ fetch' = "none" /\ answer' = Nothing
        /\ asked' = {} /\ touched' = {} /\ Trouble
    BY <2>1 DEF Restart, remote
  <2>3. disk' \in [PR -> SUBSET Observation] /\ \A p \in PR : disk'[p] \in {disk[p], {}}
    BY <1>0, <2>2 DEF Types
  <2>4. Types'
    BY <1>0, <2>2, <2>3 DEF Types, AtMostOne, Nothing
  <2>5. Control'
    <3>1. troubles' \in 0..MaxTroubles
      <4>1. troubles \in 0..MaxTroubles /\ MaxTroubles \in Nat
        BY <1>0, PrAssumption DEF Control
      <4> QED BY <2>2, <4>1 DEF Trouble
    <3> QED BY <2>2, <3>1 DEF Control
  <2>6. Fresh'
    BY <2>2 DEF Fresh
  <2>7. ASSUME NEW p \in PR PROVE Timely(p)'
    <3>1. \A a \in Sightings(p)' : a \in Sightings(p)
      BY <2>2, <2>3 DEF Sightings, Nothing
    <3> QED BY <1>0, <1>same, <2>2, <2>4, <3>1, TimeGoesOn DEF PrInv
  <2> QED BY <2>4, <2>5, <2>6, <2>7 DEF PrInv
<1>15. CASE UNCHANGED vars
  <2>1. /\ truth' = truth /\ hooks' = hooks /\ store' = store /\ disk' = disk /\ list' = list
        /\ seeded' = seeded /\ fetch' = fetch /\ answer' = answer /\ asked' = asked
        /\ touched' = touched /\ troubles' = troubles
    BY <1>15 DEF vars, remote, cycle
  <2>2. Types'
    BY <1>0, <2>1 DEF Types, AtMostOne
  <2>3. Control' /\ Fresh'
    BY <2>1 DEF PrInv, Control, Fresh
  <2>4. ASSUME NEW p \in PR PROVE Timely(p)'
    <3>1. Timely(p) /\ Sightings(p)' = Sightings(p)
      BY <2>1 DEF PrInv, Sightings
    <3> QED BY <2>1, <3>1 DEF Timely
  <2> QED BY <2>2, <2>3, <2>4 DEF PrInv
<1> QED
  BY <1>1, <1>2, <1>3, <1>4, <1>5, <1>6, <1>7, <1>8, <1>9, <1>10, <1>11, <1>12, <1>13,
     <1>14, <1>15 DEF Next, Cycle

(* The inductive invariant is an invariant. *)
LEMMA PrInvAlways == Spec => []PrInv
  BY PrInvInit, PrInvStep, PTL DEF Spec

(* All variables keep their types. *)
THEOREM PrTypeCorrect == Spec => []TypeOK
<1>1. ASSUME PrInv PROVE TypeOK
  <2>1. \A S : AtMostOne(S) => Cardinality(S) <= 1
    <3>1. ASSUME NEW S, AtMostOne(S) PROVE Cardinality(S) <= 1
      <4>1. CASE S = {}
        BY <4>1, FS_EmptySet
      <4>2. CASE S # {}
        <5>1. PICK x : S = {x}
          BY <3>1, <4>2 DEF AtMostOne
        <5> QED BY <5>1, FS_Singleton
      <4> QED BY <4>1, <4>2
    <3> QED BY <3>1
  <2>2. Types /\ Control
    BY <1>1 DEF PrInv
  <2>3. \A rows \in {store, disk} : \A p \in PR : rows[p] \subseteq Observation /\ Cardinality(rows[p]) <= 1
    BY <2>1, <2>2 DEF Types
  <2>4. \A p \in PR : list[p] \subseteq Listed /\ Cardinality(list[p]) <= 1
    BY <2>1, <2>2 DEF Types
  <2> QED BY <2>2, <2>3, <2>4 DEF TypeOK, Types, Control
<1> QED BY <1>1, PrInvAlways, PTL

-----------------------------------------------------------------------------
(* What a recorded batch does to the store, and that only an observation   *)
(* of the same second as the stored one may be an earlier one.             *)
LEMMA RecordingOf ==
  ASSUME PrInv, NEW batch, NEW changed, Recording(batch, changed), NEW p \in PR
  PROVE  /\ AtMostOne(store'[p])
         /\ \A old \in store[p], new \in store'[p] :
              \/ new = old
              \/ new \in batch[p] /\ Accepts(p, new, changed)
<1>1. \/ store'[p] = store[p]
      \/ store'[p] = batch[p] /\ \A o \in batch[p] : Accepts(p, o, changed)
  BY CommitEffect DEF Recording, PrInv
<1>2. AtMostOne(store[p]) /\ AtMostOne(batch[p])
  BY DEF PrInv, Types, Recording
<1> QED BY <1>1, <1>2 DEF AtMostOne

(* A recorded batch never replaces merged. *)
LEMMA RecordingKeepsMerged ==
  ASSUME PrInv, NEW batch, NEW changed, Recording(batch, changed), NEW p \in PR,
         NEW old \in store[p], old.git = "merged", NEW new \in store'[p]
  PROVE  new.git = "merged"
  BY RecordingOf DEF Accepts

(* A recorded batch goes back at most within the second it has stored.    *)
LEMMA RecordingBackwards ==
  ASSUME PrInv, NEW batch, NEW changed, Recording(batch, changed), NEW p \in PR,
         NEW old \in store[p], NEW new \in store'[p], new.seen < old.seen
  PROVE  new.src = old.src /\ p \notin changed /\ new \in batch[p]
<1>1. /\ old \in Sightings(p) /\ old.seen \in Nat /\ old.src \in Nat
      /\ old.src = 0 => old.seen = 0
  <2>1. old \in Sightings(p) /\ Types
    BY DEF Sightings, PrInv
  <2> QED BY <2>1, SightingTyped DEF Types
<1>2. new # old
  BY <1>1
<1>3. new \in batch[p] /\ Accepts(p, new, changed)
  BY <1>2, RecordingOf
<1>4. PICK b \in Sightings(p) : b.src = new.src /\ b.seen = new.seen
  BY <1>3 DEF Recording
<1>5. b.seen \in Nat /\ b.src \in Nat /\ Timely(p)
  BY SightingTyped DEF PrInv
<1>6. new.src <= old.src
  BY <1>1, <1>4, <1>5 DEF Timely
<1>7. new.src >= 1 /\ old.src > 0
  <2>1. new.src >= 1
    BY <1>3 DEF Recording
  <2>2. new.seen \in Nat
    BY <1>4, <1>5
  <2> QED BY <1>1, <2>1, <2>2
<1>8. IF new.src # old.src THEN new.src > old.src ELSE p \notin changed
  <2>1. Versioned(new) /\ Versioned(old)
    <3>1. new.src \in Nat
      BY <1>4, <1>5
    <3> QED BY <1>1, <1>7, <3>1 DEF Versioned
  <2>2. IF Versioned(new) /\ Versioned(old) /\ new.src # old.src THEN new.src > old.src
        ELSE p \notin changed
    BY <1>3 DEF Accepts
  <2> QED BY <2>1, <2>2
<1> QED BY <1>1, <1>3, <1>4, <1>5, <1>6, <1>8

(* A step that is neither a restart nor a recording leaves the store.      *)
LEMMA OtherStepsKeepStore ==
  ASSUME PrInv, [Next]_vars, ~Restarts
  PROVE  \/ store' = store
         \/ \E h \in hooks : Recording(OfHook(h), {}) /\ Received(h)
         \/ Recording(FromList(list), PR)
         \/ Recording(FromList(answer), touched) /\ fetch = "late list"
         \/ Recording(answer, touched) /\ fetch = "late nodes"
<1>1. CASE \E p \in PR : Change(p) \/ BaseMoves(p)
  BY <1>1 DEF Change, BaseMoves
<1>2. CASE \E h \in hooks : Lost(h) \/ SentAgain(h)
  BY <1>2 DEF Lost, SentAgain
<1>3. ASSUME NEW h \in hooks, Arrives(h) PROVE Recording(OfHook(h), {}) /\ Received(h)
  BY <1>3, HookIsRecording DEF Arrives
<1>4. CASE Seed
  BY <1>4, SeedIsRecording
<1>5. CASE ListRecorded
  BY <1>5, ListIsRecording DEF ListRecorded
<1>6. CASE NodesRecorded
  BY <1>6, NodesIsRecording DEF NodesRecorded
<1>7. CASE \/ Poll \/ ListAnswered \/ ListFails \/ NodesFail
           \/ \E S \in SUBSET Eligible : Lookup(S)
           \/ \E S \in SUBSET asked : NodesAnswered(S)
  BY <1>7 DEF Poll, ListAnswered, ListFails, NodesFail, Lookup, NodesAnswered
<1>8. CASE UNCHANGED vars
  BY <1>8 DEF vars
<1> QED BY <1>1, <1>2, <1>3, <1>4, <1>5, <1>6, <1>7, <1>8 DEF Next, Cycle

(* Once the daemon knows a pull request to be merged it shows it so until  *)
(* a restart, whatever arrives late, twice or out of order                 *)
(* (commitPrStates).                                                       *)
THEOREM MergedStaysMerged == Spec => MergedIsFinal
<1>1. ASSUME PrInv, [Next]_vars
      PROVE  [\A p \in PR : \A old \in store[p] :
                old.git = "merged" /\ ~Restarts => \A new \in store'[p] : new.git = "merged"]_vars
  <2> SUFFICES ASSUME NEW p \in PR, NEW old \in store[p], old.git = "merged", ~Restarts,
                      NEW new \in store'[p]
               PROVE  new.git = "merged"
    OBVIOUS
  <2>1. CASE store' = store
    BY <1>1, <2>1 DEF PrInv, Types, AtMostOne
  <2> QED BY <1>1, <2>1, OtherStepsKeepStore, RecordingKeepsMerged
<1> QED BY <1>1, PrInvAlways, PTL DEF Spec, MergedIsFinal

(* No list, lookup or seed takes the store back behind what it showed; a   *)
(* webhook can only within one second (commitPrStates' revision test).     *)
THEOREM StoreGoesForward == Spec => NeverBackwards
<1>1. ASSUME PrInv, [Next]_vars
      PROVE  [~Restarts => \A p \in PR : \A old \in store[p], new \in store'[p] :
                new.seen < old.seen => UNCHANGED <<fetch, seeded>> /\ new.src = old.src]_vars
  <2> SUFFICES ASSUME ~Restarts, NEW p \in PR, NEW old \in store[p], NEW new \in store'[p],
                      new.seen < old.seen
               PROVE  UNCHANGED <<fetch, seeded>> /\ new.src = old.src
    OBVIOUS
  <2>0. old.seen \in Nat
    <3>1. old \in Sightings(p) /\ Types
      BY <1>1 DEF Sightings, PrInv
    <3> QED BY <3>1, SightingTyped
  <2>1. CASE store' = store
    <3>1. new = old
      BY <1>1, <2>1 DEF PrInv, Types, AtMostOne
    <3> QED BY <2>0, <3>1
  <2>2. ASSUME NEW h \in hooks, Recording(OfHook(h), {}), Received(h)
        PROVE  UNCHANGED <<fetch, seeded>> /\ new.src = old.src
    <3>1. new.src = old.src
      BY <1>1, <2>2, RecordingBackwards
    <3> QED BY <2>2, <3>1 DEF Received, cycle
  <2>3. CASE Recording(FromList(list), PR)
    BY <1>1, <2>3, RecordingBackwards
  <2>4. ASSUME NEW batch, Recording(batch, touched),
               \A q \in PR : \A o \in batch[q] : \E a \in answer[q] : a.seen = o.seen,
               fetch \in {"late list", "late nodes"}
        PROVE  FALSE
    <3>1. p \notin touched /\ new \in batch[p]
      BY <1>1, <2>4, RecordingBackwards
    <3>2. PICK a \in answer[p] : a.seen = new.seen
      BY <2>4, <3>1
    <3>3. old.seen <= a.seen
      BY <1>1, <2>4, <3>1 DEF PrInv, Fresh
    <3>4. a.seen \in Nat
      <4>1. a \in Sightings(p) /\ Types
        BY <1>1 DEF Sightings, PrInv
      <4> QED BY <4>1, SightingTyped
    <3> QED BY <2>0, <3>2, <3>3, <3>4
  <2>5. CASE Recording(FromList(answer), touched) /\ fetch = "late list"
    <3>1. \A q \in PR : \A o \in FromList(answer)[q] : \E a \in answer[q] : a.seen = o.seen
      <4>1. /\ answer \in [PR -> SUBSET Listed] /\ \A q \in PR : AtMostOne(answer[q])
            /\ \A q \in PR : \A l \in answer[q] : l.src >= 1
        BY <1>1, <2>5 DEF PrInv, Types, Control
      <4>2. \A q \in PR : \A o \in FromList(answer)[q] :
              o.src >= 1 /\ \E l \in answer[q] : l.src = o.src /\ l.seen = o.seen
        BY <4>1, ListObserved
      <4> QED BY <4>2
    <3> QED BY <2>4, <2>5, <3>1
  <2>6. CASE Recording(answer, touched) /\ fetch = "late nodes"
    BY <2>4, <2>6
  <2> QED BY <1>1, <2>1, <2>2, <2>3, <2>5, <2>6, OtherStepsKeepStore
<1> QED BY <1>1, PrInvAlways, PTL DEF Spec, NeverBackwards
=============================================================================
