--------------------------- MODULE RunLadderProofs ---------------------------
(***************************************************************************)
(* Theorems about the ladder of execClaude (RunLadder), for any agent and  *)
(* any number of queued runs: what an answer, or the lack of one, may      *)
(* leave in the session stores, and what may follow it.                    *)
(***************************************************************************)
EXTENDS RunLadder, FiniteSetTheorems, TLAPS

(* No execution, and nothing that leads to one, follows a success.         *)
NotYet == at \in Executing \cup {"summary", "compact"} => ~answered

(* Each place knows which model runs and on which session; the fallback's  *)
(* model runs nowhere without its api.                                     *)
Sides ==
  /\ at \in {"spareFresh", "afterDamage", "afterLoss"} => resumed = None
  /\ at \in {"spare", "spareFresh"} => viaSpare
  /\ at \in {"primary", "afterDamage", "summary"} => ~viaSpare
  /\ at = "primary" => mapped \in {resumed, None} /\ resumed \notin spareApi
  /\ at = "spare" => spare \in {resumed, None} /\ (resumed # None => resumed \in spareApi)
  /\ spareModel \subseteq spareApi

(* A run is told at most once, and then leaves the place it was told in.   *)
ToldOnce ==
  /\ at \in {"primary", "spare", "summary"} => told = {}
  /\ \E t : told \subseteq {t}

Dropped == ~capped => {mapped, spare} \cap told = {}

(* The inductive invariant. *)
LadderInv == TypeOK /\ NotYet /\ Sides /\ ToldOnce /\ StoresApart /\ Dropped

(* The inductive invariant holds initially. *)
LEMMA LadderInit == Init => LadderInv
<1> SUFFICES ASSUME Init PROVE LadderInv
  OBVIOUS
<1>1. TypeOK
  <2>1. 0 \in 0..MaxWaiting
    BY LadderAssumption
  <2>2. waiting \in 0..MaxWaiting
    BY <2>1 DEF Init
  <2>3. /\ main \in BOOLEAN /\ mapped \in Maybe /\ spare \in Maybe
        /\ gone \subseteq Session /\ damaged \subseteq Session
        /\ spareModel \subseteq Session /\ spareApi \subseteq Session /\ at \in Place
    BY DEF Init, Maybe, Place
  <2>4. /\ capped \in BOOLEAN /\ viaSpare \in BOOLEAN /\ answered \in BOOLEAN
        /\ existing \in Maybe /\ resumed \in Maybe /\ told \subseteq Session
    BY DEF Init, Maybe
  <2> QED BY <2>2, <2>3, <2>4 DEF TypeOK
<1>2. NotYet /\ Sides /\ ToldOnce /\ StoresApart /\ Dropped
  BY DEF Init, NotYet, Sides, ToldOnce, StoresApart, Dropped
<1> QED BY <1>1, <1>2 DEF LadderInv

-----------------------------------------------------------------------------
(* Taking a value out of a finite set makes it at most one smaller.        *)
LEMMA RemoveOne ==
  ASSUME NEW S, IsFiniteSet(S), NEW x
  PROVE  IsFiniteSet(S \ {x}) /\ Cardinality(S \ {x}) >= Cardinality(S) - 1
<1>1. Cardinality(S) \in Nat
  BY FS_CardinalityType
<1>2. /\ IsFiniteSet(S \ {x})
      /\ Cardinality(S \ {x}) = IF x \in S THEN Cardinality(S) - 1 ELSE Cardinality(S)
  BY FS_RemoveElement
<1> QED BY <1>1, <1>2

(* There is always a session id nobody mentions.                           *)
LEMMA SomeUnused == ASSUME ToldOnce PROVE Unused # {}
<1>1. PICK t : told \subseteq {t}
  BY DEF ToldOnce
<1> DEFINE A == Session \ {mapped}
           B == A \ {spare}
           C == B \ {existing}
           D == C \ {resumed}
           E == D \ {t}
<1>2. IsFiniteSet(Session) /\ Cardinality(Session) > 6 /\ Cardinality(Session) \in Nat
  BY LadderAssumption, FS_CardinalityType
<1>3. IsFiniteSet(A) /\ Cardinality(A) >= Cardinality(Session) - 1
  BY <1>2, RemoveOne
<1>4. IsFiniteSet(B) /\ Cardinality(B) >= Cardinality(A) - 1
  BY <1>3, RemoveOne
<1>5. IsFiniteSet(C) /\ Cardinality(C) >= Cardinality(B) - 1
  BY <1>4, RemoveOne
<1>6. IsFiniteSet(D) /\ Cardinality(D) >= Cardinality(C) - 1
  BY <1>5, RemoveOne
<1>7. IsFiniteSet(E) /\ Cardinality(E) >= Cardinality(D) - 1
  BY <1>6, RemoveOne
<1>8. /\ Cardinality(A) \in Nat /\ Cardinality(B) \in Nat /\ Cardinality(C) \in Nat
      /\ Cardinality(D) \in Nat /\ Cardinality(E) \in Nat
  BY <1>3, <1>4, <1>5, <1>6, <1>7, FS_CardinalityType
<1>9. E \subseteq Unused
  BY <1>1 DEF Unused
<1> HIDE DEF A, B, C, D, E
<1>10. Cardinality(E) > 0
  BY <1>2, <1>3, <1>4, <1>5, <1>6, <1>7, <1>8
<1>11. E # {}
  BY <1>10, FS_EmptySet
<1> QED BY <1>9, <1>11

(* The session an execution opens: a new one, and only if it resumed none. *)
LEMMA NamedIsNew ==
  ASSUME LadderInv, NEW answer, NEW s \in Named(answer), s # None
  PROVE  resumed = None /\ s \in Session /\ s \notin {mapped, spare, existing, resumed} \cup told
<1>1. resumed = None
  BY DEF Named
<1>2. s = CHOOSE r \in Unused : TRUE
  BY <1>1 DEF Named
<1>3. s \in Unused
  BY <1>2, SomeUnused DEF LadderInv
<1> QED BY <1>1, <1>3 DEF Unused

(* What an execution's return does to the agent and the histories.         *)
LEMMA ReturnEffect ==
  ASSUME LadderInv, NEW place \in Executing, NEW answer, NEW s, Returns(place, answer, s)
  PROVE  /\ at = place /\ ~answered
         /\ main' = main /\ waiting' = waiting /\ capped' = capped
         /\ s \in Maybe
         /\ s # None => /\ resumed = None
                        /\ s \notin {mapped, spare, existing, resumed} \cup told
         /\ gone' \subseteq Session /\ damaged' \subseteq Session
         /\ spareModel' \subseteq Session /\ spareApi' \subseteq Session
         /\ answered' \in BOOLEAN /\ (answered' => answer = "ok")
         /\ mapped \notin spareApi' /\ (spare # None => spare \in spareApi') /\ spareModel' \subseteq spareApi'
         /\ s # None => (s \in spareApi' <=> viaSpare)
         /\ s = None => spareModel' = spareModel /\ spareApi' = spareApi
         /\ told' = told \/ (Recoverable(place, answer) /\ told' = told \cup {resumed})
         /\ resumed = None => answer \notin {"gone", "damaged"} /\ told' = told
         /\ resumed # None => resumed \in Session
<1>0. TypeOK /\ NotYet /\ StoresApart /\ s \in Named(answer) /\ None \notin Session
  BY LadderAssumption DEF LadderInv, Returns
<1>1. s # None => /\ resumed = None /\ s \in Session
                  /\ s \notin {mapped, spare, existing, resumed} \cup told
  BY <1>0, NamedIsNew
<1>2. s \in Maybe
  BY <1>1 DEF Maybe
<1>3. at = place /\ ~answered /\ main' = main /\ waiting' = waiting /\ capped' = capped
  BY <1>0 DEF Returns, NotYet
<1>4. /\ gone' = gone \ {s} /\ damaged' = damaged \ {s}
      /\ spareApi' = IF viaSpare THEN spareApi \cup ({s} \ {None}) ELSE spareApi \ {s}
      /\ spareModel' = IF place \in {"spare", "spareFresh"}
                       THEN spareModel \cup ({s} \ {None}) ELSE spareModel \ {s}
  BY DEF Returns, Opens, Marked, WithSpareArgs
<1>5. /\ gone' \subseteq Session /\ damaged' \subseteq Session
      /\ spareModel' \subseteq Session /\ spareApi' \subseteq Session
  BY <1>0, <1>1, <1>4 DEF TypeOK
<1>6. answered' \in BOOLEAN /\ (answered' => answer = "ok")
  BY <1>0, <1>3 DEF Returns, TypeOK
<1>7. /\ mapped \notin spareApi' /\ (spare # None => spare \in spareApi') /\ spareModel' \subseteq spareApi'
      /\ s # None => (s \in spareApi' <=> viaSpare)
      /\ s = None => spareModel' = spareModel /\ spareApi' = spareApi
  <2>1. spareModel \subseteq spareApi /\ (place \in {"spare", "spareFresh"} => viaSpare)
    BY <1>3 DEF LadderInv, Sides
  <2>2. spareModel' \subseteq spareApi'
    BY <1>4, <2>1
  <2>3. /\ mapped \notin spareApi' /\ (spare # None => spare \in spareApi')
        /\ s # None => (s \in spareApi' <=> viaSpare)
    BY <1>0, <1>1, <1>4 DEF StoresApart, TypeOK, Maybe
  <2>4. s = None => spareModel' = spareModel /\ spareApi' = spareApi
    BY <1>0, <1>4, <2>1 DEF TypeOK
  <2> QED BY <2>2, <2>3, <2>4
<1>8. told' = told \/ (Recoverable(place, answer) /\ told' = told \cup {resumed})
  BY DEF Returns
<1>9. resumed = None => answer \notin {"gone", "damaged"} /\ told' = told
  <2> SUFFICES ASSUME resumed = None PROVE answer \notin {"gone", "damaged"} /\ told' = told
    OBVIOUS
  <2>1. resumed \notin gone /\ resumed \notin damaged
    BY <1>0 DEF TypeOK
  <2>2. answer \notin {"gone", "damaged"}
    BY <2>1 DEF Returns, Answers
  <2> QED BY <2>2, <1>8 DEF Recoverable
<1>10. resumed # None => resumed \in Session
  BY <1>0 DEF TypeOK, Maybe
<1> QED BY <1>1, <1>2, <1>3, <1>5, <1>6, <1>7, <1>8, <1>9, <1>10

(* Where the ladder goes when it is done.                                  *)
LEMMA SettlesEffect ==
  ASSUME LadderInv, NEW answer, Settles(answer)
  PROVE  /\ at' \in {"idle", "compact", "shrink"}
         /\ at' = "compact" => answer = "timeout"
         /\ resumed' \in Maybe /\ existing' \in Maybe
<1>1. existing \in Maybe
  BY DEF LadderInv, TypeOK
<1> QED BY <1>1 DEF Settles, Over, Resume, Maybe

(* An execution that ends the run, or goes on outside an execution.        *)
LEMMA EndKeeps ==
  ASSUME LadderInv, NEW place \in Executing, NEW answer, NEW s, Returns(place, answer, s),
         at' \in {"idle", "compact", "shrink"}, at' = "compact" => answer = "timeout",
         resumed' \in Maybe, existing' \in Maybe, viaSpare' = viaSpare,
         \/ mapped' = mapped \/ (mapped' = s /\ s # None /\ ~viaSpare),
         \/ spare' = spare \/ (spare' = s /\ s # None /\ viaSpare),
         told' = told \/ (capped /\ place = "primary")
  PROVE  LadderInv'
<1> DEFINE R == Recoverable(place, answer)
<1>0. TypeOK /\ NotYet /\ Sides /\ ToldOnce /\ StoresApart /\ Dropped
  BY DEF LadderInv
<1>1. /\ at = place /\ ~answered
      /\ main' = main /\ waiting' = waiting /\ capped' = capped
      /\ s \in Maybe
      /\ s # None => s \notin {mapped, spare, existing, resumed} \cup told
      /\ gone' \subseteq Session /\ damaged' \subseteq Session
      /\ spareModel' \subseteq Session /\ spareApi' \subseteq Session
      /\ answered' \in BOOLEAN /\ (answered' => answer = "ok")
      /\ mapped \notin spareApi' /\ (spare # None => spare \in spareApi') /\ spareModel' \subseteq spareApi'
      /\ s # None => (s \in spareApi' <=> viaSpare)
      /\ told' = told \/ (R /\ told' = told \cup {resumed})
      /\ resumed = None => answer \notin {"gone", "damaged"} /\ told' = told
      /\ resumed # None => resumed \in Session
  BY ReturnEffect
<1>2. told' \subseteq Session
  BY <1>0, <1>1 DEF TypeOK
<1>3. TypeOK'
  BY <1>0, <1>1, <1>2 DEF TypeOK, Place
<1>4. NotYet'
  BY <1>1 DEF NotYet, Executing
<1>5. Sides'
  BY <1>1 DEF Sides
<1>6. ToldOnce'
  <2>1. CASE told' = told
    BY <1>0, <2>1 DEF ToldOnce
  <2>2. CASE told' # told
    <3>1. told = {} /\ told' = {resumed}
      BY <1>0, <1>1, <2>2 DEF ToldOnce
    <3> QED BY <3>1 DEF ToldOnce
  <2> QED BY <2>1, <2>2
<1>7. StoresApart'
  BY <1>0, <1>1 DEF StoresApart
<1>8. Dropped'
  BY <1>0, <1>1 DEF Dropped
<1> QED BY <1>3, <1>4, <1>5, <1>6, <1>7, <1>8 DEF LadderInv

-----------------------------------------------------------------------------
(* A step that takes a run, or the ladder, to a place without touching     *)
(* what the agent said: the effect of everything that is no return.        *)
LEMMA QuietKeeps ==
  ASSUME LadderInv, UNCHANGED history,
         TypeOK', NotYet', Sides',
         spareApi' \subseteq spareApi,
         mapped' \in {mapped, None}, spare' \in {spare, None},
         spare' # None => spare' \in spareApi',
         capped' = capped,
         at' = at \/ at' \notin {"primary", "spare", "summary"} \/ told = {}
  PROVE  LadderInv'
<1>0. TypeOK /\ ToldOnce /\ StoresApart /\ Dropped
  BY DEF LadderInv
<1>1. None \notin Session
  BY LadderAssumption
<1>2. told' = told
  BY DEF history
<1>3. ToldOnce'
  BY <1>0, <1>2 DEF ToldOnce
<1>4. StoresApart'
  BY <1>0, <1>1 DEF StoresApart, TypeOK, Sides
<1>5. Dropped'
  BY <1>0, <1>1, <1>2 DEF Dropped, TypeOK
<1> QED BY <1>3, <1>4, <1>5 DEF LadderInv

(* The next run begins, with the lane's session or with its rotation.      *)
LEMMA StartsKeeps == ASSUME LadderInv, NEW cap \in Capped, Starts(cap) PROVE LadderInv'
<1>0. TypeOK /\ StoresApart
  BY DEF LadderInv
<1>1. Begins(cap) /\ cap \in BOOLEAN
  BY LadderAssumption DEF Starts, Start, StartByRotating
<1>2. /\ capped' = cap /\ viaSpare' = FALSE /\ told' = {} /\ answered' = FALSE
      /\ gone' = gone \cap {mapped, spare} /\ damaged' = damaged \cap {mapped, spare}
      /\ spareApi' = spareApi \cap {mapped, spare}
      /\ spareModel' = spareModel \cap {mapped, spare}
      /\ main' = main /\ mapped' = mapped /\ spare' = spare
  BY <1>1 DEF Begins, Mentioned, stores
<1>3. waiting' \in 0..MaxWaiting
  <2>1. waiting \in 0..MaxWaiting /\ waiting > 0 /\ waiting' = waiting - 1
    BY <1>0, <1>1 DEF Begins, TypeOK
  <2> QED BY <2>1, LadderAssumption
<1>4. at' \in {"primary", "summary"} /\ resumed' = mapped /\ existing' \in {mapped, existing}
  BY DEF Starts, Start, StartByRotating, Resume
<1>5. TypeOK'
  <2>1. /\ gone' \subseteq Session /\ damaged' \subseteq Session
        /\ spareModel' \subseteq Session /\ spareApi' \subseteq Session
        /\ told' \subseteq Session
    BY <1>0, <1>2 DEF TypeOK
  <2>2. existing' \in Maybe /\ resumed' \in Maybe /\ at' \in Place
    BY <1>0, <1>4 DEF TypeOK, Place, Executing
  <2> QED BY <1>0, <1>1, <1>2, <1>3, <2>1, <2>2 DEF TypeOK
<1>6. NotYet' /\ ToldOnce' /\ Dropped'
  BY <1>2 DEF NotYet, ToldOnce, Dropped
<1>7. Sides'
  BY <1>0, <1>2, <1>4 DEF Sides, StoresApart
<1>8. StoresApart'
  BY <1>0, <1>2 DEF StoresApart
<1> QED BY <1>5, <1>6, <1>7, <1>8 DEF LadderInv

(* A limit hands the prompt to the fallback model.                         *)
LEMMA FallsBackKeeps == ASSUME LadderInv, NEW s, FallsBack(s) PROVE LadderInv'
<1>0. TypeOK /\ NotYet /\ Sides /\ ToldOnce /\ StoresApart /\ Dropped
  BY DEF LadderInv
<1>1. Returns("primary", "limit", s) /\ "primary" \in Executing
  BY DEF FallsBack, Uncapped, Executing
<1>2. /\ at = "primary" /\ ~answered
      /\ main' = main /\ waiting' = waiting /\ capped' = capped
      /\ gone' \subseteq Session /\ damaged' \subseteq Session
      /\ spareModel' \subseteq Session /\ spareApi' \subseteq Session
      /\ answered' \in BOOLEAN /\ ~answered'
      /\ mapped \notin spareApi' /\ (spare # None => spare \in spareApi') /\ spareModel' \subseteq spareApi'
  BY <1>1, ReturnEffect
<1>3. told' = told
  BY <1>1 DEF Returns, Recoverable
<1>4. /\ at' = "spare" /\ resumed' = spare /\ viaSpare' = TRUE
      /\ mapped' = mapped /\ spare' = spare /\ existing' = existing
  BY DEF FallsBack, Resume, stores
<1>5. TypeOK'
  BY <1>0, <1>2, <1>3, <1>4 DEF TypeOK, Place, Executing
<1>6. NotYet'
  BY <1>2 DEF NotYet
<1>7. Sides'
  BY <1>2, <1>4 DEF Sides
<1>8. ToldOnce' /\ Dropped'
  BY <1>0, <1>2, <1>3, <1>4 DEF ToldOnce, Dropped
<1>9. StoresApart'
  BY <1>2, <1>4 DEF StoresApart
<1> QED BY <1>5, <1>6, <1>7, <1>8, <1>9 DEF LadderInv

(* A session found gone or damaged is dropped and the prompt sent afresh.  *)
LEMMA RecoveryKeeps ==
  ASSUME LadderInv, NEW answer \in {"gone", "damaged"},
         \/ /\ Returns("primary", answer, None) /\ ~capped
            /\ mapped' = None /\ spare' = spare
            /\ at' \in {"afterDamage", "afterLoss"}
         \/ /\ Returns("spare", answer, None)
            /\ spare' = None /\ mapped' = mapped
            /\ at' \in {"spareFresh", "afterLoss"},
         resumed' = None, UNCHANGED <<existing, viaSpare>>
  PROVE  LadderInv'
<1>0. TypeOK /\ NotYet /\ Sides /\ ToldOnce /\ StoresApart /\ Dropped
  BY DEF LadderInv
<1>1. PICK place \in {"primary", "spare"} : Returns(place, answer, None)
  OBVIOUS
<1>2. place \in Executing
  BY DEF Executing
<1>3. /\ at = place /\ ~answered
      /\ main' = main /\ waiting' = waiting /\ capped' = capped
      /\ gone' \subseteq Session /\ damaged' \subseteq Session
      /\ answered' \in BOOLEAN /\ (answered' => answer = "ok")
      /\ spareModel' = spareModel /\ spareApi' = spareApi
      /\ told' = told \/ told' = told \cup {resumed}
      /\ resumed = None => answer \notin {"gone", "damaged"}
      /\ resumed # None => resumed \in Session
  BY <1>1, <1>2, ReturnEffect
<1>4. resumed \in Session /\ told = {} /\ ~answered' /\ None \notin Session
  BY <1>0, <1>3, LadderAssumption DEF ToldOnce
<1>5. told' \subseteq {resumed}
  BY <1>3, <1>4
<1>6. TypeOK'
  <2>1. told' \subseteq Session /\ spareModel' \subseteq Session /\ spareApi' \subseteq Session
    BY <1>0, <1>3, <1>4, <1>5 DEF TypeOK
  <2>2. mapped' \in Maybe /\ spare' \in Maybe /\ resumed' \in Maybe /\ at' \in Place
    BY <1>0 DEF TypeOK, Maybe, Place, Executing
  <2> QED BY <1>0, <1>3, <2>1, <2>2 DEF TypeOK
<1>7. NotYet'
  BY <1>4 DEF NotYet
<1>8. Sides'
  <2>1. CASE at = "primary"
    <3>1. /\ at' \in {"afterDamage", "afterLoss"} /\ ~viaSpare /\ viaSpare' = viaSpare
          /\ resumed' = None /\ spareModel' \subseteq spareApi'
      BY <1>0, <1>3, <2>1 DEF Sides, Returns
    <3> QED BY <3>1 DEF Sides
  <2>2. CASE at = "spare"
    <3>1. /\ at' \in {"spareFresh", "afterLoss"} /\ viaSpare /\ viaSpare' = viaSpare
          /\ resumed' = None /\ spareModel' \subseteq spareApi'
      BY <1>0, <1>3, <2>2 DEF Sides, Returns
    <3> QED BY <3>1 DEF Sides
  <2> QED BY <1>3, <2>1, <2>2
<1>9. ToldOnce'
  BY <1>5 DEF ToldOnce
<1>10. StoresApart'
  BY <1>0, <1>3, <1>4 DEF StoresApart, TypeOK
<1>11. Dropped'
  <2>1. CASE at = "primary"
    <3>1. mapped' = None /\ spare' = spare /\ resumed \notin spareApi
      BY <1>0, <1>3, <2>1 DEF Sides, Returns
    <3>2. spare # resumed
      BY <1>0, <1>4, <3>1 DEF StoresApart
    <3> QED BY <1>4, <1>5, <3>1, <3>2 DEF Dropped
  <2>2. CASE at = "spare"
    <3>1. spare' = None /\ mapped' = mapped /\ resumed \in spareApi
      BY <1>0, <1>4, <2>2 DEF Sides, Returns
    <3>2. mapped # resumed
      BY <1>0, <3>1 DEF StoresApart
    <3> QED BY <1>4, <1>5, <3>1, <3>2 DEF Dropped
  <2> QED BY <1>3, <2>1, <2>2
<1> QED BY <1>6, <1>7, <1>8, <1>9, <1>10, <1>11 DEF LadderInv

-----------------------------------------------------------------------------
(* Every step preserves the inductive invariant. *)
LEMMA LadderStep == LadderInv /\ [Next]_vars => LadderInv'
<1> SUFFICES ASSUME LadderInv, [Next]_vars PROVE LadderInv'
  OBVIOUS
<1>0. TypeOK /\ NotYet /\ Sides /\ ToldOnce /\ StoresApart /\ Dropped
  BY DEF LadderInv
<1>p. \A place \in Executing : place \in {"primary", "spare", "spareFresh", "afterDamage", "afterLoss", "again"}
  BY DEF Executing
<1>1. CASE Enqueue
  <2>1. waiting' \in 0..MaxWaiting
    <3>1. waiting \in 0..MaxWaiting /\ waiting < MaxWaiting /\ waiting' = waiting + 1
      BY <1>0, <1>1 DEF TypeOK, Enqueue
    <3> QED BY <3>1, LadderAssumption
  <2>2. UNCHANGED <<main, stores, agent, at, locals, history>>
    BY <1>1 DEF Enqueue
  <2>3. TypeOK'
    BY <1>0, <2>1, <2>2 DEF TypeOK, stores, agent, opened, locals, history
  <2>4. NotYet' /\ Sides'
    BY <1>0, <2>2 DEF NotYet, Sides, stores, agent, opened, locals, history
  <2> QED BY <1>0, <2>2, <2>3, <2>4, QuietKeeps DEF StoresApart, stores, agent, opened, locals
<1>2. ASSUME NEW cap \in Capped, Starts(cap) PROVE LadderInv'
  BY <1>2, StartsKeeps
<1>3. CASE Rotated
  <2>1. /\ at = "summary" /\ at' = "primary" /\ mapped' = None /\ resumed' = None
        /\ main' = main /\ waiting' = waiting /\ spare' = spare /\ gone' = gone
        /\ damaged' = damaged /\ spareModel' = spareModel /\ spareApi' = spareApi
        /\ capped' = capped
        /\ existing' = existing /\ viaSpare' = viaSpare /\ UNCHANGED history
    BY <1>3 DEF Rotated, Resume, agent, opened
  <2>2. None \notin spareApi /\ ~viaSpare /\ told = {} /\ ~answered
    BY <1>0, <2>1, LadderAssumption DEF TypeOK, Sides, ToldOnce, NotYet
  <2>3. TypeOK'
    BY <1>0, <2>1 DEF TypeOK, history, Maybe, Place, Executing
  <2>4. NotYet' /\ Sides'
    BY <1>0, <2>1, <2>2 DEF NotYet, Sides, history
  <2> QED BY <1>0, <2>1, <2>2, <2>3, <2>4, QuietKeeps DEF StoresApart
<1>4. CASE FindsDamage
  BY <1>4, RecoveryKeeps DEF FindsDamage, Uncapped, Resume
<1>5. CASE FindsLoss
  BY <1>5, RecoveryKeeps DEF FindsLoss, Uncapped, Resume
<1>6. CASE SpareFindsDamage
  BY <1>6, RecoveryKeeps DEF SpareFindsDamage, Resume
<1>7. CASE SpareFindsLoss
  BY <1>7, RecoveryKeeps DEF SpareFindsLoss, Resume
<1>8. CASE Compacted
  <2>1. /\ at = "compact"
        /\ \/ at' = "idle" /\ resumed' = None /\ existing' = None
           \/ at' = "again" /\ resumed' = existing /\ existing' = existing
        /\ main' = main /\ waiting' = waiting /\ mapped' = mapped /\ spare' = spare
        /\ gone' = gone /\ damaged' = damaged
        /\ spareModel' = spareModel /\ spareApi' = spareApi
        /\ capped' = capped /\ viaSpare' = viaSpare /\ UNCHANGED history
    BY <1>8 DEF Compacted, Over, Resume, stores, agent, opened
  <2>2. TypeOK'
    BY <1>0, <2>1 DEF TypeOK, history, Maybe, Place, Executing
  <2>3. NotYet' /\ Sides'
    BY <1>0, <2>1 DEF NotYet, Sides, history
  <2> QED BY <1>0, <2>1, <2>2, <2>3, QuietKeeps DEF StoresApart
<1>9. CASE Shrunk
  <2>1. /\ at' = "idle" /\ resumed' = None /\ existing' = None
        /\ main' = main /\ waiting' = waiting /\ mapped' = mapped /\ spare' = spare
        /\ gone' = gone /\ damaged' = damaged
        /\ spareModel' = spareModel /\ spareApi' = spareApi
        /\ capped' = capped /\ viaSpare' = viaSpare /\ UNCHANGED history
    BY <1>9 DEF Shrunk, Over, stores, agent, opened
  <2>2. TypeOK'
    BY <1>0, <2>1 DEF TypeOK, history, Maybe, Place
  <2>3. NotYet' /\ Sides'
    BY <1>0, <2>1 DEF NotYet, Sides, Executing, history
  <2> QED BY <1>0, <2>1, <2>2, <2>3, QuietKeeps DEF StoresApart
<1>10. ASSUME NEW s \in Maybe, FallsBack(s) PROVE LadderInv'
  BY <1>10, FallsBackKeeps
<1>11. ASSUME NEW answer \in Answer, Again(answer) PROVE LadderInv'
  <2>1. Returns("again", answer, None) /\ "again" \in Executing
    BY <1>11 DEF Again, Executing
  <2>2. at' = "idle" /\ resumed' = None /\ existing' = None
    BY <1>11 DEF Again, Over
  <2>3. mapped' = mapped /\ spare' = spare /\ viaSpare' = viaSpare
    BY <1>11 DEF Again, stores
  <2>4. told' = told
    BY <2>1 DEF Returns, Recoverable
  <2> QED BY <2>1, <2>2, <2>3, <2>4, EndKeeps DEF Maybe
<1>12. ASSUME NEW answer \in Answer, NEW s \in Maybe, StopsAtCap(answer, s) PROVE LadderInv'
  <2>1. Returns("primary", answer, s) /\ "primary" \in Executing /\ capped
    BY <1>12 DEF StopsAtCap, Executing
  <2>2. at' = "idle" /\ resumed' = None /\ existing' = None
    BY <1>12 DEF StopsAtCap, Over
  <2>3. mapped' = mapped /\ spare' = spare /\ viaSpare' = viaSpare
    BY <1>12 DEF StopsAtCap, stores
  <2> QED BY <2>1, <2>2, <2>3, EndKeeps DEF Maybe
<1>13. ASSUME NEW answer \in Answer, NEW s \in Maybe, PrimaryEnds(answer, s) PROVE LadderInv'
  <2>1. /\ Returns("primary", answer, s) /\ "primary" \in Executing
        /\ answer \notin {"gone", "damaged"} /\ Settles(answer)
    BY <1>13 DEF PrimaryEnds, Uncapped, Executing
  <2>2. spare' = spare /\ viaSpare' = viaSpare /\ (mapped' = mapped \/ (mapped' = s /\ s # None))
    BY <1>13 DEF PrimaryEnds, Recorded
  <2>3. told' = told
    BY <2>1 DEF Returns, Recoverable
  <2>4. ~viaSpare
    BY <1>0, <2>1 DEF Sides, Returns
  <2> QED BY <2>1, <2>2, <2>3, <2>4, SettlesEffect, EndKeeps
<1>14. ASSUME NEW answer \in Answer, NEW s \in Maybe, SpareEnds(answer, s) PROVE LadderInv'
  <2>1. PICK place \in {"spare", "spareFresh"} :
          /\ Returns(place, answer, s)
          /\ place = "spare" => answer # "damaged" /\ (answer = "gone" => existing = None)
    BY <1>14 DEF SpareEnds
  <2>2. place \in Executing /\ at = place
    BY <2>1 DEF Executing, Returns
  <2>3. /\ mapped' = mapped /\ viaSpare' = viaSpare /\ Settles(answer)
        /\ spare' = spare \/ (spare' = s /\ s # None)
    BY <1>14 DEF SpareEnds, Recorded
  <2>4. viaSpare
    BY <1>0, <2>1, <2>2 DEF Sides
  <2>5. told' = told
    <3>1. CASE place = "spare"
      BY <2>1, <3>1 DEF Returns, Recoverable
    <3>2. CASE place = "spareFresh"
      <4>1. resumed = None
        BY <1>0, <2>2, <3>2 DEF Sides
      <4> QED BY <2>1, <2>2, <4>1, ReturnEffect
    <3> QED BY <3>1, <3>2
  <2> QED BY <2>1, <2>2, <2>3, <2>4, <2>5, SettlesEffect, EndKeeps
<1>15. ASSUME NEW answer \in Answer, NEW s \in Maybe, AfterDamage(answer, s) PROVE LadderInv'
  <2>1. Returns("afterDamage", answer, s) /\ "afterDamage" \in Executing /\ Settles(answer)
    BY <1>15 DEF AfterDamage, Executing
  <2>2. spare' = spare /\ viaSpare' = viaSpare /\ (mapped' = mapped \/ (mapped' = s /\ s # None))
    BY <1>15 DEF AfterDamage
  <2>3. resumed = None /\ ~viaSpare
    BY <1>0, <2>1 DEF Sides, Returns
  <2>4. told' = told
    BY <2>1, <2>3, ReturnEffect
  <2> QED BY <2>1, <2>2, <2>3, <2>4, SettlesEffect, EndKeeps
<1>16. ASSUME NEW answer \in Answer, NEW s \in Maybe, AfterLoss(answer, s) PROVE LadderInv'
  <2>1. Returns("afterLoss", answer, s) /\ "afterLoss" \in Executing
    BY <1>16 DEF AfterLoss, Executing
  <2>2. at' = "idle" /\ resumed' = None /\ existing' = None /\ viaSpare' = viaSpare
    BY <1>16 DEF AfterLoss, Over
  <2>3. \/ spare' = spare /\ (mapped' = mapped \/ (mapped' = s /\ s # None /\ ~viaSpare))
        \/ mapped' = mapped /\ spare' = s /\ s # None /\ viaSpare
    BY <1>16 DEF AfterLoss, Recorded
  <2>4. resumed = None
    BY <1>0, <2>1 DEF Sides, Returns
  <2>5. told' = told
    BY <2>1, <2>4, ReturnEffect
  <2> QED BY <2>1, <2>2, <2>3, <2>5, EndKeeps DEF Maybe
<1>17. ASSUME NEW s \in Session, Loses(s) \/ Damages(s) PROVE LadderInv'
  <2>1. /\ gone' \subseteq Session /\ damaged' \subseteq Session
        /\ UNCHANGED <<main, waiting, stores, spareModel, spareApi, at, locals, history>>
    BY <1>0, <1>17 DEF Loses, Damages, TypeOK, opened
  <2>2. TypeOK'
    BY <1>0, <2>1 DEF TypeOK, stores, locals, history
  <2>3. NotYet' /\ Sides'
    BY <1>0, <2>1 DEF NotYet, Sides, stores, locals, history
  <2> QED BY <1>0, <2>1, <2>2, <2>3, QuietKeeps DEF StoresApart, stores, locals
<1>18. CASE Reset
  <2>1. /\ mapped' = None /\ spare' = None
        /\ UNCHANGED <<main, waiting, agent, at, locals, history>>
    BY <1>18 DEF Reset
  <2>2. TypeOK'
    BY <1>0, <2>1 DEF TypeOK, agent, opened, locals, history, Maybe
  <2>3. NotYet' /\ Sides'
    BY <1>0, <2>1 DEF NotYet, Sides, agent, opened, locals, history
  <2> QED BY <2>1, <2>2, <2>3, QuietKeeps DEF agent, opened, locals
<1>19. CASE UNCHANGED vars
  <2>1. UNCHANGED <<main, waiting, stores, agent, at, locals, history>>
    BY <1>19 DEF vars
  <2>2. TypeOK' /\ NotYet' /\ Sides'
    BY <1>0, <2>1 DEF TypeOK, NotYet, Sides, stores, agent, opened, locals, history
  <2> QED BY <1>0, <2>1, <2>2, QuietKeeps DEF StoresApart, stores, agent, opened, locals
<1> QED
  BY <1>1, <1>2, <1>3, <1>4, <1>5, <1>6, <1>7, <1>8, <1>9, <1>10, <1>11, <1>12, <1>13,
     <1>14, <1>15, <1>16, <1>17, <1>18, <1>19 DEF Next, Proceeds

(* The inductive invariant is an invariant. *)
LEMMA LadderAlways == Spec => []LadderInv
  BY LadderInit, LadderStep, PTL DEF Spec

-----------------------------------------------------------------------------
(* Once an execution of a prompt succeeded, no fallback, recovery or       *)
(* compaction sends it again, whatever the agent answers (execClaude).     *)
THEOREM PromptNotRepeated == Spec => []NotRepeatedAfterSuccess
<1>1. LadderInv => NotRepeatedAfterSuccess
  BY DEF LadderInv, NotYet, NotRepeatedAfterSuccess
<1> QED BY <1>1, LadderAlways, PTL

(* The lane resumes no session opened with the fallback's model or api,    *)
(* the fallback none opened with the lane's api, in whatever order they    *)
(* vanish, break, are reset or rotated (execClaude's two stores).  The     *)
(* model of the fallback's session is left open: see AfterLoss.            *)
THEOREM SessionsApart == Spec => []StoresApart
<1>1. LadderInv => StoresApart
  BY DEF LadderInv
<1> QED BY <1>1, LadderAlways, PTL

(* A run without a spend cap leaves no session behind that it was told is  *)
(* gone or damaged (execClaude's recoveries drop it in every order).       *)
THEOREM RefusedIsDropped == Spec => []UnusableIsDropped
<1>1. LadderInv => UnusableIsDropped
  BY DEF LadderInv, Dropped, UnusableIsDropped
<1> QED BY <1>1, LadderAlways, PTL
=============================================================================
