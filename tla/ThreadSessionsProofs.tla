------------------------ MODULE ThreadSessionsProofs ------------------------
(***************************************************************************)
(* Theorems about the thread sessions (ThreadSessions), for any threads,   *)
(* any number of calls awaiting the map, and any bounds on prunes,         *)
(* recoveries, crashes and failed writes: what a staged restart resumes,   *)
(* and that the log, once written, says what memory says.                  *)
(***************************************************************************)
EXTENDS ThreadSessions, SequenceTheorems, WellFoundedInduction, TLAPS

(* Whoever holds a map holds one that was made.                            *)
Pointed ==
  /\ \A i \in DOMAIN calls : Loaded => calls[i].map \in 1..cache
  /\ \A i \in DOMAIN writes : writes[i].kind = "rewrite" => writes[i].map \in 1..cache

(* A restart is staged in a life of the process that has loaded its map.   *)
Unstaged == ~Loaded => \A t \in Thread : staged[t] = 0

(* A removal of t is awaiting its turn with a map that has a session of t. *)
Pending(t) ==
  \E i \in DOMAIN calls :
    calls[i].op = "remove" /\ calls[i].thread = t /\ heap[calls[i].map][t] # NoSession

(* A staged thread has no session, or one that is about to be removed,     *)
(* unless it was written through a replaced map or given a session back.   *)
Leaves ==
  \A t \in Thread \ (strayed \cup revived) : staged[t] > 0 => heap[cache][t] = NoSession \/ Pending(t)

(* The inductive invariant. *)
SessionsInv == TypeOK /\ Pointed /\ Unstaged /\ Leaves

(* The ranges of the constants. *)
LEMMA Ranges ==
  /\ MaxSessions \in Nat /\ MaxTroubles \in Nat
  /\ MaxCalls \in Nat /\ MaxWrites \in Nat
  BY SessionsAssumption

(* The inductive invariant holds initially. *)
LEMMA SessionsInit == Init => SessionsInv
<1> SUFFICES ASSUME Init PROVE SessionsInv
  OBVIOUS
<1>0. Absent \in Image
  BY DEF Absent, Image, Maybe
<1>1. heap \in Seq(Map) /\ calls \in Seq(Call) /\ writes \in Seq(AppendTask \cup RewriteTask)
  BY DEF Init
<1>2. Len(calls) <= MaxCalls + 1 /\ Len(writes) <= MaxWrites + 1
  BY Ranges DEF Init
<1>3. made \in 0..MaxSessions /\ troubles \in 0..MaxTroubles
  BY Ranges DEF Init
<1>4. /\ objects \in [Thread -> Seq(Image)] /\ staged \in [Thread -> Nat]
      /\ log \in [Thread -> Image] /\ worn \in [Thread -> Seq(Maybe)] /\ half \in BOOLEAN
      /\ found \in [Thread -> Maybe]
      /\ strayed \subseteq Thread /\ behind \subseteq Thread /\ revived \subseteq Thread
  <2>1. <<>> \in Seq(Image) /\ <<>> \in Seq(Maybe) /\ NoSession \in Maybe
    BY DEF Maybe
  <2> QED BY <1>0, <2>1 DEF Init
<1>5. TypeOK
  BY <1>1, <1>2, <1>3, <1>4 DEF TypeOK
<1>6. Pointed /\ Unstaged /\ Leaves
  BY DEF Init, Pointed, Unstaged, Leaves
<1> QED BY <1>5, <1>6 DEF SessionsInv

-----------------------------------------------------------------------------
(* Serving the head of a queue leaves the rest of it.                      *)
LEMMA TailOf ==
  ASSUME NEW S, NEW q \in Seq(S), q # <<>>
  PROVE  /\ Tail(q) \in Seq(S) /\ Len(q) \in Nat /\ Len(q) >= 1
         /\ Len(Tail(q)) = Len(q) - 1 /\ Head(q) \in S /\ Head(q) = q[1]
         /\ \A i \in DOMAIN Tail(q) : i + 1 \in DOMAIN q /\ Tail(q)[i] = q[i + 1]
         /\ \A i \in DOMAIN q : i # 1 => i - 1 \in DOMAIN Tail(q) /\ Tail(q)[i - 1] = q[i]
<1>1. /\ Tail(q) \in Seq(S) /\ Head(q) \in S /\ Head(q) = q[1]
      /\ Len(q) \in Nat /\ Len(q) >= 1 /\ Len(Tail(q)) = Len(q) - 1
      /\ DOMAIN q = 1..Len(q) /\ DOMAIN Tail(q) = 1..(Len(q) - 1)
      /\ \A i \in 1..(Len(q) - 1) : Tail(q)[i] = q[i + 1]
  OBVIOUS
<1> QED BY <1>1

(* Queueing adds at the end. *)
LEMMA AppendOf ==
  ASSUME NEW S, NEW q \in Seq(S), NEW e \in S
  PROVE  /\ Append(q, e) \in Seq(S) /\ Len(q) \in Nat
         /\ Len(Append(q, e)) = Len(q) + 1 /\ Append(q, e)[Len(q) + 1] = e
         /\ \A i \in DOMAIN q : i \in DOMAIN Append(q, e) /\ Append(q, e)[i] = q[i]
         /\ \A i \in DOMAIN Append(q, e) : i \in DOMAIN q \/ (i = Len(q) + 1 /\ Append(q, e)[i] = e)
         /\ Len(q) + 1 \in DOMAIN Append(q, e)
<1>1. /\ Append(q, e) \in Seq(S) /\ Len(q) \in Nat /\ Len(Append(q, e)) = Len(q) + 1
      /\ DOMAIN q = 1..Len(q) /\ DOMAIN Append(q, e) = 1..(Len(q) + 1)
      /\ Append(q, e)[Len(q) + 1] = e
      /\ \A i \in 1..Len(q) : Append(q, e)[i] = q[i]
  OBVIOUS
<1> QED BY <1>1

(* What a write shows is an image. *)
LEMMA ObjectImage == ASSUME TypeOK, NEW t \in Thread, NEW o PROVE ImageOf(t, o) \in Image
<1>1. objects[t] \in Seq(Image) /\ Absent \in Image
  BY DEF TypeOK, Absent, Image, Maybe
<1> QED BY <1>1 DEF ImageOf

LEMMA ShowsImage == ASSUME TypeOK, NEW write, NEW t \in Thread PROVE Shows(write, t) \in Image
  BY ObjectImage DEF Shows

(* What is worn after an image is one more session at most. *)
LEMMA WearsTyped ==
  ASSUME NEW sids \in Seq(Maybe), NEW image \in Image PROVE Wears(sids, image) \in Seq(Maybe)
<1>1. image.sid \in Maybe
  BY DEF Image
<1> QED BY <1>1, AppendOf DEF Wears

-----------------------------------------------------------------------------
(* What is left of a pending removal of t when a call is served that is    *)
(* not it and no map loses or gains a session of t.                        *)
LEMMA OthersServed ==
  ASSUME TypeOK, Pointed, Loaded, calls # <<>>, calls' = Tail(calls), NEW t \in Thread,
         \A m \in 1..cache : heap'[m][t] = heap[m][t],
         ~(c.op = "remove" /\ c.thread = t /\ mine # NoSession),
         Pending(t)
  PROVE  Pending(t)'
<1>1. PICK i \in DOMAIN calls :
        calls[i].op = "remove" /\ calls[i].thread = t /\ heap[calls[i].map][t] # NoSession
  BY DEF Pending
<1>2. calls \in Seq(Call)
  BY DEF TypeOK
<1>3. Head(calls) = calls[1]
  BY <1>2, TailOf
<1>4. i # 1
  BY <1>1, <1>3 DEF c, mine
<1>5. i - 1 \in DOMAIN Tail(calls) /\ Tail(calls)[i - 1] = calls[i]
  BY <1>2, <1>4, TailOf
<1>6. calls[i].map \in 1..cache
  BY DEF Pointed
<1>7. heap'[calls[i].map][t] = heap[calls[i].map][t]
  BY <1>6
<1> QED BY <1>1, <1>5, <1>7 DEF Pending

(* The same when calls are only added to those awaiting.                   *)
LEMMA OthersWait ==
  ASSUME TypeOK, Pointed, Loaded, NEW e \in Call, calls' = Append(calls, e), heap' = heap,
         NEW t \in Thread, Pending(t)
  PROVE  Pending(t)'
<1>1. PICK i \in DOMAIN calls :
        calls[i].op = "remove" /\ calls[i].thread = t /\ heap[calls[i].map][t] # NoSession
  BY DEF Pending
<1>2. i \in DOMAIN calls' /\ calls'[i] = calls[i]
  BY AppendOf DEF TypeOK
<1> QED BY <1>1, <1>2 DEF Pending

(* Where the calls and writes that remain point to.                        *)
LEMMA ServedPoint ==
  ASSUME TypeOK, Pointed, Loaded, calls # <<>>, calls' = Tail(calls), cache' >= cache,
         cache' \in Nat,
         \/ writes' = writes
         \/ \E e \in AppendTask \cup RewriteTask :
              writes' = Append(writes, e) /\ (e.kind = "rewrite" => e.map \in 1..cache')
  PROVE  Pointed'
<1>1. calls \in Seq(Call) /\ writes \in Seq(AppendTask \cup RewriteTask) /\ cache \in Nat
  BY DEF TypeOK, cache
<1>2. \A i \in DOMAIN calls' : calls'[i].map \in 1..cache'
  <2>1. \A i \in DOMAIN Tail(calls) : i + 1 \in DOMAIN calls /\ Tail(calls)[i] = calls[i + 1]
    BY <1>1, TailOf
  <2>2. \A i \in DOMAIN Tail(calls) : Tail(calls)[i].map \in 1..cache
    BY <2>1 DEF Pointed
  <2> QED BY <1>1, <2>2
<1>3. ASSUME NEW i \in DOMAIN writes', writes'[i].kind = "rewrite"
      PROVE  writes'[i].map \in 1..cache'
  <2>1. CASE writes' = writes
    <3>1. writes[i].map \in 1..cache
      BY <1>3, <2>1 DEF Pointed
    <3> QED BY <1>1, <2>1, <3>1
  <2>2. CASE writes' # writes
    <3>1. PICK e \in AppendTask \cup RewriteTask :
            writes' = Append(writes, e) /\ (e.kind = "rewrite" => e.map \in 1..cache')
      BY <2>2
    <3>2. i \in DOMAIN writes \/ writes'[i] = e
      BY <1>1, <3>1, AppendOf
    <3>3. CASE i \in DOMAIN writes
      <4>1. writes'[i] = writes[i]
        BY <1>1, <3>1, <3>3, AppendOf
      <4>2. writes[i].map \in 1..cache
        BY <1>3, <3>3, <4>1 DEF Pointed
      <4> QED BY <1>1, <4>1, <4>2
    <3> QED BY <1>3, <3>1, <3>2, <3>3
  <2> QED BY <2>1, <2>2
<1> QED BY <1>2, <1>3 DEF Pointed

(* The call being served, and the map it was given.                        *)
LEMMA ServedTyped ==
  ASSUME TypeOK, Pointed, NEW op, Resumes(op)
  PROVE  /\ c \in Call /\ c.op = op /\ c.thread \in Thread
         /\ c.map \in 1..cache /\ cache \in Nat /\ cache >= 1 /\ Loaded
         /\ heap[c.map] \in Map /\ heap[cache] \in Map
         /\ mine \in Nat
         /\ calls # <<>> /\ Tail(calls) \in Seq(Call) /\ Len(Tail(calls)) <= MaxCalls
<1>1. calls \in Seq(Call) /\ calls # <<>> /\ Loaded /\ c.op = op /\ Len(calls) <= MaxCalls + 1
  BY DEF TypeOK, Resumes
<1>2. c = calls[1] /\ c \in Call /\ Tail(calls) \in Seq(Call)
      /\ Len(Tail(calls)) = Len(calls) - 1 /\ Len(calls) \in Nat /\ 1 \in DOMAIN calls
  <2>1. /\ Head(calls) = calls[1] /\ Head(calls) \in Call /\ Tail(calls) \in Seq(Call)
        /\ Len(Tail(calls)) = Len(calls) - 1 /\ Len(calls) \in Nat /\ Len(calls) >= 1
    BY <1>1, TailOf
  <2>2. 1 \in DOMAIN calls
    BY <1>1, <2>1
  <2> QED BY <2>1, <2>2 DEF c
<1>3. c.map \in 1..cache
  BY <1>1, <1>2 DEF Pointed
<1>4. cache \in Nat /\ cache >= 1
  BY <1>1 DEF TypeOK, cache, Loaded
<1>5. heap[c.map] \in Map /\ heap[cache] \in Map
  BY <1>3, <1>4 DEF TypeOK, cache
<1>6. c.thread \in Thread
  BY <1>2 DEF Call
<1>7. mine \in Nat
  BY <1>5, <1>6 DEF mine, Map
<1>8. Len(Tail(calls)) <= MaxCalls
  BY <1>1, <1>2, Ranges
<1> QED BY <1>1, <1>2, <1>3, <1>4, <1>5, <1>6, <1>7, <1>8

(* A line is appended to the queue of writes.                              *)
LEMMA LineTyped ==
  ASSUME TypeOK, Pointed, NEW op, Resumes(op), NEW o \in Nat, AppendLine(o)
  PROVE  /\ writes' \in Seq(AppendTask \cup RewriteTask) /\ Len(writes') <= MaxWrites + 1
         /\ \E e \in AppendTask \cup RewriteTask :
              writes' = Append(writes, e) /\ (e.kind = "rewrite" => e.map \in 1..cache')
<1> DEFINE e == [kind |-> "append", thread |-> c.thread, object |-> o]
<1>1. c.thread \in Thread
  BY ServedTyped
<1>2. e \in AppendTask
  BY <1>1 DEF AppendTask
<1>3. e.kind # "rewrite"
  OBVIOUS
<1>4. writes' = Append(writes, e)
  BY DEF AppendLine
<1> HIDE DEF e
<1>5. writes \in Seq(AppendTask \cup RewriteTask) /\ Len(writes) <= MaxWrites
  BY DEF TypeOK, Resumes
<1>6. writes' \in Seq(AppendTask \cup RewriteTask) /\ Len(writes') = Len(writes) + 1 /\ Len(writes) \in Nat
  BY <1>2, <1>4, <1>5, AppendOf
<1> QED BY <1>2, <1>3, <1>4, <1>5, <1>6, Ranges

-----------------------------------------------------------------------------
(* An operation is called. *)
LEMMA InvokeKeeps == ASSUME SessionsInv, NEW op \in Op, NEW t \in Thread, Invoke(op, t) PROVE SessionsInv'
<1> DEFINE e == [op |-> op, thread |-> t, map |-> cache]
<1>0. TypeOK /\ Pointed /\ Unstaged /\ Leaves
  BY DEF SessionsInv
<1>1. /\ calls' = Append(calls, e) /\ Len(calls) < MaxCalls
      /\ heap' = heap /\ objects' = objects /\ staged' = staged /\ writes' = writes /\ log' = log
      /\ worn' = worn /\ half' = half /\ found' = found /\ made' = made
      /\ strayed' = strayed /\ behind' = behind /\ revived' = revived
  BY DEF Invoke, Await, memory, file, history
<1>t. troubles' \in 0..MaxTroubles
  <2>1. troubles \in 0..MaxTroubles
    BY <1>0 DEF TypeOK
  <2> QED BY <2>1, Ranges DEF Invoke, Trouble
<1>2. cache \in Nat /\ cache' = cache
  BY <1>0, <1>1 DEF TypeOK, cache
<1>3. e \in Call
  BY <1>2 DEF Call
<1>4. e.map = cache
  OBVIOUS
<1> HIDE DEF e
<1>5. calls \in Seq(Call)
  BY <1>0 DEF TypeOK
<1>6. /\ calls' \in Seq(Call) /\ Len(calls') = Len(calls) + 1 /\ Len(calls) \in Nat
      /\ \A i \in DOMAIN calls' : (i \in DOMAIN calls /\ calls'[i] = calls[i]) \/ calls'[i] = e
  BY <1>1, <1>3, <1>5, AppendOf
<1>7. Len(calls') <= MaxCalls + 1
  BY <1>1, <1>6, Ranges
<1>8. TypeOK'
  BY <1>0, <1>1, <1>t, <1>6, <1>7 DEF TypeOK
<1>9. Pointed'
  <2>1. ASSUME NEW i \in DOMAIN calls', Loaded' PROVE calls'[i].map \in 1..cache'
    <3>1. CASE i \in DOMAIN calls /\ calls'[i] = calls[i]
      BY <1>0, <1>2, <2>1, <3>1 DEF Pointed, Loaded
    <3>2. CASE calls'[i] = e
      BY <1>2, <1>4, <2>1, <3>2 DEF Loaded
    <3> QED BY <1>6, <3>1, <3>2
  <2> QED BY <1>0, <1>1, <1>2, <2>1 DEF Pointed
<1>10. Unstaged'
  BY <1>0, <1>1, <1>2 DEF Unstaged, Loaded
<1>11. Leaves'
  <2> SUFFICES ASSUME NEW u \in Thread \ (strayed' \cup revived'), staged'[u] > 0
               PROVE  heap'[cache'][u] = NoSession \/ Pending(u)'
    BY DEF Leaves
  <2>1. Loaded
    BY <1>0, <1>1 DEF Unstaged
  <2>2. heap[cache][u] = NoSession \/ Pending(u)
    BY <1>0, <1>1 DEF Leaves
  <2> QED BY <1>0, <1>1, <1>2, <1>3, <2>1, <2>2, OthersWait
<1> QED BY <1>8, <1>9, <1>10, <1>11 DEF SessionsInv

(* The map is loaded: nothing is staged yet. *)
LEMMA LoadKeeps == ASSUME SessionsInv, Load PROVE SessionsInv'
<1> DEFINE map == [t \in Thread |-> Len(objects'[t])]
<1>0. TypeOK /\ Pointed /\ Unstaged /\ Leaves
  BY DEF SessionsInv
<1>1. /\ heap = <<>> /\ heap' = <<map>> /\ staged' = staged /\ writes' = writes /\ log' = log
      /\ worn' = worn /\ half' = half /\ found' = found /\ made' = made /\ troubles' = troubles
      /\ strayed' = strayed /\ behind' = behind /\ revived' = revived
      /\ calls' = [i \in DOMAIN calls |-> [calls[i] EXCEPT !.map = 1]]
  BY <1>0 DEF Load, file, counts, history, Loaded, cache, TypeOK
<1>4. objects' \in [Thread -> Seq(Image)]
  <2>1. objects' = [t \in Thread |-> IF log[t] = Absent THEN <<>> ELSE <<log[t]>>]
    BY DEF Load
  <2>2. ASSUME NEW t \in Thread PROVE <<log[t]>> \in Seq(Image)
    BY <1>0 DEF TypeOK
  <2> QED BY <2>1, <2>2
<1>2. map \in Map
  BY <1>4 DEF Map
<1> HIDE DEF map
<1>3. heap' \in Seq(Map) /\ Len(heap') = 1
  BY <1>1, <1>2
<1>5. calls' \in Seq(Call) /\ Len(calls') = Len(calls) /\ \A i \in DOMAIN calls' : calls'[i].map = 1
  <2>1. calls \in Seq(Call)
    BY <1>0 DEF TypeOK
  <2>2. ASSUME NEW call \in Call PROVE [call EXCEPT !.map = 1] \in Call
    BY DEF Call
  <2>3. DOMAIN calls = 1..Len(calls) /\ Len(calls) \in Nat /\ \A i \in DOMAIN calls : calls[i] \in Call
    BY <2>1
  <2>4. calls' \in [1..Len(calls) -> Call]
    BY <1>1, <2>2, <2>3
  <2>5. calls' \in Seq(Call) /\ Len(calls') = Len(calls)
    BY <2>3, <2>4, SeqDef, LenProperties
  <2>6. ASSUME NEW i \in DOMAIN calls' PROVE calls'[i].map = 1
    <3>1. i \in DOMAIN calls /\ calls'[i] = [calls[i] EXCEPT !.map = 1] /\ calls[i] \in Call
      BY <1>1, <2>3, <2>6
    <3> QED BY <3>1 DEF Call
  <2> QED BY <2>5, <2>6
<1>6. TypeOK'
  BY <1>0, <1>1, <1>3, <1>4, <1>5 DEF TypeOK
<1>7. Pointed'
  <2>1. \A i \in DOMAIN writes : writes[i].kind # "rewrite"
    BY <1>0, <1>1 DEF Pointed, cache
  <2> QED BY <1>1, <1>3, <1>5, <2>1 DEF Pointed, cache
<1>8. \A t \in Thread : staged'[t] = 0
  BY <1>0, <1>1 DEF Unstaged, Loaded, cache
<1>9. Unstaged' /\ Leaves'
  BY <1>8 DEF Unstaged, Leaves
<1> QED BY <1>6, <1>7, <1>9 DEF SessionsInv

(* Served calls that leave the maps and what is staged alone.              *)
LEMMA UpdateKeeps ==
  ASSUME SessionsInv, NEW full \in BOOLEAN, NEW turn \in BOOLEAN, Update(full, turn)
  PROVE  SessionsInv'
<1>0. TypeOK /\ Pointed /\ Unstaged /\ Leaves
  BY DEF SessionsInv
<1>1. Resumes("update")
  BY DEF Update
<1>2. /\ calls' = Tail(calls) /\ heap' = heap /\ staged' = staged /\ log' = log
      /\ worn' = worn /\ half' = half /\ found' = found /\ made' = made
      /\ troubles' = troubles /\ behind' = behind /\ revived' = revived
  BY DEF Update, file, counts
<1>3. cache' = cache /\ cache \in Nat /\ Loaded /\ calls # <<>>
  BY <1>0, <1>1, <1>2, ServedTyped DEF cache
<1>4. /\ objects' \in [Thread -> Seq(Image)]
      /\ strayed \subseteq strayed' /\ strayed' \subseteq Thread
      /\ writes' \in Seq(AppendTask \cup RewriteTask) /\ Len(writes') <= MaxWrites + 1
      /\ \/ writes' = writes
         \/ \E e \in AppendTask \cup RewriteTask :
              writes' = Append(writes, e) /\ (e.kind = "rewrite" => e.map \in 1..cache')
  <2>1. CASE mine = NoSession
    BY <1>0, <2>1 DEF Update, TypeOK
  <2>2. CASE mine # NoSession
    <3> DEFINE image == Worked(objects[c.thread][mine], full, turn)
               mended == [objects[c.thread] EXCEPT ![mine] = image]
    <3>1. mine \in Nat /\ c.thread \in Thread
      BY <1>0, <1>1, <2>2, ServedTyped
    <3>2. objects' = [objects EXCEPT ![c.thread] = mended] /\ AppendLine(mine) /\ NotesStray
      BY <2>2 DEF Update
    <3>3. objects[c.thread] \in Seq(Image)
      BY <1>0, <3>1 DEF TypeOK
    <3>4. mended \in Seq(Image)
      <4>1. CASE mine \in 1..Len(objects[c.thread])
        <5>1. image \in Image
          <6>1. objects[c.thread][mine] \in Image
            BY <3>3, <4>1
          <6> HIDE DEF mine
          <6> QED BY <6>1 DEF Image, Worked
        <5> HIDE DEF image
        <5> QED BY <3>3, <4>1, <5>1, ExceptSeq
      <4>2. CASE mine \notin 1..Len(objects[c.thread])
        <5> HIDE DEF image
        <5>1. mended = objects[c.thread]
          BY <3>3, <4>2
        <5> QED BY <3>3, <5>1
      <4> QED BY <4>1, <4>2
    <3> HIDE DEF mended
    <3>5. objects' \in [Thread -> Seq(Image)]
      BY <1>0, <3>1, <3>2, <3>4 DEF TypeOK
    <3>6. strayed \subseteq strayed' /\ strayed' \subseteq Thread
      BY <1>0, <3>1, <3>2 DEF NotesStray, TypeOK
    <3> QED BY <1>0, <1>1, <3>1, <3>2, <3>5, <3>6, LineTyped
  <2> QED BY <2>1, <2>2
<1>5. calls' \in Seq(Call) /\ Len(calls') <= MaxCalls + 1
  BY <1>0, <1>1, <1>2, ServedTyped, Ranges DEF TypeOK
<1>6. TypeOK'
  BY <1>0, <1>2, <1>4, <1>5 DEF TypeOK
<1>7. Pointed'
  BY <1>0, <1>2, <1>3, <1>4, ServedPoint
<1>8. Unstaged'
  BY <1>0, <1>2, <1>3 DEF Unstaged, Loaded
<1>9. Leaves'
  <2> SUFFICES ASSUME NEW u \in Thread \ (strayed' \cup revived'), staged'[u] > 0
               PROVE  heap'[cache'][u] = NoSession \/ Pending(u)'
    BY DEF Leaves
  <2>1. heap[cache][u] = NoSession \/ Pending(u)
    BY <1>0, <1>2, <1>4 DEF Leaves
  <2>2. c.op # "remove"
    BY <1>1 DEF Resumes
  <2> QED BY <1>0, <1>2, <1>3, <2>1, <2>2, OthersServed
<1> QED BY <1>6, <1>7, <1>8, <1>9 DEF SessionsInv

(* A thread is pointed at another object in the map of the call.           *)
LEMMA PointEffect ==
  ASSUME TypeOK, Pointed, NEW op, Resumes(op), NEW o \in Nat, Point(o)
  PROVE  /\ heap' \in Seq(Map) /\ cache' = cache
         /\ heap'[c.map][c.thread] = o
         /\ \A m \in 1..cache, t \in Thread :
              (m = c.map /\ t = c.thread) \/ heap'[m][t] = heap[m][t]
         /\ strayed \subseteq strayed' /\ strayed' \subseteq Thread
         /\ c.thread \notin strayed' => c.map = cache
<1> DEFINE map == [heap[c.map] EXCEPT ![c.thread] = o]
<1>1. /\ c.thread \in Thread /\ c.map \in 1..cache /\ cache \in Nat /\ heap[c.map] \in Map
  BY ServedTyped
<1>2. map \in Map /\ map[c.thread] = o /\ \A t \in Thread : t = c.thread \/ map[t] = heap[c.map][t]
  BY <1>1 DEF Map
<1>3. heap' = [heap EXCEPT ![c.map] = map]
  BY DEF Point
<1> HIDE DEF map
<1>4. heap \in Seq(Map) /\ c.map \in 1..Len(heap)
  BY <1>1 DEF TypeOK, cache
<1>5. /\ heap' \in Seq(Map) /\ Len(heap') = Len(heap)
      /\ \A m \in 1..Len(heap) : heap'[m] = IF m = c.map THEN map ELSE heap[m]
  BY <1>2, <1>3, <1>4, ExceptSeq
<1>6. /\ strayed \subseteq strayed' /\ strayed' \subseteq Thread
      /\ c.thread \notin strayed' => c.map = cache
  BY <1>1 DEF Point, TypeOK
<1> QED BY <1>1, <1>2, <1>4, <1>5, <1>6 DEF cache

(* The thread gets an object of its own; nothing else is touched.          *)
LEMMA NewObject ==
  ASSUME TypeOK, Pointed, NEW op, Resumes(op), NEW image \in Image, PointAtNew(image)
  PROVE  /\ objects' \in [Thread -> Seq(Image)]
         /\ \A t \in Thread : t = c.thread \/ objects'[t] = objects[t]
         /\ \E o \in Nat : Point(o) /\ AppendLine(o)
<1>1. c.thread \in Thread
  BY ServedTyped
<1>2. objects[c.thread] \in Seq(Image)
  BY <1>1 DEF TypeOK
<1>3. Append(objects[c.thread], image) \in Seq(Image) /\ Len(objects[c.thread]) + 1 \in Nat
  BY <1>2
<1>4. objects' = [objects EXCEPT ![c.thread] = Append(objects[c.thread], image)]
  BY DEF PointAtNew
<1>5. Point(Len(objects[c.thread]) + 1) /\ AppendLine(Len(objects[c.thread]) + 1)
  BY DEF PointAtNew, Point
<1> QED BY <1>1, <1>3, <1>4, <1>5 DEF TypeOK

(* A served call points its thread at a new object.  What is staged for    *)
(* the thread is consumed, or the thread counts as revived.                *)
LEMMA NewKeeps ==
  ASSUME SessionsInv, NEW op, Resumes(op), op # "remove", calls' = Tail(calls),
         NEW image \in Image, PointAtNew(image),
         staged' \in [Thread -> Nat],
         \A t \in Thread : t = c.thread \/ staged'[t] = staged[t],
         revived' \subseteq Thread, revived \subseteq revived' \cup {c.thread},
         staged'[c.thread] = 0 \/ c.thread \in revived',
         made' \in 0..MaxSessions, found' \in [Thread -> Maybe],
         UNCHANGED <<file, troubles, behind>>
  PROVE  SessionsInv'
<1>0. TypeOK /\ Pointed /\ Unstaged /\ Leaves
  BY DEF SessionsInv
<1>1. log' = log /\ worn' = worn /\ half' = half /\ troubles' = troubles /\ behind' = behind
  BY DEF file
<1>2. PICK o \in Nat : Point(o) /\ AppendLine(o)
  BY <1>0, NewObject
<1>3. objects' \in [Thread -> Seq(Image)]
  BY <1>0, NewObject
<1>4. c.thread \in Thread /\ c.op = op /\ cache \in Nat /\ Loaded /\ calls # <<>>
  BY <1>0, ServedTyped
<1>5. /\ heap' \in Seq(Map) /\ cache' = cache
      /\ \A m \in 1..cache, t \in Thread : t = c.thread \/ heap'[m][t] = heap[m][t]
      /\ strayed \subseteq strayed' /\ strayed' \subseteq Thread
  BY <1>0, <1>2, PointEffect
<1>6. /\ writes' \in Seq(AppendTask \cup RewriteTask) /\ Len(writes') <= MaxWrites + 1
      /\ \E e \in AppendTask \cup RewriteTask :
            writes' = Append(writes, e) /\ (e.kind = "rewrite" => e.map \in 1..cache')
  BY <1>0, <1>2, LineTyped
<1>7. calls' \in Seq(Call) /\ Len(calls') <= MaxCalls + 1
  BY <1>0, ServedTyped, Ranges DEF TypeOK
<1>8. TypeOK'
  BY <1>0, <1>1, <1>3, <1>5, <1>6, <1>7 DEF TypeOK
<1>9. Pointed'
  BY <1>0, <1>4, <1>5, <1>6, ServedPoint
<1>10. Unstaged'
  BY <1>4, <1>5 DEF Unstaged, Loaded
<1>11. Leaves'
  <2> SUFFICES ASSUME NEW u \in Thread \ (strayed' \cup revived'), staged'[u] > 0
               PROVE  heap'[cache'][u] = NoSession \/ Pending(u)'
    BY DEF Leaves
  <2>1. u # c.thread
    OBVIOUS
  <2>2. heap[cache][u] = NoSession \/ Pending(u)
    BY <1>0, <1>5, <2>1 DEF Leaves
  <2>3. cache \in 1..cache
    BY <1>4 DEF Loaded
  <2> QED BY <1>0, <1>4, <1>5, <2>1, <2>2, <2>3, OthersServed
<1> QED BY <1>8, <1>9, <1>10, <1>11 DEF SessionsInv

(* A new session takes the place of whatever was staged.                   *)
LEMMA CreateKeeps == ASSUME SessionsInv, Create PROVE SessionsInv'
<1> DEFINE image == [Absent EXCEPT !.sid = made + 1, !.generation = staged[c.thread]]
<1>0. TypeOK /\ Pointed
  BY DEF SessionsInv
<1>1. /\ Resumes("create") /\ calls' = Tail(calls) /\ PointAtNew(image)
      /\ made < MaxSessions /\ made' = made + 1 /\ UNCHANGED <<file, troubles, behind>>
      /\ found' = found /\ revived' = revived \ {c.thread}
      /\ staged' = [staged EXCEPT ![c.thread] = 0]
  BY DEF Create, NewSession
<1>2. c.thread \in Thread
  BY <1>0, <1>1, ServedTyped
<1>3. made \in Nat /\ made' \in 0..MaxSessions /\ made + 1 \in Session
  <2>1. made \in 0..MaxSessions /\ MaxSessions \in Nat
    BY <1>0, Ranges DEF TypeOK
  <2> QED BY <1>1, <2>1 DEF Session
<1>4. image \in Image
  <2>1. staged[c.thread] \in Nat
    BY <1>0, <1>2 DEF TypeOK
  <2> QED BY <1>3, <2>1 DEF Absent, Image, Maybe
<1> HIDE DEF image
<1>5. /\ staged' \in [Thread -> Nat] /\ staged'[c.thread] = 0
      /\ \A t \in Thread : t = c.thread \/ staged'[t] = staged[t]
  BY <1>0, <1>1, <1>2 DEF TypeOK
<1>6. found' \in [Thread -> Maybe] /\ revived' \subseteq Thread /\ revived \subseteq revived' \cup {c.thread}
  BY <1>0, <1>1 DEF TypeOK
<1> QED BY <1>1, <1>3, <1>4, <1>5, <1>6, NewKeeps

(* The recovered session leaves what is staged: such a thread is revived.  *)
LEMMA RemapKeeps == ASSUME SessionsInv, NEW full \in BOOLEAN, Remap(full) PROVE SessionsInv'
<1> DEFINE image == [Absent EXCEPT !.sid = found[c.thread], !.full = full, !.used = TRUE]
<1>0. TypeOK /\ Pointed
  BY DEF SessionsInv
<1>1. /\ Resumes("remap") /\ calls' = Tail(calls) /\ PointAtNew(image)
      /\ UNCHANGED <<file, troubles, behind>> /\ made' = made /\ staged' = staged
      /\ found' = [found EXCEPT ![c.thread] = NoSession]
      /\ revived' = IF staged[c.thread] > 0 THEN revived \cup {c.thread} ELSE revived
  BY DEF Remap, counts
<1>2. c.thread \in Thread
  BY <1>0, <1>1, ServedTyped
<1>3. image \in Image
  <2>1. found[c.thread] \in Maybe
    BY <1>0, <1>2 DEF TypeOK
  <2> QED BY <2>1 DEF Absent, Image
<1> HIDE DEF image
<1>4. staged' \in [Thread -> Nat] /\ made' \in 0..MaxSessions /\ found' \in [Thread -> Maybe]
  BY <1>0, <1>1, <1>2 DEF TypeOK, Maybe
<1>5. /\ revived' \subseteq Thread /\ revived \subseteq revived' \cup {c.thread}
      /\ staged'[c.thread] = 0 \/ c.thread \in revived'
  <2>1. staged[c.thread] \in Nat /\ revived \subseteq Thread
    BY <1>0, <1>2 DEF TypeOK
  <2> QED BY <1>1, <1>2, <2>1
<1> QED BY <1>1, <1>3, <1>4, <1>5, NewKeeps

(* A removal removes; through a map a prune has replaced it strays.        *)
LEMMA RemoveKeeps == ASSUME SessionsInv, Remove PROVE SessionsInv'
<1>0. TypeOK /\ Pointed /\ Unstaged /\ Leaves
  BY DEF SessionsInv
<1>1. Resumes("remove")
  BY DEF Remove
<1>2. /\ calls' = Tail(calls) /\ objects' = objects /\ staged' = staged /\ log' = log
      /\ worn' = worn /\ half' = half /\ found' = found /\ made' = made
      /\ troubles' = troubles /\ behind' = behind /\ revived' = revived
  BY DEF Remove, file, counts
<1>3. c.thread \in Thread /\ cache \in Nat /\ Loaded /\ calls # <<>> /\ cache \in 1..cache
  BY <1>0, <1>1, ServedTyped
<1>4. /\ heap' \in Seq(Map) /\ cache' = cache
      /\ \A m \in 1..cache, t \in Thread : t = c.thread \/ heap'[m][t] = heap[m][t]
      /\ strayed \subseteq strayed' /\ strayed' \subseteq Thread
      /\ writes' \in Seq(AppendTask \cup RewriteTask) /\ Len(writes') <= MaxWrites + 1
      /\ \/ writes' = writes
         \/ \E e \in AppendTask \cup RewriteTask :
              writes' = Append(writes, e) /\ (e.kind = "rewrite" => e.map \in 1..cache')
      /\ \/ mine = NoSession /\ heap' = heap
         \/ c.thread \in strayed'
         \/ heap'[cache][c.thread] = NoSession
  <2>1. CASE mine = NoSession
    BY <1>0, <2>1 DEF Remove, TypeOK, cache
  <2>2. CASE mine # NoSession
    <3>1. Point(NoSession) /\ AppendLine(NoSession) /\ NoSession \in Nat
      BY <2>2 DEF Remove, Point, NoSession
    <3>2. /\ heap' \in Seq(Map) /\ cache' = cache
          /\ heap'[c.map][c.thread] = NoSession
          /\ \A m \in 1..cache, t \in Thread : t = c.thread \/ heap'[m][t] = heap[m][t]
          /\ strayed \subseteq strayed' /\ strayed' \subseteq Thread
          /\ c.thread \notin strayed' => c.map = cache
      BY <1>0, <1>1, <3>1, PointEffect
    <3>3. /\ writes' \in Seq(AppendTask \cup RewriteTask) /\ Len(writes') <= MaxWrites + 1
          /\ \E e \in AppendTask \cup RewriteTask :
                writes' = Append(writes, e) /\ (e.kind = "rewrite" => e.map \in 1..cache')
      BY <1>0, <1>1, <3>1, LineTyped
    <3> QED BY <3>2, <3>3
  <2> QED BY <2>1, <2>2
<1>5. calls' \in Seq(Call) /\ Len(calls') <= MaxCalls + 1
  BY <1>0, <1>1, <1>2, ServedTyped, Ranges DEF TypeOK
<1>6. TypeOK'
  BY <1>0, <1>2, <1>4, <1>5 DEF TypeOK
<1>7. Pointed'
  BY <1>0, <1>2, <1>3, <1>4, ServedPoint
<1>8. Unstaged'
  BY <1>3, <1>4 DEF Unstaged, Loaded
<1>9. Leaves'
  <2> SUFFICES ASSUME NEW u \in Thread \ (strayed' \cup revived'), staged'[u] > 0
               PROVE  heap'[cache'][u] = NoSession \/ Pending(u)'
    BY DEF Leaves
  <2>1. heap[cache][u] = NoSession \/ Pending(u)
    BY <1>0, <1>2, <1>4 DEF Leaves
  <2>2. CASE u = c.thread /\ mine # NoSession
    BY <1>4, <2>2
  <2>3. CASE ~(u = c.thread /\ mine # NoSession)
    <3>1. \A m \in 1..cache : heap'[m][u] = heap[m][u]
      BY <1>4, <2>3 DEF Remove
    <3>2. ~(c.op = "remove" /\ c.thread = u /\ mine # NoSession)
      BY <2>3
    <3> QED BY <1>0, <1>2, <1>3, <1>4, <2>1, <3>1, <3>2, OthersServed
  <2> QED BY <2>2, <2>3
<1> QED BY <1>6, <1>7, <1>8, <1>9 DEF SessionsInv

(* A restart is staged, and the removal it calls is the last to wait.      *)
LEMMA RestartKeeps == ASSUME SessionsInv, Restart PROVE SessionsInv'
<1> DEFINE e == [op |-> "remove", thread |-> c.thread, map |-> cache]
           stages == ImageOf(c.thread, mine).full
<1>0. TypeOK /\ Pointed /\ Unstaged /\ Leaves
  BY DEF SessionsInv
<1>1. Resumes("restart")
  BY DEF Restart
<1>2. /\ heap' = heap /\ objects' = objects /\ writes' = writes /\ log' = log
      /\ worn' = worn /\ half' = half /\ found' = found /\ made' = made /\ troubles' = troubles
      /\ strayed' = strayed /\ behind' = behind /\ revived' = revived /\ cache' = cache
  BY DEF Restart, file, counts, history, cache
<1>3. /\ c.thread \in Thread /\ c.op = "restart" /\ cache \in Nat /\ Loaded /\ calls # <<>>
      /\ cache \in 1..cache
      /\ mine \in Nat
      /\ Tail(calls) \in Seq(Call) /\ Len(Tail(calls)) <= MaxCalls
  BY <1>0, <1>1, ServedTyped
<1>4. e \in Call /\ e.op = "remove" /\ e.thread = c.thread /\ e.map = cache
  BY <1>3 DEF Call, Op
<1>5. \/ ~stages /\ calls' = Tail(calls) /\ staged' = staged
      \/ /\ stages /\ calls' = Append(Tail(calls), e)
         /\ staged' = [staged EXCEPT ![c.thread] = ImageOf(c.thread, mine).generation + 1]
  BY DEF Restart, Await
<1> HIDE DEF e
<1>6. CASE ~stages
  <2>1. calls' = Tail(calls) /\ staged' = staged
    BY <1>5, <1>6
  <2>2. calls' \in Seq(Call) /\ Len(calls') <= MaxCalls + 1
    <3>1. Len(Tail(calls)) \in Nat
      BY <1>3
    <3> QED BY <1>3, <2>1, <3>1, Ranges
  <2>3. TypeOK'
    BY <1>0, <1>2, <2>1, <2>2 DEF TypeOK
  <2>4. Pointed'
    BY <1>0, <1>2, <1>3, <2>1, ServedPoint
  <2>5. Unstaged'
    BY <1>2, <1>3 DEF Unstaged, Loaded
  <2>6. Leaves'
    <3> SUFFICES ASSUME NEW u \in Thread \ (strayed' \cup revived'), staged'[u] > 0
                 PROVE  heap'[cache'][u] = NoSession \/ Pending(u)'
      BY DEF Leaves
    <3>1. heap[cache][u] = NoSession \/ Pending(u)
      BY <1>0, <1>2, <2>1 DEF Leaves
    <3> QED BY <1>0, <1>2, <1>3, <2>1, <3>1, OthersServed
  <2> QED BY <2>3, <2>4, <2>5, <2>6 DEF SessionsInv
<1>7. CASE stages
  <2>1. /\ calls' = Append(Tail(calls), e)
        /\ staged' = [staged EXCEPT ![c.thread] = ImageOf(c.thread, mine).generation + 1]
    BY <1>5, <1>7
  <2>2. /\ calls' \in Seq(Call) /\ Len(calls') = Len(Tail(calls)) + 1 /\ Len(Tail(calls)) \in Nat
        /\ \A i \in DOMAIN Tail(calls) : i \in DOMAIN calls' /\ calls'[i] = Tail(calls)[i]
        /\ \A i \in DOMAIN calls' :
             i \in DOMAIN Tail(calls) \/ (i = Len(Tail(calls)) + 1 /\ calls'[i] = e)
        /\ \E i \in DOMAIN calls' : calls'[i] = e
    <3>1. /\ Append(Tail(calls), e) \in Seq(Call) /\ Len(Tail(calls)) \in Nat
          /\ Len(Append(Tail(calls), e)) = Len(Tail(calls)) + 1
          /\ Append(Tail(calls), e)[Len(Tail(calls)) + 1] = e
          /\ \A i \in DOMAIN Tail(calls) :
               i \in DOMAIN Append(Tail(calls), e) /\ Append(Tail(calls), e)[i] = Tail(calls)[i]
          /\ \A i \in DOMAIN Append(Tail(calls), e) :
               i \in DOMAIN Tail(calls) \/ (i = Len(Tail(calls)) + 1 /\ Append(Tail(calls), e)[i] = e)
          /\ Len(Tail(calls)) + 1 \in DOMAIN Append(Tail(calls), e)
      BY <1>3, <1>4, AppendOf
    <3> QED BY <2>1, <3>1
  <2>3. \A i \in DOMAIN Tail(calls) : i + 1 \in DOMAIN calls /\ Tail(calls)[i] = calls[i + 1]
    BY <1>0, <1>3, TailOf DEF TypeOK
  <2>4. \A i \in DOMAIN calls : i # 1 => i - 1 \in DOMAIN Tail(calls) /\ Tail(calls)[i - 1] = calls[i]
    BY <1>0, <1>3, TailOf DEF TypeOK
  <2>5. staged' \in [Thread -> Nat] /\ \A t \in Thread : t = c.thread \/ staged'[t] = staged[t]
    <3>1. ImageOf(c.thread, mine).generation + 1 \in Nat
      BY <1>0, <1>3, ObjectImage DEF Image
    <3> QED BY <1>0, <1>3, <2>1, <3>1 DEF TypeOK
  <2>6. Len(calls') <= MaxCalls + 1
    BY <1>3, <2>2, Ranges
  <2>7. TypeOK'
    BY <1>0, <1>2, <2>2, <2>5, <2>6 DEF TypeOK
  <2>8. Pointed'
    <3>1. \A i \in DOMAIN calls' : calls'[i].map \in 1..cache'
      <4>1. ASSUME NEW i \in DOMAIN Tail(calls) PROVE Tail(calls)[i].map \in 1..cache
        BY <1>0, <1>3, <2>3 DEF Pointed
      <4> QED BY <1>2, <1>3, <1>4, <2>2, <4>1
    <3> QED BY <1>0, <1>2, <3>1 DEF Pointed
  <2>9. Unstaged'
    BY <1>2, <1>3 DEF Unstaged, Loaded
  <2>10. Leaves'
    <3> SUFFICES ASSUME NEW u \in Thread \ (strayed' \cup revived'), staged'[u] > 0
                 PROVE  heap'[cache'][u] = NoSession \/ Pending(u)'
      BY DEF Leaves
    <3>1. CASE u = c.thread
      BY <1>2, <1>4, <2>2, <3>1 DEF Pending
    <3>2. CASE u # c.thread
      <4>1. heap[cache][u] = NoSession \/ Pending(u)
        BY <1>0, <1>2, <2>5, <3>2 DEF Leaves
      <4>2. ASSUME Pending(u) PROVE Pending(u)'
        <5>1. PICK i \in DOMAIN calls :
                calls[i].op = "remove" /\ calls[i].thread = u /\ heap[calls[i].map][u] # NoSession
          BY <4>2 DEF Pending
        <5>2. i # 1
          <6>1. c = calls[1]
            BY <1>0, <1>3, TailOf DEF TypeOK, c
          <6> QED BY <1>3, <5>1, <6>1
        <5>3. i - 1 \in DOMAIN calls' /\ calls'[i - 1] = calls[i]
          BY <2>2, <2>4, <5>2
        <5> QED BY <1>2, <5>1, <5>3 DEF Pending
      <4> QED BY <1>2, <4>1, <4>2
    <3> QED BY <3>1, <3>2
  <2> QED BY <2>7, <2>8, <2>9, <2>10 DEF SessionsInv
<1> QED BY <1>6, <1>7

(* A prune makes a new map of what it keeps of the one it was given.       *)
LEMMA PruneKeeps == ASSUME SessionsInv, NEW dropped \in SUBSET Thread, Prune(dropped) PROVE SessionsInv'
<1> DEFINE map == heap[c.map]
           cleared == {t \in dropped : map[t] # NoSession}
           kept == [t \in Thread |-> IF t \in cleared THEN NoSession ELSE map[t]]
           e == [kind |-> "rewrite", map |-> Len(heap) + 1]
<1>0. TypeOK /\ Pointed /\ Unstaged /\ Leaves
  BY DEF SessionsInv
<1>1. Resumes("prune")
  BY DEF Prune
<1>2. /\ calls' = Tail(calls) /\ objects' = objects /\ staged' = staged /\ log' = log
      /\ worn' = worn /\ half' = half /\ found' = found /\ made' = made
      /\ troubles' = troubles /\ behind' = behind /\ revived' = revived
  BY DEF Prune, file, counts
<1>3. /\ c.op = "prune" /\ cache \in Nat /\ Loaded /\ calls # <<>> /\ cache \in 1..cache
      /\ heap[c.map] \in Map
  BY <1>0, <1>1, ServedTyped
<1>4. calls' \in Seq(Call) /\ Len(calls') <= MaxCalls + 1
  BY <1>0, <1>1, <1>2, ServedTyped, Ranges DEF TypeOK
<1>5. \/ cleared = {} /\ heap' = heap /\ writes' = writes /\ strayed' = strayed
      \/ /\ heap' = Append(heap, kept)
         /\ writes' = Append(writes, e)
         /\ strayed' = strayed \cup {t \in Thread \ cleared : kept[t] # heap[cache][t]}
  BY DEF Prune
<1>6. kept \in Map /\ \A t \in cleared : kept[t] = NoSession
  BY <1>3 DEF Map, NoSession
<1>7. e \in RewriteTask /\ e.map = cache + 1
  BY <1>3 DEF RewriteTask, cache
<1> HIDE DEF map, kept, cleared, e
<1>8. CASE heap' = heap /\ writes' = writes /\ strayed' = strayed
  <2>1. TypeOK'
    BY <1>0, <1>2, <1>4, <1>8 DEF TypeOK
  <2>2. cache' = cache
    BY <1>8 DEF cache
  <2>3. Pointed'
    BY <1>0, <1>2, <1>3, <1>8, <2>2, ServedPoint
  <2>4. Unstaged'
    BY <1>3, <2>2 DEF Unstaged, Loaded
  <2>5. Leaves'
    <3> SUFFICES ASSUME NEW u \in Thread \ (strayed' \cup revived'), staged'[u] > 0
                 PROVE  heap'[cache'][u] = NoSession \/ Pending(u)'
      BY DEF Leaves
    <3>1. heap[cache][u] = NoSession \/ Pending(u)
      BY <1>0, <1>2, <1>8 DEF Leaves
    <3> QED BY <1>0, <1>2, <1>3, <1>8, <2>2, <3>1, OthersServed
  <2> QED BY <2>1, <2>3, <2>4, <2>5 DEF SessionsInv
<1>9. CASE /\ heap' = Append(heap, kept)
           /\ writes' = Append(writes, e)
           /\ strayed' = strayed \cup {t \in Thread \ cleared : kept[t] # heap[cache][t]}
  <2>1. /\ heap' \in Seq(Map) /\ Len(heap') = Len(heap) + 1 /\ heap'[Len(heap) + 1] = kept
        /\ \A m \in 1..Len(heap) : heap'[m] = heap[m]
    <3>1. heap \in Seq(Map) /\ DOMAIN heap = 1..Len(heap)
      BY <1>0 DEF TypeOK
    <3> QED BY <1>6, <1>9, <3>1, AppendOf
  <2>2. /\ cache' = cache + 1 /\ heap'[cache'] = kept
        /\ \A m \in 1..cache : heap'[m] = heap[m]
    BY <2>1 DEF cache
  <2>3. /\ writes \in Seq(AppendTask \cup RewriteTask) /\ Len(writes) <= MaxWrites
    BY <1>0, <1>1 DEF TypeOK, Resumes
  <2>4. /\ writes' \in Seq(AppendTask \cup RewriteTask) /\ Len(writes') = Len(writes) + 1
        /\ Len(writes) \in Nat
    BY <1>7, <1>9, <2>3, AppendOf
  <2>5. Len(writes') <= MaxWrites + 1
    BY <2>3, <2>4, Ranges
  <2>7. strayed' \subseteq Thread /\ strayed \subseteq strayed'
    BY <1>0, <1>9 DEF TypeOK
  <2>8. TypeOK'
    BY <1>0, <1>2, <1>4, <2>1, <2>4, <2>5, <2>7 DEF TypeOK
  <2>9. Pointed'
    <3>1. e.map \in 1..cache' /\ cache' >= cache /\ cache' \in Nat
      BY <1>3, <1>7, <2>2
    <3> QED BY <1>0, <1>2, <1>3, <1>7, <1>9, <3>1, ServedPoint
  <2>10. Unstaged'
    BY <1>3, <2>2 DEF Unstaged, Loaded
  <2>11. Leaves'
    <3> SUFFICES ASSUME NEW u \in Thread \ (strayed' \cup revived'), staged'[u] > 0
                 PROVE  heap'[cache'][u] = NoSession \/ Pending(u)'
      BY DEF Leaves
    <3>1. heap[cache][u] = NoSession \/ Pending(u)
      BY <1>0, <1>2, <2>7 DEF Leaves
    <3>2. CASE u \in cleared
      BY <1>6, <2>2, <3>2
    <3>3. CASE u \notin cleared
      <4>1. heap'[cache'][u] = heap[cache][u]
        BY <1>9, <2>2, <3>3
      <4> QED BY <1>0, <1>2, <1>3, <2>2, <3>1, <4>1, OthersServed
    <3> QED BY <3>2, <3>3
  <2> QED BY <2>8, <2>9, <2>10, <2>11 DEF SessionsInv
<1> QED BY <1>5, <1>8, <1>9

(* A write leaves the chain, done or refused.                              *)
LEMMA WriteKeeps ==
  ASSUME SessionsInv, writes # <<>>, writes' = Tail(writes),
         UNCHANGED <<memory, calls, found, made, strayed, revived>>,
         log' \in [Thread -> Image], worn' \in [Thread -> Seq(Maybe)], half' \in BOOLEAN,
         troubles' \in 0..MaxTroubles, behind' \subseteq Thread
  PROVE  SessionsInv'
<1>0. TypeOK /\ Pointed /\ Unstaged /\ Leaves
  BY DEF SessionsInv
<1>1. /\ heap' = heap /\ objects' = objects /\ staged' = staged /\ cache' = cache
  BY DEF memory, cache
<1>2. /\ writes \in Seq(AppendTask \cup RewriteTask) /\ Len(writes) <= MaxWrites + 1
  BY <1>0 DEF TypeOK
<1>3. /\ Tail(writes) \in Seq(AppendTask \cup RewriteTask) /\ Len(Tail(writes)) = Len(writes) - 1
      /\ Len(writes) \in Nat
      /\ \A i \in DOMAIN Tail(writes) : i + 1 \in DOMAIN writes /\ Tail(writes)[i] = writes[i + 1]
  BY <1>2, TailOf
<1>4. Len(writes') <= MaxWrites + 1
  BY <1>2, <1>3, Ranges
<1>5. TypeOK'
  BY <1>0, <1>1, <1>3, <1>4 DEF TypeOK
<1>6. Pointed'
  <2>1. ASSUME NEW i \in DOMAIN writes', writes'[i].kind = "rewrite"
        PROVE  writes'[i].map \in 1..cache'
    <3>1. i + 1 \in DOMAIN writes /\ writes'[i] = writes[i + 1]
      BY <1>3
    <3> QED BY <1>0, <1>1, <2>1, <3>1 DEF Pointed
  <2> QED BY <1>0, <1>1, <2>1 DEF Pointed, Loaded
<1>7. Unstaged'
  BY <1>0, <1>1 DEF Unstaged, Loaded
<1>8. Leaves'
  BY <1>0, <1>1 DEF Leaves, Pending
<1> QED BY <1>5, <1>6, <1>7, <1>8 DEF SessionsInv

(* A step that is not one of the calls and leaves memory alone.            *)
LEMMA QuietKeeps ==
  ASSUME SessionsInv, UNCHANGED <<memory, calls, writes, file, history>>,
         found' \in [Thread -> Maybe], made' \in 0..MaxSessions, troubles' \in 0..MaxTroubles
  PROVE  SessionsInv'
<1>0. TypeOK /\ Pointed /\ Unstaged /\ Leaves
  BY DEF SessionsInv
<1>1. /\ heap' = heap /\ objects' = objects /\ calls' = calls /\ staged' = staged
      /\ writes' = writes /\ log' = log /\ worn' = worn /\ half' = half
      /\ strayed' = strayed /\ behind' = behind /\ revived' = revived /\ cache' = cache
  BY DEF memory, file, history, cache
<1>2. TypeOK'
  BY <1>0, <1>1 DEF TypeOK
<1>3. Pointed' /\ Unstaged' /\ Leaves'
  BY <1>0, <1>1 DEF Pointed, Unstaged, Leaves, Pending, Loaded
<1> QED BY <1>2, <1>3 DEF SessionsInv

-----------------------------------------------------------------------------
(* A nonempty set of numbers up to n has a greatest one.                   *)
LEMMA GreatestElement ==
  ASSUME NEW n \in Nat, NEW T \in SUBSET (1..n), T # {}
  PROVE  \E x \in T : \A y \in T : y <= x
<1> DEFINE Bound == {b \in Nat : \A y \in T : y <= b}
           Less == OpToRel(<, Nat)
<1>1. PICK b \in Bound : \A d \in Bound : ~(<<d, b>> \in Less)
  <2>1. n \in Bound /\ Bound \subseteq Nat
    OBVIOUS
  <2>2. IsWellFoundedOn(Less, Nat)
    BY NatLessThanWellFounded, Zenon
  <2> HIDE DEF Less, Bound
  <2> QED BY <2>1, <2>2, WFMin
<1>2. ASSUME NEW d \in Bound, d < b PROVE FALSE
  <2>1. <<d, b>> \in {ss \in Nat \X Nat : ss[1] < ss[2]}
    BY <1>2
  <2>2. Less = {ss \in Nat \X Nat : ss[1] < ss[2]}
    BY Zenon DEF OpToRel
  <2> HIDE DEF Less
  <2> QED BY <1>1, <2>1, <2>2
<1> HIDE DEF Less
<1>3. PICK z \in T : TRUE
  OBVIOUS
<1>4. b \in T
  <2> SUFFICES ASSUME b \notin T PROVE FALSE
    OBVIOUS
  <2>1. b \in Nat /\ b - 1 \in Nat
    BY <1>1, <1>3
  <2>2. b - 1 \in Bound
    BY <1>1, <2>1
  <2> QED BY <1>2, <2>1, <2>2
<1> QED BY <1>1, <1>4

(* What the cleanup may put back is a session of the file, or none.        *)
LEMMA SupersededTyped == ASSUME TypeOK, NEW t \in Thread PROVE Superseded(t) \in Maybe
<1> DEFINE older == {i \in DOMAIN worn[t] : worn[t][i] # log[t].sid}
           last == CHOOSE i \in older : \A j \in older : j <= i
<1>1. worn[t] \in Seq(Maybe) /\ Len(worn[t]) \in Nat /\ older \in SUBSET (1..Len(worn[t]))
  BY DEF TypeOK
<1>2. CASE older = {}
  BY <1>2 DEF Superseded, Maybe
<1>3. CASE older # {}
  <2> HIDE DEF older
  <2>1. last \in older
    BY <1>1, <1>3, GreatestElement
  <2> HIDE DEF last
  <2>2. worn[t][last] \in Maybe
    BY <1>1, <2>1
  <2>3. Superseded(t) = NoSession \/ Superseded(t) = worn[t][last]
    BY DEF Superseded, last, older
  <2> QED BY <2>2, <2>3 DEF Maybe
<1> QED BY <1>2, <1>3

-----------------------------------------------------------------------------
(* Every step preserves the inductive invariant. *)
LEMMA SessionsStep == SessionsInv /\ [Next]_vars => SessionsInv'
<1> SUFFICES ASSUME SessionsInv, [Next]_vars PROVE SessionsInv'
  OBVIOUS
<1>0. TypeOK /\ Pointed /\ Unstaged /\ Leaves
  BY DEF SessionsInv
<1>t. Trouble => troubles' \in 0..MaxTroubles
  <2>1. troubles \in 0..MaxTroubles
    BY <1>0 DEF TypeOK
  <2> QED BY <2>1, Ranges DEF Trouble
<1>w. ASSUME writes # <<>> PROVE w \in AppendTask \cup RewriteTask
  BY <1>0, <1>w, TailOf DEF TypeOK, w
<1>1. ASSUME NEW op \in Op, NEW t \in Thread, Invoke(op, t) PROVE SessionsInv'
  BY <1>1, InvokeKeeps
<1>2. CASE Load
  BY <1>2, LoadKeeps
<1>3. ASSUME NEW full \in BOOLEAN, NEW turn \in BOOLEAN, Update(full, turn) PROVE SessionsInv'
  BY <1>3, UpdateKeeps
<1>4. CASE Create
  BY <1>4, CreateKeeps
<1>5. CASE Remove
  BY <1>5, RemoveKeeps
<1>6. CASE Restart
  BY <1>6, RestartKeeps
<1>7. ASSUME NEW full \in BOOLEAN, Remap(full) PROVE SessionsInv'
  BY <1>7, RemapKeeps
<1>8. ASSUME NEW dropped \in SUBSET Thread, Prune(dropped) PROVE SessionsInv'
  BY <1>8, PruneKeeps
<1>9. CASE PerformAppend
  <2>1. /\ writes # <<>> /\ writes' = Tail(writes) /\ half' = FALSE /\ w.kind = "append"
        /\ UNCHANGED <<memory, calls, counts, found, strayed, revived>>
        /\ \/ log' = log /\ worn' = worn /\ behind' = behind \cup {w.thread}
           \/ /\ log' = [log EXCEPT ![w.thread] = Shows(w, w.thread)]
              /\ worn' = [worn EXCEPT ![w.thread] = Wears(worn[w.thread], Shows(w, w.thread))]
              /\ behind' = behind \ {w.thread}
    BY <1>9 DEF PerformAppend
  <2>2. w.thread \in Thread
    BY <1>w, <2>1 DEF AppendTask, RewriteTask
  <2>3. Shows(w, w.thread) \in Image
    BY <1>0, <2>2, ShowsImage
  <2>4. Wears(worn[w.thread], Shows(w, w.thread)) \in Seq(Maybe)
    <3>1. worn[w.thread] \in Seq(Maybe)
      BY <1>0, <2>2 DEF TypeOK
    <3> QED BY <2>3, <3>1, WearsTyped
  <2>5. log' \in [Thread -> Image] /\ worn' \in [Thread -> Seq(Maybe)] /\ behind' \subseteq Thread
    <3>1. /\ log \in [Thread -> Image] /\ worn \in [Thread -> Seq(Maybe)]
          /\ behind \subseteq Thread
      BY <1>0 DEF TypeOK
    <3> DEFINE shown == Shows(w, w.thread)
               after == Wears(worn[w.thread], shown)
    <3> HIDE DEF shown, after
    <3> QED BY <2>1, <2>2, <2>3, <2>4, <3>1 DEF shown, after
  <2>6. troubles' \in 0..MaxTroubles
    BY <1>0, <2>1 DEF TypeOK, counts
  <2> QED BY <2>1, <2>5, <2>6, WriteKeeps DEF counts
<1>10. CASE PerformRewrite
  <2>1. /\ writes # <<>> /\ writes' = Tail(writes) /\ half' = FALSE
        /\ UNCHANGED <<memory, calls, counts, found, strayed, revived>>
        /\ log' = [t \in Thread |-> Shows(w, t)] /\ behind' = {}
        /\ worn' = [t \in Thread |-> Wears(<<>>, Shows(w, t))]
    BY <1>10 DEF PerformRewrite
  <2>2. \A t \in Thread : Shows(w, t) \in Image
    BY <1>0, ShowsImage
  <2>3. \A t \in Thread : Wears(<<>>, Shows(w, t)) \in Seq(Maybe)
    <3>1. <<>> \in Seq(Maybe)
      OBVIOUS
    <3> QED BY <2>2, <3>1, WearsTyped
  <2>4. log' \in [Thread -> Image] /\ worn' \in [Thread -> Seq(Maybe)] /\ behind' \subseteq Thread
    BY <2>1, <2>2, <2>3
  <2>5. troubles' \in 0..MaxTroubles
    BY <1>0, <2>1 DEF TypeOK, counts
  <2> QED BY <2>1, <2>4, <2>5, WriteKeeps DEF counts
<1>11. CASE WriteFails
  <2>1. /\ writes # <<>> /\ writes' = Tail(writes) /\ Trouble
        /\ log' = log /\ worn' = worn /\ half' = half
        /\ UNCHANGED <<memory, calls, found, made, strayed, revived>>
        /\ behind' \subseteq behind \cup Thread
    BY <1>11 DEF WriteFails, file
  <2>2. /\ log' \in [Thread -> Image] /\ worn' \in [Thread -> Seq(Maybe)] /\ half' \in BOOLEAN
        /\ behind' \subseteq Thread
    BY <1>0, <2>1 DEF TypeOK
  <2> QED BY <1>t, <2>1, <2>2, WriteKeeps
<1>12. ASSUME NEW confirmed \in SUBSET Thread, ReadLog(confirmed) PROVE SessionsInv'
  <2>1. /\ UNCHANGED <<memory, calls, writes, file, history>> /\ made' = made /\ Trouble
        /\ found' = [t \in Thread |-> IF t \in confirmed THEN Superseded(t) ELSE NoSession]
    BY <1>12 DEF ReadLog
  <2>2. found' \in [Thread -> Maybe]
    BY <1>0, <2>1, SupersededTyped DEF Maybe
  <2>3. made' \in 0..MaxSessions
    BY <1>0, <2>1 DEF TypeOK
  <2> QED BY <1>t, <2>1, <2>2, <2>3, QuietKeeps
<1>13. CASE Crash
  <2>1. /\ heap' = <<>> /\ calls' = <<>> /\ writes' = <<>>
        /\ objects' = [t \in Thread |-> <<>>] /\ staged' = [t \in Thread |-> 0]
        /\ found' = [t \in Thread |-> NoSession]
        /\ strayed' = {} /\ behind' = {} /\ revived' = {}
        /\ log' = log /\ worn' = worn /\ made' = made /\ Trouble
    BY <1>13 DEF Crash
  <2>2. half' \in BOOLEAN
    BY <1>0, <1>13 DEF Crash, TypeOK
  <2>3. /\ heap' \in Seq(Map) /\ calls' \in Seq(Call) /\ writes' \in Seq(AppendTask \cup RewriteTask)
        /\ Len(calls') <= MaxCalls + 1 /\ Len(writes') <= MaxWrites + 1
    BY <2>1, Ranges
  <2>4. objects' \in [Thread -> Seq(Image)] /\ staged' \in [Thread -> Nat] /\ found' \in [Thread -> Maybe]
    BY <2>1 DEF Maybe
  <2>5. TypeOK'
    BY <1>0, <1>t, <2>1, <2>2, <2>3, <2>4 DEF TypeOK
  <2>6. Pointed' /\ Unstaged' /\ Leaves'
    BY <2>1 DEF Pointed, Unstaged, Leaves
  <2> QED BY <2>5, <2>6 DEF SessionsInv
<1>14. CASE UNCHANGED vars
  <2>1. UNCHANGED <<memory, calls, writes, file, history, found, counts>>
    BY <1>14 DEF vars, memory
  <2>2. found' \in [Thread -> Maybe] /\ made' \in 0..MaxSessions /\ troubles' \in 0..MaxTroubles
    BY <1>0, <2>1 DEF TypeOK, counts
  <2> QED BY <2>1, <2>2, QuietKeeps
<1> QED
  BY <1>1, <1>2, <1>3, <1>4, <1>5, <1>6, <1>7, <1>8, <1>9, <1>10, <1>11, <1>12, <1>13, <1>14 DEF Next

(* The inductive invariant is an invariant. *)
LEMMA SessionsAlways == Spec => []SessionsInv
  BY SessionsInit, SessionsStep, PTL DEF Spec

-----------------------------------------------------------------------------
(* All variables keep their types. *)
THEOREM SessionsTypeCorrect == Spec => []TypeOK
<1>1. SessionsInv => TypeOK
  BY DEF SessionsInv
<1> QED BY <1>1, SessionsAlways, PTL

(* Once the removal it calls has run, a staged restart finds no session to *)
(* resume, however creations, removals, prunes, recoveries and other       *)
(* restarts overlap with it (maybeRestartThreadSession,                    *)
(* removeThreadSession, remapThreadSession).  The exceptions are threads   *)
(* written to through a map a prune replaced, and ones the cleanup gave a  *)
(* session back while their restart was staged.                            *)
THEOREM StagedStartsFresh == Spec => []StagedRestartStartsFresh
<1>1. SessionsInv => StagedRestartStartsFresh
  BY DEF SessionsInv, Leaves, Pending, StagedRestartStartsFresh
<1> QED BY <1>1, SessionsAlways, PTL
-----------------------------------------------------------------------------
(* The object a write gives thread t, and the last queued write of t.      *)
Named(write, t) == IF write.kind = "append" THEN write.object ELSE heap[write.map][t]
IsLast(i, t) == i \in Queued(t) /\ \A j \in Queued(t) : j <= i

(* Without a map nothing waits to be written.                              *)
Quiet == ~Loaded => writes = <<>>

(* The last queued write of a thread names its object in memory, whatever  *)
(* became of the writes before it; with none queued, the log shows it.     *)
Agrees ==
  Loaded => \A t \in Thread \ strayed :
    /\ \A i \in DOMAIN writes : IsLast(i, t) => Named(writes[i], t) = heap[cache][t]
    /\ Queued(t) = {} /\ t \notin behind => log[t] = ImageOf(t, heap[cache][t])

(* The inductive invariant of the log, on top of the one of the sessions.  *)
LogInv == Quiet /\ Agrees

LEMMA LogInit == Init => LogInv
  BY DEF Init, LogInv, Quiet, Agrees, Loaded, cache

-----------------------------------------------------------------------------
(* A thread with a queued write has a last one.                            *)
LEMMA LastWrite ==
  ASSUME TypeOK, NEW t, Queued(t) # {}
  PROVE  \E i \in Queued(t) : IsLast(i, t)
<1>1. Len(writes) \in Nat /\ DOMAIN writes = 1..Len(writes)
  BY DEF TypeOK
<1>2. Queued(t) \in SUBSET (1..Len(writes))
  BY <1>1 DEF Queued
<1> QED BY <1>1, <1>2, GreatestElement DEF IsLast

(* A write that joins the queue is the last one of the threads it          *)
(* concerns, and changes nothing for the others.                           *)
LEMMA QueueGrows ==
  ASSUME TypeOK, NEW e \in AppendTask \cup RewriteTask, writes' = Append(writes, e), NEW t
  PROVE  /\ Concerns(e, t) =>
              /\ Queued(t)' # {}
              /\ \A i \in DOMAIN writes' : IsLast(i, t)' => writes'[i] = e
         /\ ~Concerns(e, t) =>
              /\ Queued(t)' = Queued(t)
              /\ \A i \in DOMAIN writes' : IsLast(i, t)' =>
                   i \in DOMAIN writes /\ writes'[i] = writes[i] /\ IsLast(i, t)
<1> DEFINE n == Len(writes) + 1
<1>1. /\ Len(writes) \in Nat /\ DOMAIN writes = 1..Len(writes) /\ DOMAIN writes' = 1..n
      /\ writes'[n] = e
      /\ \A i \in DOMAIN writes : writes'[i] = writes[i]
  BY DEF TypeOK
<1>2. \A i \in DOMAIN writes' : i \in Queued(t)' <=> Concerns(writes'[i], t)
  BY DEF Queued, Concerns
<1>3. \A i : i \in Queued(t)' => i \in DOMAIN writes'
  BY DEF Queued
<1>4. \A i \in DOMAIN writes : i \in Queued(t)' <=> i \in Queued(t)
  BY <1>1, <1>2 DEF Queued
<1>5. \A i : i \in Queued(t) => i \in DOMAIN writes
  BY DEF Queued
<1>6. \A i : IsLast(i, t)' <=> i \in Queued(t)' /\ \A j \in Queued(t)' : j <= i
  BY DEF IsLast
<1>7. ASSUME Concerns(e, t)
      PROVE  /\ Queued(t)' # {}
             /\ \A i \in DOMAIN writes' : IsLast(i, t)' => writes'[i] = e
  <2>1. n \in Queued(t)'
    BY <1>1, <1>2, <1>7
  <2> QED BY <1>1, <1>6, <2>1
<1>8. ASSUME ~Concerns(e, t)
      PROVE  /\ Queued(t)' = Queued(t)
             /\ \A i \in DOMAIN writes' : IsLast(i, t)' =>
                  i \in DOMAIN writes /\ writes'[i] = writes[i] /\ IsLast(i, t)
  <2>1. n \notin Queued(t)'
    BY <1>1, <1>2, <1>8
  <2>2. Queued(t)' = Queued(t)
    BY <1>1, <1>3, <1>4, <1>5, <2>1
  <2> QED BY <1>1, <1>5, <1>6, <2>2 DEF IsLast
<1> QED BY <1>7, <1>8

(* A write that leaves the queue was the last one of the threads it        *)
(* concerns that have none left, and the last ones stay the last.          *)
LEMMA QueueShrinks ==
  ASSUME TypeOK, writes # <<>>, writes' = Tail(writes), NEW t
  PROVE  /\ \A i \in DOMAIN writes' : IsLast(i, t)' =>
              i + 1 \in DOMAIN writes /\ writes'[i] = writes[i + 1] /\ IsLast(i + 1, t)
         /\ Queued(t)' = {} => IF Concerns(w, t) THEN IsLast(1, t) ELSE Queued(t) = {}
<1>1. /\ Len(writes) \in Nat /\ Len(writes) >= 1 /\ DOMAIN writes = 1..Len(writes)
      /\ DOMAIN writes' = 1..(Len(writes) - 1) /\ w = writes[1]
      /\ \A i \in DOMAIN writes' : i + 1 \in DOMAIN writes /\ writes'[i] = writes[i + 1]
  BY DEF TypeOK, w
<1>2. \A i \in DOMAIN writes' : i \in Queued(t)' <=> i + 1 \in Queued(t)
  BY <1>1 DEF Queued, Concerns
<1>3. \A i : i \in Queued(t)' => i \in DOMAIN writes'
  BY DEF Queued
<1>4. \A i : i \in Queued(t) => i \in 1..Len(writes) /\ (i = 1 \/ i - 1 \in DOMAIN writes')
  BY <1>1 DEF Queued
<1>5. ASSUME NEW i \in DOMAIN writes', IsLast(i, t)' PROVE IsLast(i + 1, t)
  <2>1. i \in Queued(t)' /\ \A j \in Queued(t)' : j <= i
    BY <1>5 DEF IsLast
  <2>2. i + 1 \in Queued(t) /\ i \in Nat /\ i >= 1
    BY <1>1, <1>2, <2>1
  <2>3. ASSUME NEW j \in Queued(t) PROVE j <= i + 1
    <3>1. CASE j = 1
      BY <2>2, <3>1
    <3>2. CASE j # 1
      <4>1. j \in Nat /\ j - 1 \in DOMAIN writes' /\ (j - 1) + 1 = j
        BY <1>4, <3>2
      <4>2. j - 1 \in Queued(t)'
        BY <1>2, <4>1
      <4>3. j - 1 <= i
        BY <2>1, <4>2
      <4> QED BY <2>2, <4>1, <4>3
    <3> QED BY <3>1, <3>2
  <2> QED BY <2>2, <2>3 DEF IsLast
<1>6. ASSUME Queued(t)' = {} PROVE IF Concerns(w, t) THEN IsLast(1, t) ELSE Queued(t) = {}
  <2>1. ASSUME NEW j \in Queued(t) PROVE j = 1
    <3> SUFFICES ASSUME j # 1 PROVE FALSE
      OBVIOUS
    <3>1. j \in Nat /\ j - 1 \in DOMAIN writes' /\ (j - 1) + 1 = j
      BY <1>4
    <3> QED BY <1>2, <1>6, <3>1
  <2>2. 1 \in Queued(t) <=> Concerns(w, t)
    BY <1>1 DEF Queued
  <2> QED BY <2>1, <2>2 DEF IsLast
<1> QED BY <1>1, <1>5, <1>6
-----------------------------------------------------------------------------
(* A write shows the image of the object it names. *)
LEMMA ShowsNamed == ASSUME NEW write, NEW t PROVE Shows(write, t) = ImageOf(t, Named(write, t))
  BY DEF Shows, Named

(* A step that touches neither maps, objects, writes nor the log.          *)
LEMMA LogUntouched ==
  ASSUME LogInv, heap' = heap, objects' = objects, writes' = writes, log' = log,
         strayed' = strayed, behind' = behind
  PROVE  LogInv'
<1>1. cache' = cache
  BY DEF cache
<1>2. Quiet'
  BY <1>1 DEF LogInv, Quiet, Loaded
<1>3. Agrees'
  BY <1>1 DEF LogInv, Agrees, Loaded, IsLast, Queued, Named, ImageOf
<1> QED BY <1>2, <1>3 DEF LogInv

(* A line about the thread being served is queued.  It names the object o  *)
(* that the step leaves that thread with.                                  *)
LEMMA LineLogged ==
  ASSUME SessionsInv, LogInv, NEW op, Resumes(op), NEW o \in Nat,
         AppendLine(o), log' = log, behind' = behind, cache' = cache,
         \A m \in 1..cache, t \in Thread : t = c.thread \/ heap'[m][t] = heap[m][t],
         strayed \subseteq strayed',
         c.thread \notin strayed' => heap'[cache][c.thread] = o,
         \A t \in Thread : t = c.thread \/ objects'[t] = objects[t]
  PROVE  LogInv'
<1> DEFINE e == [kind |-> "append", thread |-> c.thread, object |-> o]
<1>0. TypeOK /\ Pointed /\ Agrees
  BY DEF SessionsInv, LogInv
<1>1. c.thread \in Thread /\ cache \in Nat /\ cache \in 1..cache /\ Loaded
  BY <1>0, ServedTyped
<1>2. e \in AppendTask
  BY <1>1 DEF AppendTask
<1>3. /\ writes' = Append(writes, e)
      /\ e.kind = "append" /\ e.thread = c.thread /\ e.object = o
      /\ \A t : Concerns(e, t) <=> t = c.thread
  BY DEF AppendLine, Concerns
<1> HIDE DEF e
<1>4. Quiet'
  BY <1>1 DEF Quiet, Loaded
<1>5. Agrees'
  <2> SUFFICES ASSUME NEW t \in Thread \ strayed'
               PROVE  /\ \A i \in DOMAIN writes' :
                           IsLast(i, t)' => Named(writes[i], t)' = heap'[cache][t]
                      /\ Queued(t)' = {} /\ t \notin behind' => log'[t] = ImageOf(t, heap[cache][t])'
    BY DEF Agrees
  <2>1. CASE t = c.thread
    <3>1. Queued(t)' # {} /\ \A i \in DOMAIN writes' : IsLast(i, t)' => writes'[i] = e
      BY <1>0, <1>2, <1>3, <2>1, QueueGrows
    <3>2. \A i \in DOMAIN writes' : writes'[i] = e => Named(writes[i], t)' = o
      BY <1>3 DEF Named
    <3> QED BY <2>1, <3>1, <3>2
  <2>2. CASE t # c.thread
    <3>1. /\ Queued(t)' = Queued(t)
          /\ \A i \in DOMAIN writes' : IsLast(i, t)' =>
               i \in DOMAIN writes /\ writes'[i] = writes[i] /\ IsLast(i, t)
      BY <1>0, <1>2, <1>3, <2>2, QueueGrows
    <3>2. /\ \A i \in DOMAIN writes : IsLast(i, t) => Named(writes[i], t) = heap[cache][t]
          /\ Queued(t) = {} /\ t \notin behind => log[t] = ImageOf(t, heap[cache][t])
      BY <1>0, <1>1 DEF Agrees
    <3>3. \A m \in 1..cache : heap'[m][t] = heap[m][t]
      BY <2>2
    <3>4. ASSUME NEW i \in DOMAIN writes', IsLast(i, t)' PROVE Named(writes[i], t)' = heap'[cache][t]
      <4>1. i \in DOMAIN writes /\ writes'[i] = writes[i] /\ IsLast(i, t)
        BY <3>1, <3>4
      <4>2. writes[i] \in AppendTask \cup RewriteTask
        BY <1>0, <4>1 DEF TypeOK
      <4>3. writes[i].kind = "append" \/ writes[i].map \in 1..cache
        BY <1>0, <4>1, <4>2 DEF Pointed, AppendTask, RewriteTask
      <4>4. Named(writes[i], t)' = Named(writes[i], t)
        BY <3>3, <4>1, <4>3 DEF Named
      <4> QED BY <1>1, <3>2, <3>3, <4>1, <4>4
    <3>5. ImageOf(t, heap[cache][t])' = ImageOf(t, heap[cache][t])
      <4>1. heap'[cache'][t] = heap[cache][t] /\ objects'[t] = objects[t]
        BY <1>1, <2>2, <3>3
      <4> QED BY <4>1 DEF ImageOf
    <3> QED BY <3>1, <3>2, <3>4, <3>5
  <2> QED BY <2>1, <2>2
<1> QED BY <1>4, <1>5 DEF LogInv

(* A write leaves the queue: it is what the log shows from then on of the  *)
(* threads it concerns, unless they count as behind.                       *)
LEMMA WriteLogged ==
  ASSUME SessionsInv, LogInv, writes # <<>>, writes' = Tail(writes),
         UNCHANGED <<memory, strayed>>,
         \A t \in Thread : t \notin behind' =>
           IF Concerns(w, t) THEN log'[t] = ImageOf(t, Named(w, t))
           ELSE log'[t] = log[t] /\ t \notin behind
  PROVE  LogInv'
<1>0. TypeOK /\ Quiet /\ Agrees
  BY DEF SessionsInv, LogInv
<1>1. heap' = heap /\ objects' = objects /\ cache' = cache /\ strayed' = strayed
  BY DEF memory, cache
<1>2. w = writes[1] /\ 1 \in DOMAIN writes
  <2>1. writes \in Seq(AppendTask \cup RewriteTask)
    BY <1>0 DEF TypeOK
  <2> QED BY <2>1, TailOf DEF w
<1>3. Quiet'
  <2>1. Loaded
    BY <1>0 DEF Quiet
  <2> QED BY <1>1, <2>1 DEF Quiet, Loaded
<1>4. Agrees'
  <2> SUFFICES ASSUME NEW t \in Thread \ strayed, Loaded
               PROVE  /\ \A i \in DOMAIN writes' :
                           IsLast(i, t)' => Named(writes[i], t)' = heap[cache][t]
                      /\ Queued(t)' = {} /\ t \notin behind' => log'[t] = ImageOf(t, heap[cache][t])
    BY <1>1 DEF Agrees, Loaded, ImageOf
  <2>1. /\ \A i \in DOMAIN writes : IsLast(i, t) => Named(writes[i], t) = heap[cache][t]
        /\ Queued(t) = {} /\ t \notin behind => log[t] = ImageOf(t, heap[cache][t])
    BY <1>0 DEF Agrees
  <2>2. /\ \A i \in DOMAIN writes' : IsLast(i, t)' =>
             i + 1 \in DOMAIN writes /\ writes'[i] = writes[i + 1] /\ IsLast(i + 1, t)
        /\ Queued(t)' = {} => IF Concerns(w, t) THEN IsLast(1, t) ELSE Queued(t) = {}
    BY <1>0, QueueShrinks
  <2>3. ASSUME NEW i \in DOMAIN writes', IsLast(i, t)' PROVE Named(writes[i], t)' = heap[cache][t]
    <3>1. i + 1 \in DOMAIN writes /\ writes'[i] = writes[i + 1] /\ IsLast(i + 1, t)
      BY <2>2, <2>3
    <3>2. Named(writes[i], t)' = Named(writes[i + 1], t)
      BY <1>1, <3>1 DEF Named
    <3> QED BY <2>1, <3>1, <3>2
  <2>4. ASSUME Queued(t)' = {}, t \notin behind' PROVE log'[t] = ImageOf(t, heap[cache][t])
    <3>1. CASE Concerns(w, t)
      <4>1. Named(w, t) = heap[cache][t]
        BY <1>2, <2>1, <2>2, <2>4, <3>1
      <4> QED BY <2>4, <3>1, <4>1
    <3>2. CASE ~Concerns(w, t)
      BY <2>1, <2>2, <2>4, <3>2
    <3> QED BY <3>1, <3>2
  <2> QED BY <2>3, <2>4
<1> QED BY <1>3, <1>4 DEF LogInv
-----------------------------------------------------------------------------
(* The loaded map shows what the log holds, thread by thread.              *)
LEMMA LoadLogged == ASSUME SessionsInv, LogInv, Load PROVE LogInv'
<1>0. TypeOK /\ Quiet
  BY DEF SessionsInv, LogInv
<1>1. /\ heap' = <<[t \in Thread |-> Len(objects'[t])]>> /\ writes' = <<>> /\ log' = log
      /\ objects' = [t \in Thread |-> IF log[t] = Absent THEN <<>> ELSE <<log[t]>>]
  BY <1>0 DEF Load, file, Quiet
<1>2. cache' = 1 /\ \A t \in Thread : heap'[1][t] = Len(objects'[t])
  BY <1>1 DEF cache
<1>3. Quiet'
  BY <1>1 DEF Quiet
<1>4. ASSUME NEW t \in Thread PROVE log'[t] = ImageOf(t, heap[cache][t])'
  <2>1. CASE log[t] = Absent
    <3>1. objects'[t] = <<>> /\ heap'[cache'][t] = 0
      BY <1>1, <1>2, <2>1
    <3> QED BY <1>1, <2>1, <3>1 DEF ImageOf
  <2>2. CASE log[t] # Absent
    <3>1. objects'[t] = <<log[t]>> /\ heap'[cache'][t] = 1
      BY <1>1, <1>2, <2>2
    <3> QED BY <1>1, <3>1 DEF ImageOf
  <2> QED BY <2>1, <2>2
<1>5. Agrees'
  <2>1. DOMAIN writes' = {}
    BY <1>1
  <2> QED BY <1>4, <2>1 DEF Agrees
<1> QED BY <1>3, <1>5 DEF LogInv

(* An object that changes is the one its thread has, and is appended.      *)
LEMMA UpdateLogged ==
  ASSUME SessionsInv, LogInv, NEW full \in BOOLEAN, NEW turn \in BOOLEAN, Update(full, turn)
  PROVE  LogInv'
<1>0. TypeOK /\ Pointed
  BY DEF SessionsInv
<1>1. Resumes("update") /\ heap' = heap /\ log' = log /\ behind' = behind /\ cache' = cache
  BY DEF Update, file, cache
<1>2. CASE mine = NoSession
  BY <1>1, <1>2, LogUntouched DEF Update
<1>3. CASE mine # NoSession
  <2>1. /\ AppendLine(mine) /\ NotesStray
        /\ \A t \in Thread : t = c.thread \/ objects'[t] = objects[t]
    BY <1>0, <1>3 DEF Update, TypeOK
  <2>2. mine \in Nat /\ c.thread \in Thread /\ cache \in Nat
    BY <1>0, <1>1, ServedTyped
  <2>3. strayed \subseteq strayed' /\ (c.thread \notin strayed' => heap'[cache][c.thread] = mine)
    BY <1>1, <2>1 DEF NotesStray, mine
  <2> HIDE DEF mine
  <2> QED BY <1>1, <2>1, <2>2, <2>3, LineLogged
<1> QED BY <1>2, <1>3

(* A new object is appended by the step that gives it to its thread.       *)
LEMMA NewLogged ==
  ASSUME SessionsInv, LogInv, NEW op, Resumes(op), NEW image \in Image, PointAtNew(image),
         log' = log, behind' = behind
  PROVE  LogInv'
<1>0. TypeOK /\ Pointed
  BY DEF SessionsInv
<1>1. PICK o \in Nat : Point(o) /\ AppendLine(o)
  BY <1>0, NewObject
<1>2. \A t \in Thread : t = c.thread \/ objects'[t] = objects[t]
  BY <1>0, NewObject
<1>3. /\ cache' = cache /\ heap'[c.map][c.thread] = o
      /\ \A m \in 1..cache, t \in Thread :
           (m = c.map /\ t = c.thread) \/ heap'[m][t] = heap[m][t]
      /\ strayed \subseteq strayed' /\ (c.thread \notin strayed' => c.map = cache)
  BY <1>0, <1>1, PointEffect
<1>4. c.thread \notin strayed' => heap'[cache][c.thread] = o
  BY <1>3
<1>5. \A m \in 1..cache, t \in Thread : t = c.thread \/ heap'[m][t] = heap[m][t]
  BY <1>3
<1> QED BY <1>1, <1>2, <1>3, <1>4, <1>5, LineLogged

(* createThreadSession and remapThreadSession both do that.                *)
LEMMA CreateLogged == ASSUME SessionsInv, LogInv, Create PROVE LogInv'
<1> DEFINE image == [Absent EXCEPT !.sid = made + 1, !.generation = staged[c.thread]]
<1>0. TypeOK /\ Pointed
  BY DEF SessionsInv
<1>1. /\ Resumes("create") /\ PointAtNew(image) /\ made < MaxSessions
      /\ log' = log /\ behind' = behind
  BY DEF Create, NewSession, file
<1>2. image \in Image
  <2>1. made + 1 \in Session
    <3>1. made \in 0..MaxSessions /\ MaxSessions \in Nat
      BY <1>0, Ranges DEF TypeOK
    <3> QED BY <1>1, <3>1 DEF Session
  <2>2. staged[c.thread] \in Nat
    BY <1>0, <1>1, ServedTyped DEF TypeOK
  <2> QED BY <2>1, <2>2 DEF Absent, Image, Maybe
<1> HIDE DEF image
<1> QED BY <1>1, <1>2, NewLogged

LEMMA RemapLogged == ASSUME SessionsInv, LogInv, NEW full \in BOOLEAN, Remap(full) PROVE LogInv'
<1> DEFINE image == [Absent EXCEPT !.sid = found[c.thread], !.full = full, !.used = TRUE]
<1>0. TypeOK /\ Pointed
  BY DEF SessionsInv
<1>1. Resumes("remap") /\ PointAtNew(image) /\ log' = log /\ behind' = behind
  BY DEF Remap, file
<1>2. image \in Image
  <2>1. found[c.thread] \in Maybe
    BY <1>0, <1>1, ServedTyped DEF TypeOK
  <2> QED BY <2>1 DEF Absent, Image
<1> HIDE DEF image
<1> QED BY <1>1, <1>2, NewLogged

(* A removal is a line that names no object. *)
LEMMA RemoveLogged == ASSUME SessionsInv, LogInv, Remove PROVE LogInv'
<1>0. TypeOK /\ Pointed
  BY DEF SessionsInv
<1>1. Resumes("remove") /\ objects' = objects /\ log' = log /\ behind' = behind
  BY DEF Remove, file
<1>2. CASE mine = NoSession
  BY <1>1, <1>2, LogUntouched DEF Remove
<1>3. CASE mine # NoSession
  <2>1. Point(NoSession) /\ AppendLine(NoSession) /\ NoSession \in Nat
    BY <1>3 DEF Remove, Point, NoSession
  <2>2. /\ cache' = cache /\ heap'[c.map][c.thread] = NoSession
        /\ \A m \in 1..cache, t \in Thread :
             (m = c.map /\ t = c.thread) \/ heap'[m][t] = heap[m][t]
        /\ strayed \subseteq strayed' /\ (c.thread \notin strayed' => c.map = cache)
    BY <1>0, <1>1, <2>1, PointEffect
  <2>3. \A m \in 1..cache, t \in Thread : t = c.thread \/ heap'[m][t] = heap[m][t]
    BY <2>2
  <2>4. c.thread \notin strayed' => heap'[cache][c.thread] = NoSession
    BY <2>2
  <2> QED BY <1>1, <2>1, <2>2, <2>3, <2>4, LineLogged
<1> QED BY <1>2, <1>3

(* The rewrite of a prune is of the map that becomes the cache.            *)
LEMMA PruneLogged ==
  ASSUME SessionsInv, LogInv, NEW dropped \in SUBSET Thread, Prune(dropped) PROVE LogInv'
<1> DEFINE map == heap[c.map]
           cleared == {t \in dropped : map[t] # NoSession}
           kept == [t \in Thread |-> IF t \in cleared THEN NoSession ELSE map[t]]
           e == [kind |-> "rewrite", map |-> Len(heap) + 1]
<1>0. TypeOK /\ Pointed
  BY DEF SessionsInv
<1>1. Resumes("prune") /\ objects' = objects /\ log' = log /\ behind' = behind
  BY DEF Prune, file
<1>2. cache \in Nat /\ heap[c.map] \in Map
  BY <1>0, <1>1, ServedTyped
<1>3. CASE cleared = {}
  BY <1>1, <1>3, LogUntouched DEF Prune
<1>4. CASE cleared # {}
  <2>1. heap' = Append(heap, kept) /\ writes' = Append(writes, e)
    BY <1>4 DEF Prune
  <2>2. kept \in Map
    BY <1>2 DEF Map, NoSession
  <2>3. e \in RewriteTask /\ e.kind = "rewrite" /\ e.map = cache + 1 /\ \A t : Concerns(e, t)
    BY <1>2 DEF RewriteTask, cache, Concerns
  <2> HIDE DEF kept, e
  <2>4. cache' = cache + 1 /\ heap'[cache'] = kept
    <3>1. heap \in Seq(Map)
      BY <1>0 DEF TypeOK
    <3> QED BY <2>1, <2>2, <3>1, AppendOf DEF cache
  <2>5. Quiet'
    BY <1>2, <2>4 DEF Quiet, Loaded
  <2>6. Agrees'
    <3> SUFFICES ASSUME NEW t \in Thread
                 PROVE  /\ \A i \in DOMAIN writes' :
                             IsLast(i, t)' => Named(writes[i], t)' = heap'[cache'][t]
                        /\ Queued(t)' # {}
      BY DEF Agrees
    <3>1. Queued(t)' # {} /\ \A i \in DOMAIN writes' : IsLast(i, t)' => writes'[i] = e
      BY <1>0, <2>1, <2>3, QueueGrows
    <3>2. \A i \in DOMAIN writes' : writes'[i] = e => Named(writes[i], t)' = heap'[cache'][t]
      BY <2>3, <2>4 DEF Named
    <3> QED BY <3>1, <3>2
  <2> QED BY <2>5, <2>6 DEF LogInv
<1> QED BY <1>3, <1>4

(* Every step preserves the inductive invariant of the log. *)
LEMMA LogStep == SessionsInv /\ LogInv /\ [Next]_vars => LogInv'
<1> SUFFICES ASSUME SessionsInv, LogInv, [Next]_vars PROVE LogInv'
  OBVIOUS
<1>w. ASSUME writes # <<>> PROVE w \in AppendTask \cup RewriteTask
  BY <1>w, TailOf DEF SessionsInv, TypeOK, w
<1>1. ASSUME NEW op \in Op, NEW t \in Thread, Invoke(op, t) PROVE LogInv'
  BY <1>1, LogUntouched DEF Invoke, memory, file, history
<1>2. CASE Load
  BY <1>2, LoadLogged
<1>3. ASSUME NEW full \in BOOLEAN, NEW turn \in BOOLEAN, Update(full, turn) PROVE LogInv'
  BY <1>3, UpdateLogged
<1>4. CASE Create
  BY <1>4, CreateLogged
<1>5. CASE Remove
  BY <1>5, RemoveLogged
<1>6. CASE Restart
  BY <1>6, LogUntouched DEF Restart, file, history
<1>7. ASSUME NEW full \in BOOLEAN, Remap(full) PROVE LogInv'
  BY <1>7, RemapLogged
<1>8. ASSUME NEW dropped \in SUBSET Thread, Prune(dropped) PROVE LogInv'
  BY <1>8, PruneLogged
<1>9. CASE PerformAppend
  <2>1. /\ writes # <<>> /\ w.kind = "append" /\ writes' = Tail(writes)
        /\ UNCHANGED <<memory, strayed>>
        /\ \/ log' = log /\ behind' = behind \cup {w.thread}
           \/ /\ log' = [log EXCEPT ![w.thread] = ImageOf(w.thread, Named(w, w.thread))]
              /\ behind' = behind \ {w.thread}
    BY <1>9, ShowsNamed DEF PerformAppend
  <2>2. w.thread \in Thread /\ \A t : Concerns(w, t) <=> t = w.thread
    BY <1>w, <2>1 DEF AppendTask, RewriteTask, Concerns
  <2>3. ASSUME NEW t \in Thread, t \notin behind'
        PROVE  IF Concerns(w, t) THEN log'[t] = ImageOf(t, Named(w, t))
               ELSE log'[t] = log[t] /\ t \notin behind
    <3>1. log \in [Thread -> Image]
      BY DEF SessionsInv, TypeOK
    <3> QED BY <2>1, <2>2, <2>3, <3>1
  <2> QED BY <2>1, <2>3, WriteLogged
<1>10. CASE PerformRewrite
  <2>1. /\ writes # <<>> /\ w.kind = "rewrite" /\ writes' = Tail(writes)
        /\ UNCHANGED <<memory, strayed>>
        /\ log' = [t \in Thread |-> ImageOf(t, Named(w, t))]
    BY <1>10, ShowsNamed DEF PerformRewrite
  <2>2. \A t : Concerns(w, t)
    BY <2>1 DEF Concerns
  <2> QED BY <2>1, <2>2, WriteLogged
<1>11. CASE WriteFails
  <2>1. /\ writes # <<>> /\ writes' = Tail(writes) /\ log' = log
        /\ UNCHANGED <<memory, strayed>>
        /\ behind' = behind \cup {t \in Thread : Concerns(w, t) /\ ImageOf(t, Named(w, t)) # log[t]}
    BY <1>11, ShowsNamed DEF WriteFails, file
  <2> QED BY <2>1, WriteLogged
<1>12. ASSUME NEW confirmed \in SUBSET Thread, ReadLog(confirmed) PROVE LogInv'
  BY <1>12, LogUntouched DEF ReadLog, memory, file, history
<1>13. CASE Crash
  <2>1. heap' = <<>> /\ writes' = <<>> /\ cache' = 0
    BY <1>13 DEF Crash, cache
  <2> QED BY <2>1 DEF LogInv, Quiet, Agrees, Loaded
<1>14. CASE UNCHANGED vars
  BY <1>14, LogUntouched DEF vars, memory, file, history
<1> QED
  BY <1>1, <1>2, <1>3, <1>4, <1>5, <1>6, <1>7, <1>8, <1>9, <1>10, <1>11, <1>12, <1>13, <1>14 DEF Next

(* It is an invariant. *)
LEMMA LogAlways == Spec => [](SessionsInv /\ LogInv)
<1>1. Init => SessionsInv /\ LogInv
  BY SessionsInit, LogInit
<1>2. SessionsInv /\ LogInv /\ [Next]_vars => SessionsInv' /\ LogInv'
  BY SessionsStep, LogStep
<1> QED BY <1>1, <1>2, PTL DEF Spec

(* Memory is what a restart would fold once the queued writes are done:    *)
(* every thread's session in memory is the one its last queued write       *)
(* shows, or the log's when none is queued.  The exceptions are threads    *)
(* written to through a map a prune replaced, and ones whose last write    *)
(* failed.  appendThread, rewriteLog and foldSessionLog keep to this.      *)
THEOREM LogAgrees == Spec => []LogAgreesWithMemory
<1>1. SessionsInv /\ LogInv => LogAgreesWithMemory
  <2> SUFFICES ASSUME SessionsInv, LogInv, Loaded, NEW t \in Thread \ (strayed \cup behind)
               PROVE  ImageOf(t, heap[cache][t]) = Folded(t)
    BY DEF LogAgreesWithMemory
  <2>0. TypeOK
    BY DEF SessionsInv
  <2>1. /\ \A i \in DOMAIN writes : IsLast(i, t) => Named(writes[i], t) = heap[cache][t]
        /\ Queued(t) = {} => log[t] = ImageOf(t, heap[cache][t])
    BY DEF LogInv, Agrees
  <2>2. CASE Queued(t) = {}
    BY <2>1, <2>2 DEF Folded
  <2>3. CASE Queued(t) # {}
    <3> DEFINE last == CHOOSE i \in Queued(t) : \A j \in Queued(t) : j <= i
    <3>1. \E i \in Queued(t) : \A j \in Queued(t) : j <= i
      BY <2>0, <2>3, LastWrite DEF IsLast
    <3>2. last \in Queued(t) /\ \A j \in Queued(t) : j <= last
      BY <3>1
    <3>3. Folded(t) = Shows(writes[last], t)
      BY <2>3 DEF Folded
    <3> HIDE DEF last
    <3>4. last \in DOMAIN writes /\ IsLast(last, t)
      BY <3>2 DEF Queued, IsLast
    <3> QED BY <2>1, <3>3, <3>4, ShowsNamed
  <2> QED BY <2>2, <2>3
<1> QED BY <1>1, LogAlways, PTL
=============================================================================
