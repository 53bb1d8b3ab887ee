------------------------- MODULE AlertIntakeProofs -------------------------
(***************************************************************************)
(* Alerts from webhooks and polls, for any number of issues, routines,     *)
(* webhooks and troubles: an issue is triaged once by a first-seen         *)
(* routine, and the poll's receipt follows its rows.                       *)
(***************************************************************************)
EXTENDS AlertIntake, FiniteSetTheorems, TLAPS

(* What of the types the arguments need. *)
Shapes ==
  /\ revision \in [Issue -> 0..MaxRevision]
  /\ sent \subseteq Hook
  /\ seen \subseteq Issue /\ hurt \subseteq Issue
  /\ queue \subseteq Row /\ dispatches \subseteq Dispatch
  /\ page \in Seq(Issue) /\ next \in Nat /\ cursor \in Nat
  /\ receipts \in [Issue -> 0..MaxRevision]
  /\ \A d \in dispatches : d.todo \subseteq d.woken /\ d.woken \subseteq Routine
  /\ \A d \in dispatches : ~d.judged => d.woken = {}
  /\ \A d \in dispatches : d.via = "poll" => d.number \in 0..MaxRevision

Owed(i, r) == {d \in dispatches : d.issue = i /\ r \in d.todo}

(* The claim of an issue by its first delivery: without it there is        *)
(* neither a row nor one to come; with it there is one or the other, or    *)
(* the issue was hurt, but never both and neither twice.                   *)
Claimed(i, r) ==
  /\ i \notin seen => Rows(i, r) = {} /\ Owed(i, r) = {}
  /\ \A a, b \in Owed(i, r) : a = b
  /\ \A a, b \in Rows(i, r) : a = b
  /\ Owed(i, r) = {} \/ Rows(i, r) = {}
  /\ i \in seen /\ i \notin hurt => Owed(i, r) # {} \/ Rows(i, r) # {}

(* What a delivery woke and is no longer to do is in the queue.            *)
Delivered(d) ==
  d.issue \notin hurt => \A r \in d.woken \ d.todo : RowOf(d, r) \in queue

(* A judged delivery woke every routine that is not first-seen, and the    *)
(* issue is claimed.                                                       *)
Judged(d) ==
  d.judged => /\ Routine \ FirstSeen \subseteq d.woken
              /\ FirstSeen # {} => d.issue \in seen

IntakeInv ==
  /\ Shapes
  /\ \A i \in Issue : \A r \in FirstSeen : Claimed(i, r)
  /\ \A d \in dispatches : Delivered(d) /\ Judged(d)
  /\ ReceiptAfterRows

(* The inductive invariant holds initially. *)
LEMMA IntakeInit == Init => IntakeInv
<1> SUFFICES ASSUME Init PROVE IntakeInv
  OBVIOUS
<1>1. Shapes
  <2>1. 0 \in 0..MaxRevision
    BY IntakeAssumption
  <2> QED BY <2>1 DEF Init, Shapes
<1>2. \A i \in Issue : \A r \in FirstSeen : Claimed(i, r)
  BY DEF Init, Claimed, Rows, Owed
<1>3. ReceiptAfterRows
  BY DEF Init, ReceiptAfterRows
<1>4. dispatches = {}
  BY DEF Init
<1> QED BY <1>1, <1>2, <1>3, <1>4 DEF IntakeInv


(* What holds of a state holds of one in which no row or receipt moved,    *)
(* more issues may be hurt, and the same is owed.                          *)
LEMMA SameClaims ==
  ASSUME IntakeInv, Shapes',
         queue' = queue, seen' = seen, receipts' = receipts, hurt \subseteq hurt',
         \A i \in Issue, r \in Routine : i \notin hurt' => Owed(i, r)' = Owed(i, r),
         \A i \in Issue, r \in Routine : Owed(i, r)' \subseteq Owed(i, r),
         \A d \in dispatches' : d \in dispatches \/ (~d.judged /\ d.woken = {})
  PROVE  IntakeInv'
<1>0. Shapes /\ FirstSeen \subseteq Routine
  BY IntakeAssumption DEF IntakeInv
<1>1. \A i \in Issue : \A r \in Routine : Rows(i, r)' = Rows(i, r)
  BY DEF Rows
<1>2. ASSUME NEW i \in Issue, NEW r \in FirstSeen PROVE Claimed(i, r)'
  <2>1. Claimed(i, r) /\ r \in Routine
    BY <1>0 DEF IntakeInv
  <2> QED BY <1>1, <2>1 DEF Claimed
<1>3. ASSUME NEW d \in dispatches' PROVE Delivered(d)' /\ Judged(d)'
  <2>1. CASE d \in dispatches
    <3>1. Delivered(d) /\ Judged(d)
      BY <2>1 DEF IntakeInv
    <3>2. RowOf(d, 0)' = RowOf(d, 0) /\ \A r : RowOf(d, r)' = RowOf(d, r)
      BY DEF RowOf
    <3> QED BY <3>1, <3>2 DEF Delivered, Judged
  <2>2. CASE ~d.judged /\ d.woken = {}
    BY <2>2 DEF Delivered, Judged
  <2> QED BY <2>1, <2>2
<1>4. ReceiptAfterRows'
  <2> SUFFICES ASSUME NEW i \in Issue, i \notin hurt', NEW r \in Routine, receipts[i] > 0
               PROVE  \/ \E q \in Rows(i, r)' : r \notin FirstSeen => q.via = "poll" /\ q.number = receipts[i]
                      \/ r \in FirstSeen /\ \E d \in dispatches' : d.issue = i /\ r \in d.todo
    BY DEF ReceiptAfterRows
  <2>1. \/ \E q \in Rows(i, r) : r \notin FirstSeen => q.via = "poll" /\ q.number = receipts[i]
        \/ r \in FirstSeen /\ Owed(i, r) # {}
    BY DEF IntakeInv, ReceiptAfterRows, Owed
  <2>2. r \in FirstSeen /\ Owed(i, r)' # {} => \E d \in dispatches' : d.issue = i /\ r \in d.todo
    BY DEF Owed
  <2> QED BY <1>1, <2>1, <2>2
<1> QED BY <1>2, <1>3, <1>4 DEF IntakeInv

(* A delivery that has begun owes nothing yet. *)
LEMMA BegunTyped ==
  ASSUME NEW via \in Via, NEW n \in Nat, NEW i \in Issue
  PROVE  /\ Begun(via, n, i) \in Dispatch
         /\ Begun(via, n, i).via = via /\ Begun(via, n, i).number = n /\ Begun(via, n, i).issue = i
         /\ ~Begun(via, n, i).judged
         /\ Begun(via, n, i).woken = {} /\ Begun(via, n, i).todo = {}
  BY DEF Begun, Dispatch

(* A delivery begins. *)
LEMMA BeginKeeps ==
  ASSUME IntakeInv, NEW via \in Via, NEW n \in Nat, NEW i \in Issue,
         via = "poll" => n \in 0..MaxRevision,
         dispatches' = dispatches \cup {Begun(via, n, i)},
         UNCHANGED <<revision, sent, seen, queue, receipts, page, next, cursor, hurt>>
  PROVE  IntakeInv'
<1> DEFINE b == Begun(via, n, i)
<1>0. Shapes
  BY DEF IntakeInv
<1>1. /\ b \in Dispatch /\ b.via = via /\ b.number = n /\ ~b.judged
      /\ b.woken = {} /\ b.todo = {}
  BY BegunTyped
<1>2. Shapes'
  <2> HIDE DEF b
  <2>1. dispatches' \subseteq Dispatch
    BY <1>0, <1>1 DEF Shapes, b
  <2>2. /\ \A d \in dispatches' : d.todo \subseteq d.woken /\ d.woken \subseteq Routine
        /\ \A d \in dispatches' : ~d.judged => d.woken = {}
        /\ \A d \in dispatches' : d.via = "poll" => d.number \in 0..MaxRevision
    BY <1>0, <1>1 DEF Shapes, b
  <2> QED BY <1>0, <2>1, <2>2 DEF Shapes
<1>3. \A j \in Issue, r \in Routine : Owed(j, r)' = Owed(j, r)
  BY <1>1 DEF Owed
<1>4. \A d \in dispatches' : d \in dispatches \/ (~d.judged /\ d.woken = {})
  BY <1>1
<1> QED BY <1>2, <1>3, <1>4, SameClaims

(* A page holds issues. *)
LEMMA PageTyped ==
  ASSUME Shapes, Listed
  PROVE  page' \in Seq(Issue) /\ next' \in Nat
<1> DEFINE count == Cardinality(Existing)
           last  == Least(cursor + Page, count)
           size  == IF last > cursor THEN last - cursor ELSE 0
<1>1. IsFiniteSet(Existing) /\ Existing \subseteq Issue
  <2>1. Existing \subseteq 1..Issues
    BY DEF Existing, Issue
  <2>2. IsFiniteSet(1..Issues)
    BY FS_Interval, IntakeAssumption
  <2> QED BY <2>1, <2>2, FS_Subset DEF Issue
<1>2. count \in Nat /\ cursor \in Nat /\ Page \in Nat
  BY <1>1, FS_CardinalityType, IntakeAssumption DEF Shapes
<1>3. last \in Nat /\ size \in Nat
  <2> HIDE DEF count
  <2>1. last \in Nat
    BY <1>2 DEF Least
  <2> HIDE DEF last
  <2> QED BY <1>2, <2>1
<1>4. page' \in [1..size -> Existing] /\ next' = IF last < count THEN last ELSE 0
  BY DEF Listed
<1> HIDE DEF size, last, count
<1>5. page' \in Seq(Existing)
  BY <1>3, <1>4
<1>6. page' \in [1..size -> Issue]
  BY <1>1, <1>4
<1> QED BY <1>3, <1>4, <1>6

(* The first-seen gate: the delivery that finds the issue unseen is to     *)
(* queue the rows of every routine, any other only of those that are not   *)
(* first-seen.                                                             *)
LEMMA JudgeKeeps == ASSUME IntakeInv, NEW d \in dispatches, Judge(d) PROVE IntakeInv'
<1> DEFINE woken == IF d.issue \in seen THEN Routine \ FirstSeen ELSE Routine
           e     == [d EXCEPT !.judged = TRUE, !.woken = woken, !.todo = woken]
<1>0. Shapes /\ FirstSeen \subseteq Routine
  BY IntakeAssumption DEF IntakeInv
<1>1. /\ d \in Dispatch /\ ~d.judged /\ d.woken = {} /\ d.todo = {}
  BY <1>0 DEF Shapes, Judge
<1>2. /\ e \in Dispatch /\ e.issue = d.issue /\ e.via = d.via /\ e.number = d.number
      /\ e.judged /\ e.woken = woken /\ e.todo = woken
  <2>1. woken \in SUBSET Routine
    OBVIOUS
  <2> HIDE DEF woken
  <2> QED BY <1>1, <2>1 DEF Dispatch
<1>3. /\ dispatches' = (dispatches \ {d}) \cup {e}
      /\ seen' = IF FirstSeen = {} THEN seen ELSE seen \cup {d.issue}
      /\ queue' = queue /\ receipts' = receipts /\ hurt' = hurt
      /\ revision' = revision /\ sent' = sent /\ page' = page /\ next' = next /\ cursor' = cursor
  BY DEF Judge, polling
<1>4. d.issue \in Issue
  BY <1>1 DEF Dispatch
<1> HIDE DEF e
<1>5. Shapes'
  <2>1. dispatches' \subseteq Dispatch
    BY <1>0, <1>2, <1>3 DEF Shapes
  <2>2. /\ \A x \in dispatches' : x.todo \subseteq x.woken /\ x.woken \subseteq Routine
        /\ \A x \in dispatches' : ~x.judged => x.woken = {}
        /\ \A x \in dispatches' : x.via = "poll" => x.number \in 0..MaxRevision
    BY <1>0, <1>2, <1>3 DEF Shapes
  <2>3. seen' \subseteq Issue
    BY <1>0, <1>3, <1>4 DEF Shapes
  <2> QED BY <1>0, <1>3, <2>1, <2>2, <2>3 DEF Shapes
<1>6. \A i \in Issue, r \in Routine : Rows(i, r)' = Rows(i, r)
  BY <1>3 DEF Rows
<1>7. ASSUME NEW i \in Issue, NEW r \in FirstSeen PROVE Claimed(i, r)'
  <2>1. Claimed(i, r) /\ r \in Routine
    BY <1>0 DEF IntakeInv
  <2>2. CASE i = d.issue /\ i \notin seen
    <3>1. Owed(i, r)' = {e} /\ i \in seen'
      BY <1>2, <1>3, <2>1, <2>2 DEF Claimed, Owed
    <3> QED BY <1>6, <2>1, <2>2, <3>1 DEF Claimed
  <2>3. CASE ~(i = d.issue /\ i \notin seen)
    <3>1. Owed(i, r)' = Owed(i, r)
      BY <1>1, <1>2, <1>3, <2>3 DEF Owed
    <3>2. i \in seen' <=> i \in seen
      BY <1>3, <2>3
    <3> QED BY <1>3, <1>6, <2>1, <3>1, <3>2 DEF Claimed
  <2> QED BY <2>2, <2>3
<1>8. ASSUME NEW x \in dispatches' PROVE Delivered(x)' /\ Judged(x)'
  <2>1. CASE x = e
    BY <1>2, <1>3, <2>1 DEF Delivered, Judged
  <2>2. CASE x \in dispatches
    <3>1. Delivered(x) /\ Judged(x)
      BY <2>2 DEF IntakeInv
    <3> QED BY <1>3, <3>1 DEF Delivered, Judged, RowOf
  <2> QED BY <1>3, <2>1, <2>2
<1>9. ReceiptAfterRows'
  <2> SUFFICES ASSUME NEW i \in Issue, i \notin hurt, NEW r \in Routine, receipts[i] > 0
               PROVE  \/ \E q \in Rows(i, r)' : r \notin FirstSeen => q.via = "poll" /\ q.number = receipts[i]
                      \/ r \in FirstSeen /\ \E x \in dispatches' : x.issue = i /\ r \in x.todo
    BY <1>3 DEF ReceiptAfterRows
  <2>1. \/ \E q \in Rows(i, r) : r \notin FirstSeen => q.via = "poll" /\ q.number = receipts[i]
        \/ r \in FirstSeen /\ \E x \in dispatches : x.issue = i /\ r \in x.todo
    BY DEF IntakeInv, ReceiptAfterRows
  <2>2. \A x \in dispatches : r \in x.todo => x \in dispatches'
    BY <1>1, <1>3
  <2> QED BY <1>6, <2>1, <2>2
<1> QED BY <1>5, <1>7, <1>8, <1>9 DEF IntakeInv

(* A row is inserted, or its insertion is refused and its issue hurt.      *)
LEMMA FireKeeps ==
  ASSUME IntakeInv, NEW d \in dispatches, NEW r \in Routine, Fire(d, r)
  PROVE  IntakeInv'
<1> DEFINE row == RowOf(d, r)
           e   == [d EXCEPT !.todo = @ \ {r}]
<1>0. Shapes /\ FirstSeen \subseteq Routine
  BY IntakeAssumption DEF IntakeInv
<1>1. d \in Dispatch /\ r \in d.todo /\ d.issue \in Issue
  BY <1>0 DEF Shapes, Fire, Dispatch
<1>2. /\ e \in Dispatch /\ e.issue = d.issue /\ e.via = d.via /\ e.number = d.number
      /\ e.judged = d.judged /\ e.woken = d.woken /\ e.todo = d.todo \ {r}
  BY <1>1 DEF Dispatch
<1>3. row \in Row /\ row.issue = d.issue /\ row.routine = r
  BY <1>1 DEF RowOf, Dispatch, Row
<1>4. /\ dispatches' = (dispatches \ {d}) \cup {e}
      /\ queue' \in {queue, queue \cup {row}}
      /\ hurt \subseteq hurt' /\ hurt' \subseteq hurt \cup {d.issue}
      /\ d.issue \notin hurt' => row \in queue'
      /\ seen' = seen /\ receipts' = receipts
      /\ revision' = revision /\ sent' = sent /\ page' = page /\ next' = next /\ cursor' = cursor
  BY DEF Fire, polling
<1> HIDE DEF e, row
<1>5. Shapes'
  <2>1. dispatches' \subseteq Dispatch
    BY <1>0, <1>2, <1>4 DEF Shapes
  <2>2. /\ \A x \in dispatches' : x.todo \subseteq x.woken /\ x.woken \subseteq Routine
        /\ \A x \in dispatches' : ~x.judged => x.woken = {}
        /\ \A x \in dispatches' : x.via = "poll" => x.number \in 0..MaxRevision
    BY <1>0, <1>2, <1>4 DEF Shapes
  <2>3. hurt' \subseteq Issue /\ queue' \subseteq Row
    BY <1>0, <1>1, <1>3, <1>4 DEF Shapes
  <2> QED BY <1>0, <1>4, <2>1, <2>2, <2>3 DEF Shapes
<1>6. \A i \in Issue, s \in Routine :
        /\ Rows(i, s) \subseteq Rows(i, s)'
        /\ Rows(i, s)' \subseteq Rows(i, s) \cup {row}
        /\ ~(i = d.issue /\ s = r) => Rows(i, s)' = Rows(i, s)
  BY <1>3, <1>4 DEF Rows
<1>7. ASSUME NEW i \in Issue, NEW s \in FirstSeen PROVE Claimed(i, s)'
  <2>1. Claimed(i, s) /\ s \in Routine
    BY <1>0 DEF IntakeInv
  <2>2. CASE i = d.issue /\ s = r
    <3>1. d \in Owed(i, s)
      BY <1>1, <2>2 DEF Owed
    <3>2. Rows(i, s) = {} /\ i \in seen /\ \A x \in Owed(i, s) : x = d
      BY <2>1, <3>1 DEF Claimed
    <3>3. Owed(i, s)' = {}
      BY <1>2, <1>4, <2>2, <3>2 DEF Owed
    <3>4. Rows(i, s)' \subseteq {row} /\ (i \notin hurt' => row \in Rows(i, s)')
      BY <1>3, <1>4, <1>6, <2>1, <2>2, <3>2 DEF Rows
    <3> QED BY <1>4, <3>2, <3>3, <3>4 DEF Claimed
  <2>3. CASE ~(i = d.issue /\ s = r)
    <3>1. Rows(i, s)' = Rows(i, s)
      BY <1>6, <2>1, <2>3
    <3>2. \/ d \notin Owed(i, s) /\ Owed(i, s)' = Owed(i, s)
          \/ d \in Owed(i, s) /\ Owed(i, s)' = (Owed(i, s) \ {d}) \cup {e}
      BY <1>2, <1>4, <2>3 DEF Owed
    <3> QED BY <1>4, <2>1, <3>1, <3>2 DEF Claimed
  <2> QED BY <2>2, <2>3
<1>8. ASSUME NEW x \in dispatches' PROVE Delivered(x)' /\ Judged(x)'
  <2>1. CASE x = e
    <3>1. Delivered(d) /\ Judged(d)
      BY DEF IntakeInv
    <3>2. \A s : RowOf(e, s) = RowOf(d, s)
      BY <1>2 DEF RowOf
    <3>3. Delivered(e)'
      BY <1>2, <1>4, <3>1, <3>2 DEF Delivered, RowOf, row
    <3>4. Judged(e)'
      BY <1>2, <1>4, <3>1 DEF Judged
    <3> QED BY <2>1, <3>3, <3>4
  <2>2. CASE x \in dispatches
    <3>1. Delivered(x) /\ Judged(x)
      BY <2>2 DEF IntakeInv
    <3> QED BY <1>4, <3>1 DEF Delivered, Judged, RowOf
  <2> QED BY <1>4, <2>1, <2>2
<1>9. ReceiptAfterRows'
  <2> SUFFICES ASSUME NEW i \in Issue, i \notin hurt', NEW s \in Routine, receipts[i] > 0
               PROVE  \/ \E q \in Rows(i, s)' : s \notin FirstSeen => q.via = "poll" /\ q.number = receipts[i]
                      \/ s \in FirstSeen /\ \E x \in dispatches' : x.issue = i /\ s \in x.todo
    BY <1>4 DEF ReceiptAfterRows
  <2>1. i \notin hurt
    BY <1>4
  <2>2. CASE \E q \in Rows(i, s) : s \notin FirstSeen => q.via = "poll" /\ q.number = receipts[i]
    BY <1>6, <2>2
  <2>3. CASE s \in FirstSeen /\ \E x \in dispatches : x.issue = i /\ s \in x.todo
    <3>1. PICK x \in dispatches : x.issue = i /\ s \in x.todo
      BY <2>3
    <3>2. CASE x # d
      BY <1>4, <2>3, <3>1, <3>2
    <3>3. CASE x = d /\ s # r
      BY <1>2, <1>4, <2>3, <3>1, <3>3
    <3>4. CASE x = d /\ s = r
      BY <1>3, <1>4, <2>3, <3>1, <3>4 DEF Rows
    <3> QED BY <3>2, <3>3, <3>4
  <2> QED BY <2>1, <2>2, <2>3 DEF IntakeInv, ReceiptAfterRows
<1> QED BY <1>5, <1>7, <1>8, <1>9 DEF IntakeInv

(* The receipt: every routine the delivery did not wake is first-seen, and *)
(* its row is there or owed by the delivery that claimed the issue.        *)
LEMMA ReceiptedKeeps == ASSUME IntakeInv, NEW d \in dispatches, Receipted(d) PROVE IntakeInv'
<1>0. Shapes /\ FirstSeen \subseteq Routine
  BY IntakeAssumption DEF IntakeInv
<1>1. /\ d \in Dispatch /\ d.judged /\ d.todo = {} /\ d.via = "poll" /\ d.issue \in Issue
      /\ d.number \in 0..MaxRevision /\ d.woken \subseteq Routine
  BY <1>0 DEF Shapes, Receipted, Finished, Dispatch
<1>2. /\ receipts' = [receipts EXCEPT ![d.issue] = d.number]
      /\ page' = Tail(page) /\ dispatches' = dispatches \ {d}
      /\ queue' = queue /\ seen' = seen /\ hurt' = hurt
      /\ revision' = revision /\ sent' = sent /\ next' = next /\ cursor' = cursor
  BY DEF Receipted
<1>3. Shapes'
  <2>1. receipts' \in [Issue -> 0..MaxRevision]
    BY <1>0, <1>1, <1>2 DEF Shapes
  <2>2. page' \in Seq(Issue)
    <3>1. page \in Seq(Issue) /\ page' = Tail(page)
      BY <1>0, <1>2 DEF Shapes
    <3>2. CASE page = <<>>
      BY <3>1, <3>2
    <3>3. CASE page # <<>>
      BY <3>1, <3>3
    <3> QED BY <3>2, <3>3
  <2>3. /\ dispatches' \subseteq Dispatch
        /\ \A x \in dispatches' : x.todo \subseteq x.woken /\ x.woken \subseteq Routine
        /\ \A x \in dispatches' : ~x.judged => x.woken = {}
        /\ \A x \in dispatches' : x.via = "poll" => x.number \in 0..MaxRevision
    BY <1>0, <1>2 DEF Shapes
  <2> QED BY <1>0, <1>2, <2>1, <2>2, <2>3 DEF Shapes
<1>4. \A i \in Issue, r \in Routine : Rows(i, r)' = Rows(i, r) /\ Owed(i, r)' = Owed(i, r)
  BY <1>1, <1>2 DEF Rows, Owed
<1>5. \A i \in Issue : \A r \in FirstSeen : Claimed(i, r)'
  <2> SUFFICES ASSUME NEW i \in Issue, NEW r \in FirstSeen PROVE Claimed(i, r)'
    OBVIOUS
  <2>1. Claimed(i, r) /\ r \in Routine
    BY <1>0 DEF IntakeInv
  <2> QED BY <1>2, <1>4, <2>1 DEF Claimed
<1>6. \A x \in dispatches' : Delivered(x)' /\ Judged(x)'
  BY <1>2 DEF IntakeInv, Delivered, Judged, RowOf
<1>7. ReceiptAfterRows'
  <2> SUFFICES ASSUME NEW i \in Issue, i \notin hurt, NEW r \in Routine, receipts'[i] > 0
               PROVE  \/ \E q \in Rows(i, r) : r \notin FirstSeen => q.via = "poll" /\ q.number = receipts'[i]
                      \/ r \in FirstSeen /\ Owed(i, r) # {}
    BY <1>2, <1>4 DEF ReceiptAfterRows, Owed
  <2>1. CASE i # d.issue
    <3>1. receipts'[i] = receipts[i]
      BY <1>0, <1>2, <2>1 DEF Shapes
    <3> QED BY <3>1 DEF IntakeInv, ReceiptAfterRows, Owed
  <2>2. CASE i = d.issue /\ r \in d.woken
    <3>1. RowOf(d, r) \in queue
      BY <1>1, <2>2 DEF IntakeInv, Delivered
    <3>2. /\ RowOf(d, r).issue = i /\ RowOf(d, r).routine = r
          /\ RowOf(d, r).via = "poll" /\ RowOf(d, r).number = d.number
      BY <1>1, <2>2 DEF RowOf
    <3>3. receipts'[i] = d.number
      BY <1>0, <1>2, <2>2 DEF Shapes
    <3> QED BY <3>1, <3>2, <3>3 DEF Rows
  <2>3. CASE i = d.issue /\ r \notin d.woken
    <3>1. r \in FirstSeen /\ i \in seen
      BY <1>1, <2>3 DEF IntakeInv, Judged
    <3>2. Claimed(i, r)
      BY <3>1 DEF IntakeInv
    <3> QED BY <3>1, <3>2 DEF Claimed
  <2> QED BY <2>1, <2>2, <2>3
<1> QED BY <1>3, <1>5, <1>6, <1>7 DEF IntakeInv

(* Every step preserves the inductive invariant. *)
LEMMA IntakeStep == IntakeInv /\ [Next]_vars => IntakeInv'
<1> SUFFICES ASSUME IntakeInv, [Next]_vars PROVE IntakeInv'
  OBVIOUS
<1>0. Shapes
  BY DEF IntakeInv
<1>1. ASSUME NEW i \in Issue, Occurs(i) PROVE IntakeInv'
  <2>1. /\ dispatches' = dispatches /\ queue' = queue /\ seen' = seen /\ receipts' = receipts
        /\ hurt' = hurt /\ sent' = sent /\ page' = page /\ next' = next /\ cursor' = cursor
        /\ revision' = [revision EXCEPT ![i] = @ + 1] /\ revision[i] < MaxRevision
    BY <1>1 DEF Occurs, stores, polling
  <2>2. revision' \in [Issue -> 0..MaxRevision]
    <3>1. MaxRevision \in Nat /\ revision \in [Issue -> 0..MaxRevision]
      BY <1>0, IntakeAssumption DEF Shapes
    <3> QED BY <2>1, <3>1
  <2>3. Shapes'
    BY <1>0, <2>1, <2>2 DEF Shapes
  <2>4. \A j \in Issue, r \in Routine : Owed(j, r)' = Owed(j, r)
    BY <2>1 DEF Owed
  <2> QED BY <2>1, <2>3, <2>4, SameClaims
<1>2. ASSUME NEW i \in Issue, Sends(i) PROVE IntakeInv'
  <2>1. /\ dispatches' = dispatches /\ queue' = queue /\ seen' = seen /\ receipts' = receipts
        /\ hurt' = hurt /\ revision' = revision /\ page' = page /\ next' = next /\ cursor' = cursor
        /\ sent' = sent \cup {[id |-> Cardinality(sent) + 1, issue |-> i]}
        /\ Cardinality(sent) < MaxHooks
    BY <1>2 DEF Sends, stores, polling
  <2>2. sent' \subseteq Hook
    <3>1. IsFiniteSet(sent)
      <4>1. IsFiniteSet(1..MaxHooks) /\ IsFiniteSet(Issue)
        BY FS_Interval, IntakeAssumption DEF Issue
      <4>2. IsFiniteSet((1..MaxHooks) \X Issue)
        BY <4>1, FS_Product
      <4> DEFINE f == [t \in (1..MaxHooks) \X Issue |-> [id |-> t[1], issue |-> t[2]]]
      <4>3. f \in Surjection((1..MaxHooks) \X Issue, Hook)
        <5>1. f \in [(1..MaxHooks) \X Issue -> Hook]
          BY DEF Hook
        <5>2. \A h \in Hook : \E t \in (1..MaxHooks) \X Issue : f[t] = h
          <6> SUFFICES ASSUME NEW h \in Hook
                       PROVE  \E t \in (1..MaxHooks) \X Issue : f[t] = h
            OBVIOUS
          <6>1. <<h.id, h.issue>> \in (1..MaxHooks) \X Issue /\ f[<<h.id, h.issue>>] = h
            BY DEF Hook
          <6> QED BY <6>1
        <5> QED BY <5>1, <5>2 DEF Surjection
      <4>4. IsFiniteSet(Hook)
        BY <4>2, <4>3, FS_Surjection
      <4> QED BY <1>0, <4>4, FS_Subset DEF Shapes
    <3>2. Cardinality(sent) \in Nat /\ MaxHooks \in Nat
      BY <3>1, FS_CardinalityType, IntakeAssumption
    <3>3. Cardinality(sent) + 1 \in 1..MaxHooks
      BY <2>1, <3>2
    <3> QED BY <1>0, <2>1, <3>3 DEF Shapes, Hook
  <2>3. Shapes'
    BY <1>0, <2>1, <2>2 DEF Shapes
  <2>4. \A j \in Issue, r \in Routine : Owed(j, r)' = Owed(j, r)
    BY <2>1 DEF Owed
  <2> QED BY <2>1, <2>3, <2>4, SameClaims
<1>3. ASSUME NEW h \in sent, Arrives(h) PROVE IntakeInv'
  <2>1. h.id \in Nat /\ h.issue \in Issue /\ "hook" \in Via
    BY <1>0 DEF Shapes, Hook, Via
  <2>2. /\ dispatches' = dispatches \cup {Begun("hook", h.id, h.issue)}
        /\ UNCHANGED <<revision, sent, seen, queue, receipts, page, next, cursor, hurt>>
    BY <1>3 DEF Arrives, polling
  <2> QED BY <2>1, <2>2, BeginKeeps
<1>4. ASSUME NEW d \in dispatches, Judge(d) PROVE IntakeInv'
  BY <1>4, JudgeKeeps
<1>5. ASSUME NEW d \in dispatches, NEW r \in Routine, Fire(d, r) PROVE IntakeInv'
  BY <1>5, FireKeeps
<1>6. ASSUME NEW d \in dispatches, Receipted(d) PROVE IntakeInv'
  BY <1>6, ReceiptedKeeps
<1>7. ASSUME NEW d \in dispatches, Answered(d) PROVE IntakeInv'
  <2>1. /\ d.todo = {} /\ dispatches' = dispatches \ {d}
        /\ queue' = queue /\ seen' = seen /\ receipts' = receipts /\ hurt' = hurt
        /\ revision' = revision /\ sent' = sent /\ page' = page /\ next' = next /\ cursor' = cursor
    BY <1>7 DEF Answered, Finished, stores, polling
  <2>2. Shapes'
    BY <1>0, <2>1 DEF Shapes
  <2>3. \A j \in Issue, r \in Routine : Owed(j, r)' = Owed(j, r)
    BY <2>1 DEF Owed
  <2> QED BY <2>1, <2>2, <2>3, SameClaims
<1>8. CASE Restart
  <2>1. /\ dispatches' = {} /\ hurt' = hurt \cup {d.issue : d \in {e \in dispatches : e.judged}}
        /\ queue' = queue /\ seen' = seen /\ receipts' = receipts
        /\ revision' = revision /\ sent' = sent /\ page' = <<>> /\ next' = 0 /\ cursor' = cursor
    BY <1>8 DEF Restart, stores
  <2>2. \A d \in dispatches : d.issue \in Issue
    BY <1>0 DEF Shapes, Dispatch
  <2>3. Shapes'
    BY <1>0, <2>1, <2>2 DEF Shapes
  <2>4. ASSUME NEW i \in Issue, NEW r \in Routine
        PROVE  Owed(i, r)' = {} /\ (i \notin hurt' => Owed(i, r) = {})
    <3>1. \A d \in Owed(i, r) : d.judged /\ d.issue = i
      BY <1>0 DEF Shapes, Owed
    <3> QED BY <2>1, <3>1 DEF Owed
  <2> QED BY <2>1, <2>3, <2>4, SameClaims
<1>9. CASE Visit
  <2> DEFINE i == Head(page)
  <2>1. i \in Issue /\ page # <<>> /\ Tail(page) \in Seq(Issue)
    BY <1>0, <1>9 DEF Shapes, Visit
  <2>2. UNCHANGED <<revision, sent, seen, queue, receipts, next, cursor, hurt>>
    BY <1>9 DEF Visit, stores
  <2>3. CASE page' = Tail(page) /\ dispatches' = dispatches
    <3>1. Shapes'
      BY <1>0, <2>1, <2>2, <2>3 DEF Shapes
    <3>2. \A j \in Issue, r \in Routine : Owed(j, r)' = Owed(j, r)
      BY <2>3 DEF Owed
    <3> QED BY <2>2, <2>3, <3>1, <3>2, SameClaims
  <2>4. CASE page' = page /\ dispatches' = dispatches \cup {Begun("poll", revision[i], i)}
    <3>1. revision[i] \in Nat /\ revision[i] \in 0..MaxRevision /\ "poll" \in Via
      BY <1>0, <2>1, IntakeAssumption DEF Shapes, Via
    <3> QED BY <2>1, <2>2, <2>4, <3>1, BeginKeeps
  <2> QED BY <1>9, <2>3, <2>4 DEF Visit
<1>10. CASE Poll \/ Listed \/ PollEnds \/ PollFails
  <2>1. /\ dispatches' = dispatches /\ queue' = queue /\ seen' = seen /\ receipts' = receipts
        /\ hurt' = hurt /\ revision' = revision /\ sent' = sent
    BY <1>10 DEF Poll, Listed, PollEnds, PollFails, stores
  <2>2. page' \in Seq(Issue) /\ next' \in Nat /\ cursor' \in Nat
    <3>1. CASE Listed
      BY <1>0, <3>1, PageTyped DEF Listed, Shapes
    <3>2. CASE Poll
      BY <1>0, <3>2 DEF Poll, Shapes
    <3>3. CASE PollEnds
      BY <1>0, <3>3 DEF PollEnds, Shapes
    <3>4. CASE PollFails
      BY <1>0, <3>4 DEF PollFails, Shapes
    <3> QED BY <1>10, <3>1, <3>2, <3>3, <3>4
  <2>3. Shapes'
    BY <1>0, <2>1, <2>2 DEF Shapes
  <2>4. \A j \in Issue, r \in Routine : Owed(j, r)' = Owed(j, r)
    BY <2>1 DEF Owed
  <2> QED BY <2>1, <2>3, <2>4, SameClaims
<1>11. ASSUME (\E id \in accepted : Forget(id)) \/ UNCHANGED vars PROVE IntakeInv'
  <2>1. /\ dispatches' = dispatches /\ queue' = queue /\ seen' = seen /\ receipts' = receipts
        /\ hurt' = hurt /\ revision' = revision /\ sent' = sent
        /\ page' = page /\ next' = next /\ cursor' = cursor
    BY <1>11 DEF Forget, vars, stores, polling
  <2>2. Shapes'
    BY <1>0, <2>1 DEF Shapes
  <2>3. \A j \in Issue, r \in Routine : Owed(j, r)' = Owed(j, r)
    BY <2>1 DEF Owed
  <2> QED BY <2>1, <2>2, <2>3, SameClaims
<1> QED
  BY <1>1, <1>2, <1>3, <1>4, <1>5, <1>6, <1>7, <1>8, <1>9, <1>10, <1>11
     DEF Next, Dispatches, Polls

(* The inductive invariant is an invariant. *)
LEMMA IntakeAlways == Spec => []IntakeInv
  BY IntakeInit, IntakeStep, PTL DEF Spec

-----------------------------------------------------------------------------
(* A first-seen routine gets at most one row of an issue, however many     *)
(* webhooks and polls report it and whatever is cut off                    *)
(* (dispatchSentryAlert's gate over markIssueSeen).                        *)
THEOREM AlertsTriagedOnce == Spec => []TriagedOnce
<1>1. ASSUME IntakeInv PROVE TriagedOnce
  <2> SUFFICES ASSUME NEW i \in Issue, NEW r \in FirstSeen PROVE Cardinality(Rows(i, r)) <= 1
    BY DEF TriagedOnce
  <2>1. \A a, b \in Rows(i, r) : a = b
    BY <1>1 DEF IntakeInv, Claimed
  <2>2. CASE Rows(i, r) = {}
    BY <2>2, FS_EmptySet
  <2>3. CASE Rows(i, r) # {}
    <3>1. PICK q : Rows(i, r) = {q}
      BY <2>1, <2>3
    <3> QED BY <3>1, FS_Singleton
  <2> QED BY <2>2, <2>3
<1> QED BY <1>1, IntakeAlways, PTL

(* The poll's receipt of a revision is written only when all its rows are  *)
(* in the queue or owed by the delivery that claimed the issue, so the     *)
(* poll never turns away from one that was not delivered (SentryPoller).   *)
THEOREM ReceiptsFollowRows == Spec => []ReceiptAfterRows
<1>1. IntakeInv => ReceiptAfterRows
  BY DEF IntakeInv
<1> QED BY <1>1, IntakeAlways, PTL
=============================================================================
