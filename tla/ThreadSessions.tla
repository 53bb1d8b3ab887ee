--------------------------- MODULE ThreadSessions ---------------------------
(***************************************************************************)
(* Thread sessions (errandd/app/sessionManager.ts): which agent session a  *)
(* thread resumes.  The authority is a map in memory; every change is      *)
(* appended to a log through one chain of writes, prunes replace the map   *)
(* and rewrite the log, and a start folds the log back into memory.        *)
(*                                                                         *)
(* Every operation first awaits loadThreads() and goes on with the map it  *)
(* was given, which a prune may have replaced meanwhile.  Continuations of *)
(* an await run in the order of the calls, so the calls that are awaiting  *)
(* form a queue.  A thread's session objects are numbered in the order in  *)
(* which they were made; an object is shared by all maps that hold it, and *)
(* two objects of a thread may carry the same session.                     *)
(*                                                                         *)
(* The cleanup recoverClobberedThreads reads the file beside all that, to  *)
(* put back a session that a placeholder has superseded.                   *)
(***************************************************************************)
EXTENDS Naturals, Sequences, FiniteSets

CONSTANTS
  Thread,
  MaxSessions,  \* bound: sessions the agent ever hands out
  MaxCalls,     \* bound: calls awaiting the map at once
  MaxWrites,    \* bound: writes waiting in the chain at once
  MaxTroubles,  \* bound: prunes, recoveries, failed writes and crashes together
  Torn          \* whether a crash may leave half a line at the end of the log

ASSUME SessionsAssumption ==
  /\ MaxSessions \in Nat /\ MaxTroubles \in Nat
  /\ MaxCalls \in Nat \ {0} /\ MaxWrites \in Nat \ {0}
  /\ Torn \in BOOLEAN

Session == 1..MaxSessions
NoSession == 0
Absent == [sid |-> NoSession, full |-> FALSE, used |-> FALSE, generation |-> 0]

VARIABLES
  heap,     \* the maps made so far; the last one is `cache`, none before a load
  objects,  \* each thread's session objects: the session, whether it is at a
            \* cap and has turns, and its generation
  calls,    \* operations awaiting loadThreads(), each with the map it gets
  staged,   \* pendingRestarts: the generation a thread restarts with, 0 if none
  writes,   \* writeChain: appends and rewrites not yet performed
  log,      \* foldSessionLog of the file, thread by thread
  worn,     \* the sessions with turns in the file's lines of each thread, the
            \* superseded ones too, in their order
  half,     \* the file ends in half a line
  found,    \* what the cleanup under way is going to put back
  made,     \* sessions handed out
  troubles, \* prunes, recoveries, failed writes and crashes so far
  strayed,  \* history: threads written to through a map no longer the cache
  behind,   \* history: threads whose last write failed or was swallowed
  revived   \* history: threads given a session back with a restart staged

memory == <<heap, objects, staged>>
file == <<log, worn, half>>
counts == <<made, troubles>>
history == <<strayed, behind, revived>>
vars == <<heap, objects, calls, staged, writes, file, found, counts, history>>

Op == {"update", "create", "remove", "restart", "prune", "remap"}
Maybe == Session \cup {NoSession}
Image == [sid : Maybe, full : BOOLEAN, used : BOOLEAN, generation : Nat]
Map == [Thread -> Nat]
Call == [op : Op, thread : Thread, map : Nat]
AppendTask == [kind : {"append"}, thread : Thread, object : Nat]
RewriteTask == [kind : {"rewrite"}, map : Nat]

TypeOK ==
  /\ heap \in Seq(Map)
  /\ objects \in [Thread -> Seq(Image)]
  /\ calls \in Seq(Call) /\ Len(calls) <= MaxCalls + 1
  /\ staged \in [Thread -> Nat]
  /\ writes \in Seq(AppendTask \cup RewriteTask) /\ Len(writes) <= MaxWrites + 1
  /\ log \in [Thread -> Image] /\ worn \in [Thread -> Seq(Maybe)]
  /\ half \in BOOLEAN
  /\ found \in [Thread -> Maybe]
  /\ made \in 0..MaxSessions /\ troubles \in 0..MaxTroubles
  /\ strayed \subseteq Thread /\ behind \subseteq Thread /\ revived \subseteq Thread

Init ==
  /\ heap = <<>> /\ calls = <<>> /\ writes = <<>>
  /\ objects = [t \in Thread |-> <<>>]
  /\ staged = [t \in Thread |-> 0]
  /\ log = [t \in Thread |-> Absent] /\ worn = [t \in Thread |-> <<>>]
  /\ half = FALSE
  /\ found = [t \in Thread |-> NoSession]
  /\ made = 0 /\ troubles = 0
  /\ strayed = {} /\ behind = {} /\ revived = {}

-----------------------------------------------------------------------------
cache == Len(heap)
Loaded == cache > 0
ImageOf(t, o) == IF o \in DOMAIN objects[t] THEN objects[t][o] ELSE Absent

(* What the line or the file of a write says of thread t; JSON.stringify   *)
(* runs when the write does, so it shows the objects of that moment.       *)
Shows(w, t) == ImageOf(t, IF w.kind = "append" THEN w.object ELSE heap[w.map][t])
Concerns(w, t) == w.kind = "append" => w.thread = t
Queued(t) == {i \in DOMAIN writes : Concerns(writes[i], t)}

(* foldSessionLog once the queued writes are done: the last line wins.     *)
Folded(t) ==
  IF Queued(t) = {} THEN log[t]
  ELSE Shows(writes[CHOOSE i \in Queued(t) : \A j \in Queued(t) : j <= i], t)

AwaitingOp(op) == {i \in DOMAIN calls : calls[i].op = op}

-----------------------------------------------------------------------------
(* loadThreads: the memoized promise of the map, or of the load in flight. *)
Await(queue, op, t) == Append(queue, [op |-> op, thread |-> t, map |-> cache])

(* Prunes, recoveries, failed writes and crashes share one bound.          *)
Trouble == troubles < MaxTroubles /\ troubles' = troubles + 1

(* An operation is called.  maybeRestartThreadSession answers at once when *)
(* a restart is already staged.  The cleanup awaits one remap before it    *)
(* calls the next.                                                         *)
Invoke(op, t) ==
  /\ Len(calls) < MaxCalls
  /\ op = "restart" => staged[t] = 0
  /\ op = "create" => made + Cardinality(AwaitingOp(op)) < MaxSessions
  /\ IF op = "prune" THEN Trouble ELSE UNCHANGED troubles
  /\ op = "remap" => found[t] # NoSession /\ AwaitingOp(op) = {}
  /\ calls' = Await(calls, op, t)
  /\ UNCHANGED <<memory, writes, file, found, made, history>>

(* rebuild has read the log; everybody waiting for it gets this map.       *)
Load ==
  /\ ~Loaded /\ calls # <<>>
  /\ objects' = [t \in Thread |-> IF log[t] = Absent THEN <<>> ELSE <<log[t]>>]
  /\ heap' = <<[t \in Thread |-> Len(objects'[t])]>>
  /\ calls' = [i \in DOMAIN calls |-> [calls[i] EXCEPT !.map = 1]]
  /\ UNCHANGED <<staged, writes, file, found, counts, history>>

c == Head(calls)
mine == heap[c.map][c.thread]

(* The next operation resumes with the map it was given.                   *)
Resumes(op) == Loaded /\ calls # <<>> /\ c.op = op /\ Len(writes) <= MaxWrites

(* A change was made where the cache does not see it.                      *)
NotesStray ==
  strayed' = IF c.map # cache /\ mine # heap[cache][c.thread]
             THEN strayed \cup {c.thread} ELSE strayed

AppendLine(o) ==
  writes' = Append(writes, [kind |-> "append", thread |-> c.thread, object |-> o])

(* The increments may bring an object to its turn or context cap.          *)
Worked(image, full, turn) ==
  [image EXCEPT !.full = @ \/ full, !.used = @ \/ turn]

(* getThreadSession, markThreadCompactWarned, incrementThreadTurn and      *)
(* recordThreadTurnStats: the object is changed and appended, without one  *)
(* nothing happens.  The last two may bring it to its cap, the third gives *)
(* it a turn.                                                              *)
Update(full, turn) ==
  /\ Resumes("update")
  /\ calls' = Tail(calls)
  /\ IF mine = NoSession THEN UNCHANGED <<objects, writes, strayed>>
     ELSE /\ objects' = [objects EXCEPT ![c.thread][mine] = Worked(@, full, turn)]
          /\ AppendLine(mine)
          /\ NotesStray
  /\ UNCHANGED <<heap, staged, file, found, counts, behind, revived>>

(* Point the thread at another object, or at none, and append that.        *)
Point(o) ==
  /\ heap' = [heap EXCEPT ![c.map][c.thread] = o]
  /\ AppendLine(o)
  /\ strayed' = IF c.map # cache THEN strayed \cup {c.thread} ELSE strayed

(* The thread gets a new object, whatever it had.                          *)
PointAtNew(image) ==
  /\ objects' = [objects EXCEPT ![c.thread] = Append(@, image)]
  /\ Point(Len(objects[c.thread]) + 1)

NewSession ==
  /\ Resumes("create")
  /\ calls' = Tail(calls)
  /\ made < MaxSessions /\ made' = made + 1
  /\ PointAtNew([Absent EXCEPT !.sid = made + 1, !.generation = staged[c.thread]])
  /\ UNCHANGED <<file, found, troubles, behind>>

(* Slip: the new session forgets to consume the staged restart. *)
CreateKeepingRestart == NewSession /\ UNCHANGED <<staged, revived>>

(* createThreadSession: the replacement consumes the staged restart.       *)
Create ==
  /\ NewSession
  /\ staged' = [staged EXCEPT ![c.thread] = 0]
  /\ revived' = revived \ {c.thread}

(* remapThreadSession: the recovered session, with the turns it had, and   *)
(* without its generation.  A staged restart stays staged.                 *)
Remap(full) ==
  /\ Resumes("remap")
  /\ calls' = Tail(calls)
  /\ PointAtNew([Absent EXCEPT !.sid = found[c.thread], !.full = full, !.used = TRUE])
  /\ found' = [found EXCEPT ![c.thread] = NoSession]
  /\ revived' = IF staged[c.thread] > 0 THEN revived \cup {c.thread} ELSE revived
  /\ UNCHANGED <<staged, file, counts, behind>>

(* removeThreadSession: the mapping goes and a tombstone is appended.      *)
Remove ==
  /\ Resumes("remove")
  /\ calls' = Tail(calls)
  /\ IF mine = NoSession THEN UNCHANGED <<heap, writes, strayed>>
     ELSE Point(NoSession)
  /\ UNCHANGED <<objects, staged, file, found, counts, behind, revived>>

(* maybeRestartThreadSession: at a cap, stage the next generation, then    *)
(* call removeThreadSession, which awaits the map again.                   *)
Restart ==
  /\ Resumes("restart")
  /\ IF ~ImageOf(c.thread, mine).full
     THEN calls' = Tail(calls) /\ UNCHANGED staged
     ELSE /\ staged' = [staged EXCEPT ![c.thread] = ImageOf(c.thread, mine).generation + 1]
          /\ calls' = Await(Tail(calls), "remove", c.thread)
  /\ UNCHANGED <<heap, objects, writes, file, found, counts, history>>

(* Slip: a rewrite goes to disk ahead of the appends that wait. *)
PruneOutsideChain(dropped) ==
  /\ Resumes("prune")
  /\ calls' = Tail(calls)
  /\ LET map == heap[c.map]
         gone == {t \in dropped : map[t] # NoSession}
         kept == [t \in Thread |-> IF t \in gone THEN NoSession ELSE map[t]]
     IN  IF gone = {} THEN UNCHANGED <<heap, log, strayed>>
         ELSE /\ heap' = Append(heap, kept)
              /\ log' = [t \in Thread |-> ImageOf(t, kept[t])]
              /\ strayed' = strayed \cup {t \in Thread \ gone : kept[t] # heap[cache][t]}
  /\ UNCHANGED <<objects, staged, writes, worn, half, found, counts, behind, revived>>

(* pruneJobSessions and pruneStaleSessions: `cache` becomes a copy without *)
(* the old threads (which are old is data), and the log is rewritten from  *)
(* it.  With nothing to drop they do nothing.                              *)
Prune(dropped) ==
  /\ Resumes("prune")
  /\ calls' = Tail(calls)
  /\ LET map == heap[c.map]
         gone == {t \in dropped : map[t] # NoSession}
         kept == [t \in Thread |-> IF t \in gone THEN NoSession ELSE map[t]]
     IN  IF gone = {} THEN UNCHANGED <<heap, writes, strayed>>
         ELSE /\ heap' = Append(heap, kept)
              /\ writes' = Append(writes, [kind |-> "rewrite", map |-> Len(heap) + 1])
              /\ strayed' = strayed \cup {t \in Thread \ gone : kept[t] # heap[cache][t]}
  /\ UNCHANGED <<objects, staged, file, found, counts, behind, revived>>

-----------------------------------------------------------------------------
w == Head(writes)

(* The sessions with turns in the lines, once a line shows this image.     *)
Wears(sids, image) ==
  IF image.used /\ (sids = <<>> \/ sids[Len(sids)] # image.sid)
  THEN Append(sids, image.sid) ELSE sids

(* appendFile puts the line at the end of the file.  After half a line it  *)
(* completes that one, which no longer parses and is skipped by the fold.  *)
PerformAppend ==
  /\ writes # <<>> /\ w.kind = "append"
  /\ writes' = Tail(writes)
  /\ half' = FALSE
  /\ IF half THEN UNCHANGED <<log, worn>> /\ behind' = behind \cup {w.thread}
     ELSE /\ log' = [log EXCEPT ![w.thread] = Shows(w, w.thread)]
          /\ worn' = [worn EXCEPT ![w.thread] = Wears(@, Shows(w, w.thread))]
          /\ behind' = behind \ {w.thread}
  /\ UNCHANGED <<memory, calls, found, counts, strayed, revived>>

(* rewriteLog: a temporary file takes the place of the log.                *)
PerformRewrite ==
  /\ writes # <<>> /\ w.kind = "rewrite"
  /\ writes' = Tail(writes)
  /\ half' = FALSE
  /\ log' = [t \in Thread |-> Shows(w, t)]
  /\ worn' = [t \in Thread |-> Wears(<<>>, Shows(w, t))]
  /\ behind' = {}
  /\ UNCHANGED <<memory, calls, found, counts, strayed, revived>>

(* The disk refuses a write: its caller is told, the next one runs.        *)
WriteFails ==
  /\ writes # <<>> /\ Trouble
  /\ writes' = Tail(writes)
  /\ behind' = behind \cup {t \in Thread : Concerns(w, t) /\ Shows(w, t) # log[t]}
  /\ UNCHANGED <<memory, calls, file, found, made, strayed, revived>>

-----------------------------------------------------------------------------
(* findClobberCandidates: the file's last line of the thread shows a       *)
(* session without turns; the latest earlier line of another session that  *)
(* has turns is to be put back, whatever tombstone lies between them.      *)
Superseded(t) ==
  LET older == {i \in DOMAIN worn[t] : worn[t][i] # log[t].sid}
  IN  IF log[t].sid = NoSession \/ log[t].used \/ older = {} THEN NoSession
      ELSE worn[t][CHOOSE i \in older : \A j \in older : j <= i]

(* recoverClobberedThreads, at boot and every hour, reads the file as it   *)
(* is, past the memory and the chain of writes.  It goes on to call remap  *)
(* for the candidates whose transcript shows a skip (`confirmed`, which is *)
(* data), after awaiting each transcript and without another look at the   *)
(* thread.                                                                 *)
ReadLog(confirmed) ==
  /\ Trouble
  /\ \A t \in Thread : found[t] = NoSession
  /\ found' = [t \in Thread |-> IF t \in confirmed THEN Superseded(t) ELSE NoSession]
  /\ UNCHANGED <<memory, calls, writes, file, made, history>>

(* The process is killed; an append under way may leave half its line.     *)
Crash ==
  /\ Loaded /\ Trouble
  /\ heap' = <<>> /\ calls' = <<>> /\ writes' = <<>>
  /\ objects' = [t \in Thread |-> <<>>]
  /\ staged' = [t \in Thread |-> 0] /\ found' = [t \in Thread |-> NoSession]
  /\ half' \in {half, half \/ (Torn /\ writes # <<>> /\ w.kind = "append")}
  /\ strayed' = {} /\ behind' = {} /\ revived' = {}
  /\ UNCHANGED <<log, worn, made>>

Next ==
  \/ \E op \in Op, t \in Thread : Invoke(op, t)
  \/ Load
  \/ \E full, turn \in BOOLEAN : Update(full, turn)
  \/ Create \/ Remove \/ Restart
  \/ \E full \in BOOLEAN : Remap(full)
  \/ \E dropped \in SUBSET Thread : Prune(dropped)
  \/ PerformAppend \/ PerformRewrite \/ WriteFails
  \/ \E confirmed \in SUBSET Thread : ReadLog(confirmed)
  \/ Crash

Spec == Init /\ [][Next]_vars

-----------------------------------------------------------------------------
(* Memory is what a restart would fold once the queued writes are done,    *)
(* thread by thread, whatever creations, removals, increments, prunes and  *)
(* failed writes overlap.  Two kinds of threads are not covered: one that  *)
(* was written through a map a prune had already replaced, until a         *)
(* restart, and one whose last write did not reach the disk, until the     *)
(* next write of it or the next prune does.                                *)
LogAgreesWithMemory ==
  Loaded => \A t \in Thread \ (strayed \cup behind) :
    ImageOf(t, heap[cache][t]) = Folded(t)

(* A thread with a staged restart has no session to resume, once the       *)
(* removal that staging calls has run: a run that carries the summary over *)
(* never also resumes the transcript it replaces.  Not covered are threads *)
(* written through a replaced map, and those to which the cleanup gave a   *)
(* session back while the restart was staged, until it is consumed.        *)
StagedRestartStartsFresh ==
  \A t \in Thread \ (strayed \cup revived) :
    staged[t] > 0 /\ (\A i \in DOMAIN calls : calls[i].thread # t)
      => heap[cache][t] = NoSession

(* "the thread's session mapping is dropped (so the next run starts FRESH  *)
(* rather than resuming)" (360-361), for every thread written only through *)
(* the current map.  It does not hold: see Remap (README).                 *)
NothingToResume ==
  \A t \in Thread \ strayed :
    staged[t] > 0 /\ (\A i \in DOMAIN calls : calls[i].thread # t)
      => heap[cache][t] = NoSession

(* An append that was acknowledged is what a restart will find ("a torn    *)
(* trailing line from a crash mid-append must never poison the whole       *)
(* store", 105-106; "they can't corrupt the file or clobber an unrelated   *)
(* thread", 45-46).  It does not hold after a torn line (README).          *)
AcknowledgedIsInTheLog ==
  [][PerformAppend => log'[w.thread] = Shows(w, w.thread)]_vars
=============================================================================
