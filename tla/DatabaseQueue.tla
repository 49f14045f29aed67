---------------------------- MODULE DatabaseQueue ----------------------------
(***************************************************************************)
(* Common/FMDB/FMDatabaseQueue.m: one connection, one serial queue, and    *)
(* blocks that run on the queue inside a transaction, inside a savepoint   *)
(* or bare.  The methods return as soon as the block is queued, so a block *)
(* that submits another one is not waiting for it.                         *)
(*                                                                         *)
(* A task goes through the steps of its block in order: begin, the         *)
(* client's body (which writes one row, named after the task), end.  Each  *)
(* step asks for [self database], which reopens a closed connection.       *)
(***************************************************************************)
EXTENDS FMDatabase, FiniteSets

CONSTANTS
    MaxTasks,       \* bound on the blocks submitted
    MaxCloses,      \* bound on the calls of close
    MaxFailures,    \* bound on the statements and opens that fail
    None

Tasks == 1..MaxTasks        \* numbered in the order of their submission
Closes == -MaxCloses..-1    \* what close runs on the queue

ASSUME QueueAssumption ==
    /\ {MaxTasks, MaxCloses, MaxFailures} \subseteq Nat
    /\ Names = Tasks
    /\ None \notin Tasks \cup Closes
    /\ None \notin {"db", "tx", "sp", "commit", "rollback"} /\ None \notin Seq(Level)

VARIABLES
    queue,      \* _queue: tasks and closes still to run
    conn,       \* the levels of _db, None when it is nil
    disk,       \* the rows that are durable
    running,    \* the task whose block is running, None if none
    step,       \* "begin", "body", "end" or "done": the next step of its block
    kind,       \* "db", "tx" or "sp" of a submitted task, None of another
    inside,     \* the task a task was submitted from, None from elsewhere
    asked,      \* "commit" or "rollback": what the body asked for
    failed,     \* the steps of a task whose statement reported NO
    finished,   \* the tasks whose block has returned
    closes,     \* the calls of close so far
    failures    \* the failures so far

vars == <<queue, conn, disk, running, step, kind, inside, asked, failed, finished, closes, failures>>

Kinds == {"db", "tx", "sp"}

Init ==
    /\ queue = <<>>
    /\ conn = <<>>
    /\ disk = {}
    /\ running = None
    /\ step = "begin"
    /\ kind = [t \in Tasks |-> None]
    /\ inside = [t \in Tasks |-> None]
    /\ asked = [t \in Tasks |-> None]
    /\ failed = [t \in Tasks |-> {}]
    /\ finished = {}
    /\ closes = 0
    /\ failures = 0

-----------------------------------------------------------------------------
(* Mutant of Submit: a block is dropped once the connection is closed. *)
SubmitIfOpen(t, k, from) ==
    /\ kind[t] = None /\ \A s \in 1..(t - 1) : kind[s] # None
    /\ from # None => running = from /\ step = "body"
    /\ queue' = IF conn = None THEN queue ELSE Append(queue, t)
    /\ kind' = [kind EXCEPT ![t] = k]
    /\ inside' = [inside EXCEPT ![t] = from]
    /\ UNCHANGED <<conn, disk, running, step, asked, failed, finished, closes, failures>>

(* inDatabase:, inTransaction: and inSavePoint: queue a block and return; the
   caller is the body of the running task or any other thread. *)
Submit(t, k, from) ==
    /\ kind[t] = None /\ \A s \in 1..(t - 1) : kind[s] # None
    /\ from # None => running = from /\ step = "body"
    /\ queue' = Append(queue, t)
    /\ kind' = [kind EXCEPT ![t] = k]
    /\ inside' = [inside EXCEPT ![t] = from]
    /\ UNCHANGED <<conn, disk, running, step, asked, failed, finished, closes, failures>>

(* close from another thread waits for its turn on the queue. *)
CallClose ==
    /\ closes < MaxCloses
    /\ closes' = closes + 1
    /\ queue' = Append(queue, -closes')
    /\ UNCHANGED <<conn, disk, running, step, kind, inside, asked, failed, finished, failures>>

RunClose ==
    /\ running = None
    /\ queue # <<>> /\ Head(queue) \in Closes
    /\ queue' = Tail(queue)
    /\ conn' = None
    /\ UNCHANGED <<disk, running, step, kind, inside, asked, failed, finished, closes, failures>>

Take ==
    /\ running = None
    /\ queue # <<>> /\ Head(queue) \in Tasks
    /\ running' = Head(queue)
    /\ queue' = Tail(queue)
    /\ step' = "begin"
    /\ UNCHANGED <<conn, disk, kind, inside, asked, failed, finished, closes, failures>>

-----------------------------------------------------------------------------
Fails == failures < MaxFailures /\ failures' = failures + 1

(* [self database]: D is what it returns, nil if the connection is closed and
   cannot be reopened. *)
Database(D) ==
    IF conn # None THEN D = conn /\ UNCHANGED failures
    ELSE \/ D = <<>> /\ UNCHANGED failures
         \/ D = None /\ Fails

Report(success) ==
    failed' = IF success THEN failed ELSE [failed EXCEPT ![running] = @ \cup {step}]

(* Mutant of Ending: the test of shouldRollback is inverted. *)
EndingInverted(levels) ==
    CASE kind[running] = "tx" /\ asked[running] = "commit"   -> Rollback(levels)
      [] kind[running] = "tx" /\ asked[running] = "rollback" -> Commit(levels)
      [] kind[running] = "sp" /\ asked[running] = "commit"   -> RollbackToSavePoint(levels, running)
      [] kind[running] = "sp" /\ asked[running] = "rollback" -> ReleaseSavePoint(levels, running)

(* Mutant of Ending: inTransaction: commits, and does nothing to roll back. *)
EndingNoRollback(levels) ==
    CASE kind[running] = "tx" /\ asked[running] = "commit"   -> Commit(levels)
      [] kind[running] = "tx" /\ asked[running] = "rollback" -> Outcome(TRUE, levels, {}, {})
      [] kind[running] = "sp" /\ asked[running] = "commit"   -> ReleaseSavePoint(levels, running)
      [] kind[running] = "sp" /\ asked[running] = "rollback" -> RollbackToSavePoint(levels, running)

(* The last statement of a block. *)
Ending(levels) ==
    CASE kind[running] = "tx" /\ asked[running] = "commit"   -> Commit(levels)
      [] kind[running] = "tx" /\ asked[running] = "rollback" -> Rollback(levels)
      [] kind[running] = "sp" /\ asked[running] = "commit"   -> ReleaseSavePoint(levels, running)
      [] kind[running] = "sp" /\ asked[running] = "rollback" -> RollbackToSavePoint(levels, running)

(* What the statement of the step does to the levels of a connection. *)
Effect(levels) ==
    CASE step = "begin" /\ kind[running] = "tx" -> Begin(levels)
      [] step = "begin" /\ kind[running] = "sp" -> StartSavePoint(levels, running)
      [] step = "body"                          -> Update(levels, running)
      [] step = "end"                           -> Ending(levels)

(* The statement is sent to [self database]: a connection does its effect or
   fails, nil does nothing and reports NO. *)
Execute ==
    \/ \E D \in {<<>>, conn} \ {None} :
        /\ Database(D)
        /\ Report(Effect(D).ok)
        /\ conn' = Effect(D).levels
        /\ disk' = disk \cup Effect(D).saved
    \/ /\ Fails
       /\ Report(FALSE)
       /\ conn' = IF conn = None THEN <<>> ELSE conn
       /\ UNCHANGED disk
    \/ /\ Database(None)
       /\ Report(FALSE)
       /\ UNCHANGED <<conn, disk>>

(* The first step of a block.  inTransaction: goes on whether BEGIN succeeded
   or not, inSavePoint: only if SAVEPOINT did. *)
BeginStep ==
    /\ running # None /\ step = "begin"
    /\ \/ /\ kind[running] = "db"
          /\ \E D \in {<<>>, conn, None} : Database(D) /\ conn' = D
          /\ step' = "body"
          /\ UNCHANGED <<disk, failed>>
       \/ /\ kind[running] = "tx"
          /\ Execute
          /\ step' = "body"
       \/ /\ kind[running] = "sp"
          /\ Execute
          /\ step' = IF "begin" \in failed'[running] THEN "done" ELSE "body"
    /\ UNCHANGED <<queue, running, kind, inside, asked, finished, closes>>

(* Mutant of CallsReturned: dispatch_sync instead of dispatch_async. *)
CallsReturnedSync(t) == \A s \in Tasks : inside[s] = t => s \in finished

(* Whether the methods the body of t called have returned: dispatch_async does
   not wait for the block. *)
CallsReturned(t) == TRUE

(* The client's body writes its row and chooses how to end.  The body of
   inDatabase: has the connection the first step got, or nil. *)
Body ==
    /\ running # None /\ step = "body"
    /\ CallsReturned(running)
    /\ \/ /\ kind[running] = "db"
          /\ \/ /\ conn # None
                /\ Execute
             \/ /\ conn = None
                /\ Report(FALSE)
                /\ UNCHANGED <<conn, disk, failures>>
          /\ asked' = [asked EXCEPT ![running] = "commit"]
          /\ step' = "done"
       \/ /\ kind[running] # "db"
          /\ Execute
          /\ \E a \in {"commit", "rollback"} : asked' = [asked EXCEPT ![running] = a]
          /\ step' = "end"
    /\ UNCHANGED <<queue, running, kind, inside, finished, closes>>

EndStep ==
    /\ running # None /\ step = "end"
    /\ Execute
    /\ step' = "done"
    /\ UNCHANGED <<queue, running, kind, inside, asked, finished, closes>>

Finish ==
    /\ running # None /\ step = "done"
    /\ finished' = finished \cup {running}
    /\ running' = None
    /\ UNCHANGED <<queue, conn, disk, step, kind, inside, asked, failed, closes, failures>>

Next ==
    \/ \E t \in Tasks, k \in Kinds, from \in Tasks \cup {None} : Submit(t, k, from)
    \/ CallClose
    \/ RunClose \/ Take \/ BeginStep \/ Body \/ EndStep \/ Finish

(* The system gives a queue with work a thread, and the bodies return. *)
Work == RunClose \/ Take \/ BeginStep \/ Body \/ EndStep \/ Finish

Spec == Init /\ [][Next]_vars /\ WF_vars(Work)

-----------------------------------------------------------------------------
Elements(s) == {s[i] : i \in DOMAIN s}

(* The types, and that a submitted task is queued, running or finished. *)
TypeOK ==
    /\ queue \in Seq(Tasks \cup Closes)
    /\ conn # None => conn \in Seq(Level)
    /\ disk \subseteq Tasks
    /\ running \in Tasks \cup {None}
    /\ step \in {"begin", "body", "end", "done"}
    /\ kind \in [Tasks -> Kinds \cup {None}]
    /\ inside \in [Tasks -> Tasks \cup {None}]
    /\ asked \in [Tasks -> {"commit", "rollback", None}]
    /\ failed \in [Tasks -> SUBSET {"begin", "body", "end"}]
    /\ finished \subseteq Tasks
    /\ {t \in Tasks : kind[t] # None} =
           (Elements(queue) \cap Tasks) \cup ({running} \ {None}) \cup finished

(* The tasks that end and leave their transaction or savepoint open: those
   whose last statement failed, and every savepoint that rolls back, since
   ROLLBACK TO keeps the savepoint. *)
LeavesOpen(t) ==
    /\ t \in finished
    /\ kind[t] \in {"tx", "sp"} /\ "begin" \notin failed[t]
    /\ "end" \in failed[t] \/ (kind[t] = "sp" /\ asked[t] = "rollback")

(* Between two blocks the connection is in autocommit mode, unless a block
   that leaves its level open came before: nothing else makes one client's
   transaction swallow another's statements. *)
OpenOnlyIfLeft ==
    running = None /\ conn \notin {None, <<>>} => \E t \in Tasks : LeavesOpen(t)

(* What a block rolls back is not durable, even when its BEGIN failed and it
   ran inside the transaction of an earlier block or in autocommit mode,
   unless the rollback itself reported NO - which no client sees. *)
RollbackUndoes ==
    \A t \in finished : asked[t] = "rollback" /\ t \in disk => "end" \in failed[t]

(* What a block writes and commits with no failure is durable when the block
   returns, unless it ran inside a level an earlier block left open. *)
CommitIsDurable ==
    \A t \in finished :
        asked[t] = "commit" /\ failed[t] \cap {"body", "end"} = {}
            => t \in disk \/ \E s \in Tasks : s < t /\ LeavesOpen(s)

(* A block submitted from inside another one, or a close, waits for no one that
   waits for it: every block runs to its end and every close returns. *)
EveryCallRuns ==
    /\ \A t \in Tasks : kind[t] # None ~> t \in finished
    /\ \A k \in Closes : k \in Elements(queue) ~> k \notin Elements(queue)

(* "NOTE: you can not nest these, since calling it will pull another database
   out of the pool and you'll get a deadlock." (FMDatabaseQueue.h:34): a
   savepoint block that submits another never sees both end. *)
NestingDeadlocks ==
    \A s, t \in finished : inside[t] = s => {kind[s], kind[t]} # {"sp"}
=============================================================================
