---------------------------- MODULE DatabasePool ----------------------------
(***************************************************************************)
(* Common/FMDB/FMDatabasePool.m: calls of inDatabase:, inTransaction:,     *)
(* inDeferredTransaction: and inSavePoint: on any threads share the        *)
(* connections of a pool, and connections share one database file.         *)
(*                                                                         *)
(* A call goes through the steps of its method: take a connection, begin,  *)
(* the client's body, end, push the connection back.  Taking and pushing   *)
(* run under executeLocked:, so each is one action.  SQLite's locks on the *)
(* file (rollback journal) are external; a busy statement is retried for   *)
(* ever, busyRetryTimeout being 0, so a statement waits for its lock.      *)
(***************************************************************************)
EXTENDS FMDatabase, FiniteSets

CONSTANTS
    MaxCalls,       \* bound on the calls made
    MaxReleases,    \* bound on the calls of releaseAllDatabases
    MaxFaults,      \* bound on the opens and statements that fail and the
                    \* connections the delegate refuses
    MaxDatabases,   \* maximumNumberOfDatabasesToCreate, 0 for no bound
    None

Calls == 1..MaxCalls        \* numbered in the order they are made
Dbs == 1..MaxCalls          \* numbered as created: a call creates at most one

ASSUME PoolAssumption ==
    /\ {MaxCalls, MaxReleases, MaxFaults, MaxDatabases} \subseteq Nat
    /\ Names = Calls
    /\ None \notin Calls

VARIABLES
    inPool,     \* _databaseInPool
    outPool,    \* _databaseOutPool
    created,    \* how many FMDatabase objects the pool has created
    conns,      \* the levels of a database, None when it is not open
    locks,      \* the lock of a database on the file
    step,       \* what a call does next
    kind,       \* the method of a call
    inside,     \* the call whose body made this one, None if none did
    holds,      \* db, the local variable of a call
    rollback,   \* shouldRollback of a call
    left,       \* the databases whose last call left its transaction open
    releases,   \* the calls of releaseAllDatabases so far
    faults      \* the faults so far

pool == <<inPool, outPool, created>>
call == <<step, kind, inside, holds, rollback>>
vars == <<pool, conns, locks, left, call, releases, faults>>

Kinds == {"db", "tx", "deferred", "sp"}
Steps == {"idle", "begin", "body", "end", "push", "done", "raised"}
Locks == {"none", "shared", "reserved", "exclusive"}

Elements(s) == {s[i] : i \in DOMAIN s}
Last(s) == s[Len(s)]
Front(s) == SubSeq(s, 1, Len(s) - 1)

Init ==
    /\ inPool = <<>>
    /\ outPool = {}
    /\ created = 0
    /\ conns = [d \in Dbs |-> None]
    /\ locks = [d \in Dbs |-> "none"]
    /\ step = [c \in Calls |-> "idle"]
    /\ kind = [c \in Calls |-> None]
    /\ inside = [c \in Calls |-> None]
    /\ holds = [c \in Calls |-> None]
    /\ rollback = [c \in Calls |-> FALSE]
    /\ left = {}
    /\ releases = 0
    /\ faults = 0

(* Mutant of Runs: the calls are asynchronous, as they are in FMDatabaseQueue. *)
RunsAlways(c) == TRUE

(* A body waits for the calls it makes. *)
Runs(c) == \A e \in Calls : inside[e] # c

GoTo(c, s) == step' = [step EXCEPT ![c] = s]
Faulty == faults < MaxFaults /\ faults' = faults + 1

-----------------------------------------------------------------------------
(* The first step of a call that has db. *)
AfterTake(k) == IF k = "db" THEN "body" ELSE "begin"

(* Mutant of BoundReached: > for >=. *)
BoundPassed == MaxDatabases > 0 /\ Cardinality(outPool) + Len(inPool) > MaxDatabases

BoundReached == MaxDatabases > 0 /\ Cardinality(outPool) + Len(inPool) >= MaxDatabases

(* db: no connection is free and the bound is reached: nil. *)
TakeNothing(c) ==
    /\ inPool = <<>>
    /\ BoundReached
    /\ UNCHANGED <<pool, conns, locks, holds, faults>>

(* Mutant of TakeFree: removeLastObject is forgotten. *)
TakeFreeKeeping(c) ==
    /\ inPool # <<>>
    /\ outPool' = outPool \cup {Last(inPool)}
    /\ holds' = [holds EXCEPT ![c] = Last(inPool)]
    /\ UNCHANGED <<inPool, created, conns, locks, faults>>

(* db: the last connection of the pool, which is open.  If the delegate
   refuses it, it is closed, stays in _databaseOutPool and the caller gets
   nil. *)
TakeFree(c) ==
    /\ inPool # <<>>
    /\ inPool' = Front(inPool)
    /\ outPool' = outPool \cup {Last(inPool)}
    /\ \/ /\ holds' = [holds EXCEPT ![c] = Last(inPool)]
          /\ UNCHANGED <<conns, locks, faults>>
       \/ /\ Faulty
          /\ conns' = [conns EXCEPT ![Last(inPool)] = None]
          /\ locks' = [locks EXCEPT ![Last(inPool)] = "none"]
          /\ UNCHANGED holds
    /\ UNCHANGED created

(* db: no connection is free and the bound allows another one.  The caller
   gets nil when it cannot be opened or the delegate refuses it. *)
TakeNew(c) ==
    /\ inPool = <<>>
    /\ ~BoundReached
    /\ created' = created + 1
    /\ \/ /\ outPool' = outPool \cup {created'}
          /\ holds' = [holds EXCEPT ![c] = created']
          /\ conns' = [conns EXCEPT ![created'] = <<>>]
          /\ UNCHANGED faults
       \/ Faulty /\ UNCHANGED <<outPool, holds, conns>>
    /\ UNCHANGED <<inPool, locks>>

(* A call from a thread that is in none (from = None), or from a body: its
   first step is [self db]. *)
MakeCall(c, k, from) ==
    /\ step[c] = "idle" /\ \A b \in 1..(c - 1) : step[b] # "idle"
    /\ from # None => step[from] = "body" /\ Runs(from)
    /\ TakeNothing(c) \/ TakeFree(c) \/ TakeNew(c)
    /\ GoTo(c, AfterTake(k))
    /\ kind' = [kind EXCEPT ![c] = k]
    /\ inside' = [inside EXCEPT ![c] = from]
    /\ UNCHANGED <<left, rollback, releases>>

-----------------------------------------------------------------------------
(* SQLite grants d a lock that goes with those of the other connections. *)
Granted(d, lock) ==
    \A e \in Dbs \ {d} :
        /\ lock = "shared" => locks[e] # "exclusive"
        /\ lock = "reserved" => locks[e] \in {"none", "shared"}
        /\ lock = "exclusive" => locks[e] = "none"

(* Mutant of Effect: beginTransaction: commits, and does nothing to roll back. *)
EffectNoRollback(c, s, levels) ==
    CASE s = "begin" /\ kind[c] \in {"tx", "deferred"} -> Begin(levels)
      [] s = "begin" /\ kind[c] = "sp"                 -> StartSavePoint(levels, c)
      [] s = "body"                                    -> Update(levels, holds[c])
      [] s = "end" /\ kind[c] # "sp" /\ rollback[c]    -> Outcome(TRUE, levels, {}, {})
      [] s = "end" /\ kind[c] # "sp" /\ ~rollback[c]   -> Commit(levels)
      [] s = "end" /\ kind[c] = "sp" /\ rollback[c]    -> RollbackToSavePoint(levels, c)
      [] s = "end" /\ kind[c] = "sp" /\ ~rollback[c]   -> ReleaseSavePoint(levels, c)

(* What the statement of step s of call c does to the levels of db. *)
Effect(c, s, levels) ==
    CASE s = "begin" /\ kind[c] \in {"tx", "deferred"} -> Begin(levels)
      [] s = "begin" /\ kind[c] = "sp"                 -> StartSavePoint(levels, c)
      [] s = "body"                                    -> Update(levels, holds[c])
      [] s = "end" /\ kind[c] # "sp" /\ rollback[c]    -> Rollback(levels)
      [] s = "end" /\ kind[c] # "sp" /\ ~rollback[c]   -> Commit(levels)
      [] s = "end" /\ kind[c] = "sp" /\ rollback[c]    -> RollbackToSavePoint(levels, c)
      [] s = "end" /\ kind[c] = "sp" /\ ~rollback[c]   -> ReleaseSavePoint(levels, c)

(* The lock it needs: begin exclusive and whatever makes writes durable needs
   the file alone, a write in a transaction announces itself. *)
Needs(c, s, levels) ==
    LET done == Effect(c, s, levels)
    IN  CASE ~done.ok                                  -> "none"
          [] s = "begin" /\ kind[c] = "tx"             -> "exclusive"
          [] done.ok /\ done.saved # {}                -> "exclusive"
          [] s = "body" /\ done.ok /\ done.saved = {}  -> "reserved"
          [] OTHER                                     -> "none"

(* The lock d keeps after it: none when its transaction is over. *)
Keeps(d, need, levels) ==
    CASE levels = <<>>                                 -> "none"
      [] levels # <<>> /\ locks[d] = "exclusive"       -> "exclusive"
      [] OTHER -> IF need = "none" THEN locks[d] ELSE need

(* Step s of call c sends one statement to db, which reports ok: nil reports
   NO, a connection does it once its lock is granted, or fails. *)
Statement(c, s, ok) ==
    LET d == holds[c]
        done == Effect(c, s, conns[d])
        need == Needs(c, s, conns[d])
    IN  \/ /\ d = None /\ ~ok
           /\ UNCHANGED <<conns, locks, faults>>
        \/ /\ d # None /\ ok = done.ok
           /\ Granted(d, need)
           /\ conns' = [conns EXCEPT ![d] = done.levels]
           /\ locks' = [locks EXCEPT ![d] = Keeps(d, need, done.levels)]
           /\ UNCHANGED faults
        \/ /\ d # None /\ ~ok
           /\ Faulty
           /\ UNCHANGED <<conns, locks>>

(* beginTransaction: goes on whether BEGIN succeeded or not, inSavePoint: only
   if SAVEPOINT did. *)
BeginStep(c) ==
    /\ step[c] = "begin"
    /\ \E ok \in BOOLEAN :
        /\ Statement(c, "begin", ok)
        /\ GoTo(c, IF kind[c] = "sp" /\ ~ok THEN "push" ELSE "body")
    /\ UNCHANGED <<pool, left, kind, inside, holds, rollback, releases>>

(* The client's body may read in its transaction, *)
Read(c) ==
    /\ step[c] = "body" /\ Runs(c)
    /\ LET d == holds[c] IN
           /\ d # None
           /\ conns[d] # <<>> /\ locks[d] = "none"
           /\ Granted(d, "shared")
           /\ locks' = [locks EXCEPT ![d] = "shared"]
    /\ UNCHANGED <<pool, conns, left, call, releases, faults>>

(* write rows, *)
Write(c) ==
    /\ step[c] = "body" /\ Runs(c)
    /\ holds[c] # None
    /\ \E ok \in BOOLEAN : Statement(c, "body", ok)
    /\ UNCHANGED <<pool, left, call, releases>>

(* and returns with shouldRollback set or not. *)
BodyReturns(c) ==
    /\ step[c] = "body" /\ Runs(c)
    /\ \/ /\ kind[c] = "db"
          /\ GoTo(c, "push")
          /\ UNCHANGED rollback
       \/ /\ kind[c] # "db"
          /\ GoTo(c, "end")
          /\ \E r \in BOOLEAN : rollback' = [rollback EXCEPT ![c] = r]
    /\ UNCHANGED <<pool, conns, locks, left, kind, inside, holds, releases, faults>>

(* The last statement.  The transaction stays open if it fails, and when a
   savepoint rolls back, since ROLLBACK TO keeps the savepoint. *)
EndStep(c) ==
    /\ step[c] = "end"
    /\ \E ok \in BOOLEAN :
        /\ Statement(c, "end", ok)
        /\ left' = CASE ~ok \/ (kind[c] = "sp" /\ rollback[c]) -> (left \cup {holds[c]}) \ {None}
                     [] ok /\ kind[c] # "sp"                   -> left \ {holds[c]}
                     [] OTHER                                  -> left
    /\ GoTo(c, "push")
    /\ UNCHANGED <<pool, kind, inside, holds, rollback, releases>>

(* The method returns or raises, and its local variables are gone. *)
Returns(c, s) ==
    /\ GoTo(c, s)
    /\ kind' = [kind EXCEPT ![c] = None]
    /\ inside' = [inside EXCEPT ![c] = None]
    /\ holds' = [holds EXCEPT ![c] = None]
    /\ rollback' = [rollback EXCEPT ![c] = FALSE]

(* pushDatabaseBackInPool: nil is ignored; a database that is already in the
   pool raises an exception. *)
Push(c) ==
    /\ step[c] = "push"
    /\ IF holds[c] = None
       THEN Returns(c, "done") /\ UNCHANGED <<inPool, outPool>>
       ELSE IF holds[c] \in Elements(inPool)
       THEN Returns(c, "raised") /\ UNCHANGED <<inPool, outPool>>
       ELSE /\ inPool' = Append(inPool, holds[c])
            /\ outPool' = outPool \ {holds[c]}
            /\ Returns(c, "done")
    /\ UNCHANGED <<created, conns, locks, left, releases, faults>>

(* releaseAllDatabases: the databases of the pool are closed as they are
   deallocated; those in use stay with their calls. *)
ReleaseAll ==
    /\ releases < MaxReleases
    /\ releases' = releases + 1
    /\ inPool' = <<>>
    /\ outPool' = {}
    /\ conns' = [d \in Dbs |-> IF d \in Elements(inPool) THEN None ELSE conns[d]]
    /\ locks' = [d \in Dbs |-> IF d \in Elements(inPool) THEN "none" ELSE locks[d]]
    /\ UNCHANGED <<created, left, call, faults>>

Advance(c) ==
    BeginStep(c) \/ Read(c) \/ Write(c) \/ BodyReturns(c) \/ EndStep(c) \/ Push(c)

Next ==
    \/ \E c \in Calls, k \in Kinds, from \in Calls \cup {None} : MakeCall(c, k, from)
    \/ \E c \in Calls : Advance(c)
    \/ ReleaseAll

Spec == Init /\ [][Next]_vars

(* Every thread runs, and every body returns. *)
FairSpec == Spec /\ \A c \in Calls : WF_vars(Advance(c))

-----------------------------------------------------------------------------
InUse(c) == step[c] \in {"begin", "body", "end", "push"} /\ holds[c] # None
Held == {holds[c] : c \in {b \in Calls : InUse(b)}}

(* The types, that only what was created is open, and that a call made from a
   body ends before the body goes on. *)
TypeOK ==
    /\ inPool \in Seq(Dbs)
    /\ outPool \subseteq Dbs
    /\ created \in 0..MaxCalls
    /\ created <= Cardinality({c \in Calls : step[c] # "idle"})
    /\ \A d \in Dbs : conns[d] # None => d <= created /\ conns[d] \in Seq(Level)
    /\ locks \in [Dbs -> Locks]
    /\ step \in [Calls -> Steps]
    /\ kind \in [Calls -> Kinds \cup {None}]
    /\ inside \in [Calls -> Calls \cup {None}]
    /\ \A c \in Calls : inside[c] # None => inside[c] < c /\ step[inside[c]] = "body"
    /\ holds \in [Calls -> Dbs \cup {None}]
    /\ rollback \in [Calls -> BOOLEAN]
    /\ left \subseteq Dbs
    /\ {releases, faults} \subseteq Nat

(* A connection is in one place: used by one call, which no other thread and
   no nested call shares it with, or once in the pool.  The exception of
   pushDatabaseBackInPool: is never raised. *)
Exclusive ==
    /\ \A b, c \in Calls : b # c /\ InUse(b) /\ InUse(c) => holds[b] # holds[c]
    /\ \A c \in Calls : InUse(c) => holds[c] \notin Elements(inPool)
    /\ \A i, j \in DOMAIN inPool : i # j => inPool[i] # inPool[j]
    /\ \A c \in Calls : step[c] # "raised"

(* Until releaseAllDatabases is called the counts are right: a database that
   is in use counts as checked out, one that counts as checked out is in use
   or is closed because the delegate refused it, and there are never more than
   the bound. *)
CountsAgree ==
    releases = 0 =>
        /\ Held \subseteq outPool
        /\ \A d \in outPool \ Held : conns[d] = None
        /\ MaxDatabases > 0 => Cardinality(outPool) + Len(inPool) <= MaxDatabases

(* A connection waits in the pool in autocommit mode and without a lock, unless
   a call that had it left its level open: whoever takes it next starts clean
   and its idling blocks no other connection. *)
CleanInPool ==
    \A d \in Elements(inPool) \ left : conns[d] = <<>> /\ locks[d] = "none"

(* What the header warns of: calls inside calls, two connections with locks on
   the file at once, or a lock left behind
   by a transaction that was left open. *)
MayDeadlock ==
    \/ \E c \in Calls : inside[c] # None
    \/ \E d, e \in Dbs : d # e /\ locks[d] # "none" /\ locks[e] # "none"
    \/ \E d \in left : locks[d] # "none"

(* Otherwise every call returns: exclusive transactions wait for one another
   and for writes outside of transactions, but never for ever. *)
EveryCallReturns ==
    \A c \in Calls : step[c] # "idle" ~> step[c] = "done" \/ MayDeadlock

(* "... we set an upper bound on the # of databases to create"
   (FMDatabasePool.m:67): with a bound there are never more open databases. *)
UpperBound ==
    MaxDatabases > 0 => Cardinality({d \in Dbs : conns[d] # None}) <= MaxDatabases
=============================================================================
