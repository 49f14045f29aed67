----------------------------- MODULE Statements -----------------------------
(***************************************************************************)
(* The statements of one connection (Common/FMDB/FMDatabase.m) and the     *)
(* result sets that step through them (FMResultSet.m): prepared for one    *)
(* call, or cached by their SQL and shared by every result set of that     *)
(* SQL.                                                                    *)
(*                                                                         *)
(* A connection is used by one thread at a time.  A call of executeQuery:, *)
(* executeUpdate: or next takes several steps because SQLite may answer    *)
(* BUSY or LOCKED, and then the call asks again.                           *)
(***************************************************************************)
EXTENDS Naturals, FiniteSets

CONSTANTS
    Queries,            \* SQL that yields rows
    Updates,            \* SQL that does not
    RowCount,           \* how many rows each query yields
    Args,               \* arguments that fit the parameters of a statement
    Miscount,           \* a dictionary without a parameter, or with a wrong one
    Short,              \* an array with too few elements
    BusyRetryTimeout,   \* busyRetryTimeout: 0 is no limit
    StatementIds,       \* bound on the statements that exist at one time
    ResultSetIds,       \* bound on the result sets a client holds at one time
    None

SQL == Queries \cup Updates

ASSUME StatementsAssumption ==
    /\ Queries \cap Updates = {}
    /\ RowCount \in [Queries -> Nat]
    /\ BusyRetryTimeout \in Nat
    /\ Miscount \notin Args /\ Short \notin Args /\ Miscount # Short
    /\ None \notin SQL \cup Args \cup {Miscount, Short} \cup StatementIds \cup ResultSetIds

VARIABLES
    db,         \* _db: the connection is open
    caching,    \* _shouldCacheStatements
    cached,     \* _cachedStatements: the statement of each SQL, None if none
    stmt,       \* the statements that exist
    sets,       \* the FMResultSet objects clients hold
    openSets,   \* _openResultSets: unretained pointers to them
    executing,  \* _isExecutingStatement
    call,       \* the call in progress, None if none
    disturbed,  \* result sets whose cached statement another call has used
    miscounted, \* a cached statement was given a wrong number of arguments
    raised,     \* a call ended by an exception: an array was too short, or an update was a query
    undefined   \* SQLite was handed a statement it had finalized

vars == <<db, caching, cached, stmt, sets, openSets, executing, call,
          disturbed, miscounted, raised, undefined>>

(* native is what has become of the sqlite3_stmt: live, finalized by the error
   path while its FMStatement still points to it, closed with the pointer
   cleared, or leaked, with nothing of the program pointing to it. *)
Statement == [arg : Args \cup {None}, pos : Nat,
              native : {"live", "finalized", "closed", "leaked"}]

ResultSet == [sql : Queries, arg : Args, stmt : StatementIds \cup {None},
              parent : BOOLEAN,  \* _parentDB is not nil
              read : Nat,        \* rows read, of its own and in their order
              own : BOOLEAN,     \* no other row was read
              ended : BOOLEAN]   \* SQLite said there are no more

Call == [kind : {"query", "update", "next"}, phase : {"prepare", "bind", "step"},
         sql : SQL, args : Args \cup {Miscount, Short, None},
         stmt : StatementIds \cup {None}, set : ResultSetIds \cup {None}, tries : Nat]

ASSUME NoneAssumption == None \notin Statement /\ None \notin ResultSet /\ None \notin Call

Init ==
    /\ db = FALSE /\ caching = FALSE
    /\ cached = [q \in SQL |-> None]
    /\ stmt = [s \in StatementIds |-> None]
    /\ sets = [r \in ResultSetIds |-> None]
    /\ openSets = {}
    /\ executing = FALSE /\ call = None
    /\ disturbed = {}
    /\ miscounted = FALSE /\ raised = FALSE /\ undefined = FALSE

-----------------------------------------------------------------------------
Finalized(st, s) == s # None /\ st[s] # None /\ st[s].native = "finalized"

Cached == {cached[q] : q \in SQL} \ {None}

Holders(s) == {r \in ResultSetIds : s # None /\ sets[r] # None /\ sets[r].stmt = s}

(* The statements an FMStatement or the running method refers to. *)
Held == Cached \cup {s \in StatementIds : Holders(s) # {} \/ (call # None /\ call.stmt = s)}

(* Every step ends so: an FMStatement nobody holds any more is deallocated,
   which finalizes what it points to; and the step, or that, may have handed
   SQLite a statement it had finalized before. *)
Settle(st, misuse) ==
    /\ stmt' = [s \in StatementIds |->
           IF st[s] # None /\ (st[s].native = "leaked" \/ s \in Held') THEN st[s] ELSE None]
    /\ undefined' = (misuse \/ \E s \in StatementIds : Finalized(st, s) /\ s \notin Held')

(* Mutant of Reset: a statement keeps its position. *)
ResetNot(st, s) == st

(* -[FMStatement reset] *)
Reset(st, s) ==
    IF s # None /\ st[s] # None /\ st[s].native = "live"
    THEN [st EXCEPT ![s].pos = 0] ELSE st

(* Mutant of GivesUp: one more. *)
GivesUpLate == BusyRetryTimeout # 0 /\ call.tries > BusyRetryTimeout + 1

(* _busyRetryTimeout && (numberOfRetries++ > _busyRetryTimeout) *)
GivesUp == BusyRetryTimeout # 0 /\ call.tries > BusyRetryTimeout

(* Mutant of AskAgain: at the limit the counting starts again. *)
AskAgainFromZero == call' = [call EXCEPT !.tries = IF GivesUp THEN 0 ELSE @ + 1]

AskAgain ==
    /\ ~GivesUp
    /\ call' = [call EXCEPT !.tries = IF BusyRetryTimeout = 0 THEN 0 ELSE @ + 1]

Idle == call = None /\ ~undefined

Room == /\ \E s \in StatementIds : stmt[s] = None
        /\ \E r \in ResultSetIds : sets[r] = None

(* One unused identifier is as good as another. *)
Unused(objects, ids) == CHOOSE i \in ids : objects[i] = None

-----------------------------------------------------------------------------
(* A failing sqlite3_open leaves a handle as well, so that the connection counts
   as open; what is executed on it fails to be prepared. *)
Open ==
    /\ Idle /\ ~db
    /\ db' = TRUE
    /\ UNCHANGED <<caching, cached, stmt, sets, openSets, executing, call,
                   disturbed, miscounted, raised, undefined>>

(* executeQuery: and executeUpdate: up to their first call of SQLite; without a
   connection, or inside another of these calls, they return at once. *)
Execute(kind, sql, args) ==
    LET s == IF caching THEN cached[sql] ELSE None
    IN  /\ Idle /\ Room
        /\ db /\ ~executing
        /\ executing' = TRUE
        /\ call' = [kind |-> kind, phase |-> IF s = None THEN "prepare" ELSE "bind",
                    sql |-> sql, args |-> args, stmt |-> s, set |-> None, tries |-> 0]
        /\ disturbed' = disturbed \cup Holders(s)
        /\ UNCHANGED <<db, caching, cached, sets, openSets, miscounted, raised>>
        /\ Settle(Reset(stmt, s), Finalized(stmt, s))

(* Mutant of PrepareFails: the flag is left up. *)
PrepareFailsInUse ==
    /\ call' = None
    /\ UNCHANGED <<executing, stmt, undefined>>

PrepareFails ==
    /\ call' = None
    /\ executing' = FALSE
    /\ UNCHANGED <<stmt, undefined>>

(* sqlite3_prepare_v2 answers: OK, busy or locked, or an error. *)
Prepare ==
    /\ call # None /\ call.phase = "prepare" /\ ~undefined
    /\ \/ LET s == Unused(stmt, StatementIds) IN
           /\ stmt' = [stmt EXCEPT ![s] = [arg |-> None, pos |-> 0, native |-> "live"]]
           /\ call' = [call EXCEPT !.phase = "bind", !.stmt = s, !.tries = 0]
           /\ UNCHANGED <<executing, undefined>>
       \/ AskAgain /\ UNCHANGED <<executing, stmt, undefined>>
       \/ PrepareFails
    /\ UNCHANGED <<db, caching, cached, sets, openSets, disturbed, miscounted, raised>>

(* The running call prepared its statement itself. *)
Fresh == call.stmt \notin Cached

(* setCachedStatement:forQuery: of a statement just prepared. *)
Remember ==
    IF caching /\ Fresh THEN [cached EXCEPT ![call.sql] = call.stmt] ELSE cached

(* The number of arguments is wrong: the statement is finalized, also when it
   is the cached one. *)
BindMiscounts ==
    /\ call.args = Miscount
    /\ call' = None
    /\ executing' = FALSE
    /\ miscounted' = (miscounted \/ ~Fresh)
    /\ UNCHANGED <<cached, sets, openSets, disturbed, raised>>
    /\ Settle(IF Fresh THEN [stmt EXCEPT ![call.stmt] = None]
              ELSE [stmt EXCEPT ![call.stmt].native = "finalized"], FALSE)

(* -objectAtIndex: raises and nothing below it is executed. *)
BindRaises ==
    /\ call.args = Short
    /\ call' = None
    /\ raised' = TRUE
    /\ UNCHANGED <<cached, sets, openSets, executing, disturbed, miscounted>>
    /\ Settle(IF Fresh THEN [stmt EXCEPT ![call.stmt].native = "leaked"]
              ELSE [stmt EXCEPT ![call.stmt].arg = None], FALSE)

(* The arguments fit, and a query returns a result set. *)
BindQuery(r) ==
    /\ call.args \in Args /\ call.kind = "query"
    /\ r = Unused(sets, ResultSetIds)
    /\ sets' = [sets EXCEPT ![r] = [sql |-> call.sql, arg |-> call.args, stmt |-> call.stmt,
                    parent |-> TRUE, read |-> 0, own |-> TRUE, ended |-> FALSE]]
    /\ openSets' = openSets \cup {r}
    /\ cached' = Remember
    /\ disturbed' = (disturbed \ {r}) \cup (IF Holders(call.stmt) = {} THEN {} ELSE {r})
    /\ call' = None
    /\ executing' = FALSE
    /\ UNCHANGED <<miscounted, raised>>
    /\ Settle([stmt EXCEPT ![call.stmt].arg = call.args], FALSE)

(* The arguments fit, and executeUpdate: goes on to its first sqlite3_step.
   What an update is bound to shows in no row. *)
BindUpdate ==
    /\ call.args \in Args /\ call.kind = "update"
    /\ call' = [call EXCEPT !.phase = "step", !.tries = 0]
    /\ UNCHANGED <<cached, sets, openSets, executing, disturbed, miscounted, raised>>
    /\ Settle(IF call.sql \in Queries THEN [stmt EXCEPT ![call.stmt].arg = call.args]
              ELSE stmt, FALSE)

Bind ==
    /\ call # None /\ call.phase = "bind" /\ ~undefined
    /\ BindMiscounts \/ BindRaises \/ (\E r \in ResultSetIds : BindQuery(r)) \/ BindUpdate
    /\ UNCHANGED <<db, caching>>

(* A query was given to executeUpdate:, and its step returns a row: NSAssert1
   raises, and nothing below it is executed.  A build without assertions goes on
   as if the step had failed. *)
UpdateRaises ==
    /\ call.sql \in Queries /\ RowCount[call.sql] > 0
    /\ call' = None
    /\ raised' = TRUE
    /\ UNCHANGED <<cached, executing>>
    /\ Settle(IF Fresh THEN [stmt EXCEPT ![call.stmt].native = "leaked"]
              ELSE [stmt EXCEPT ![call.stmt].pos = 1], FALSE)

(* sqlite3_step answers busy or locked, and is asked again; or a row; or anything
   else, and the statement is reset for the cache or finalized. *)
StepUpdate ==
    /\ call # None /\ call.kind = "update" /\ call.phase = "step" /\ ~undefined
    /\ UNCHANGED <<db, caching, sets, openSets, disturbed, miscounted>>
    /\ \/ AskAgain /\ UNCHANGED <<cached, stmt, executing, raised, undefined>>
       \/ /\ call' = None
          /\ executing' = FALSE
          /\ cached' = Remember
          /\ UNCHANGED raised
          /\ Settle(Reset(stmt, call.stmt), FALSE)
       \/ UpdateRaises

-----------------------------------------------------------------------------
(* -[FMResultSet close]: its statement and its parent are let go. *)
ClosedSet(rs) == [rs EXCEPT !.stmt = None, !.parent = FALSE]

(* resultSetDidClose:, sent to the parent if there still is one. *)
DidClose(r) == IF sets[r].parent THEN openSets \ {r} ELSE openSets

(* -[FMResultSet next].  A closed result set steps a null statement, which is
   misuse to SQLite, and next returns NO. *)
Next(r) ==
    /\ Idle
    /\ sets[r] # None /\ sets[r].stmt # None
    /\ call' = [kind |-> "next", phase |-> "step", sql |-> sets[r].sql, args |-> None,
                stmt |-> sets[r].stmt, set |-> r, tries |-> 0]
    /\ UNCHANGED <<db, caching, cached, stmt, sets, openSets, executing,
                   disturbed, miscounted, raised, undefined>>

(* The row at the position of the statement is the next one of rs. *)
IsOwnRow(rs) == stmt[rs.stmt].arg = rs.arg /\ stmt[rs.stmt].pos = rs.read

YieldRow(r) ==
    LET rs == sets[r]
        s  == rs.stmt
    IN  /\ stmt[s].native = "live" /\ stmt[s].pos < RowCount[rs.sql]
        /\ sets' = [sets EXCEPT ![r] =
               IF rs.own /\ IsOwnRow(rs) THEN [rs EXCEPT !.read = @ + 1]
               ELSE [rs EXCEPT !.own = FALSE]]
        /\ stmt' = [stmt EXCEPT ![s].pos = @ + 1]
        /\ call' = None
        /\ UNCHANGED <<openSets, undefined>>

(* SQLite has no more rows, reports an error or misuse, or stays busy: next
   closes the result set, and to its caller that is all the same. *)
EndRows(r) ==
    LET rs == sets[r]
        s  == rs.stmt
    IN  /\ sets' = [sets EXCEPT ![r] = ClosedSet([rs EXCEPT !.ended =
               stmt[s].native = "live" /\ stmt[s].pos = RowCount[rs.sql]])]
        /\ openSets' = DidClose(r)
        /\ call' = None
        /\ Settle(Reset(stmt, s), Finalized(stmt, s))

(* An answer to the sqlite3_step of next.  A statement past its first row has
   its lock and is not busy, which is SQLite's promise to a connection whose
   cache is not shared: the code asks again at any row. *)
StepNext ==
    /\ call # None /\ call.kind = "next" /\ ~undefined
    /\ UNCHANGED <<db, caching, cached, executing, disturbed, miscounted, raised>>
    /\ \/ YieldRow(call.set)
       \/ EndRows(call.set)
       \/ /\ stmt[call.stmt].native = "live" /\ stmt[call.stmt].pos = 0
          /\ AskAgain
          /\ UNCHANGED <<stmt, sets, openSets, undefined>>

CloseResultSet(r) ==
    /\ Idle /\ sets[r] # None /\ sets[r].stmt # None
    /\ sets' = [sets EXCEPT ![r] = ClosedSet(@)]
    /\ openSets' = DidClose(r)
    /\ UNCHANGED <<db, caching, cached, executing, call, disturbed, miscounted, raised>>
    /\ Settle(Reset(stmt, sets[r].stmt), Finalized(stmt, sets[r].stmt))

(* Mutant of Dealloc: the result set is not closed first. *)
DeallocUnclosed(r) ==
    /\ Idle /\ sets[r] # None
    /\ sets' = [sets EXCEPT ![r] = None]
    /\ disturbed' = disturbed \ {r}
    /\ UNCHANGED <<db, caching, cached, openSets, executing, call, miscounted, raised>>
    /\ Settle(stmt, FALSE)

(* -[FMResultSet dealloc] closes it. *)
Dealloc(r) ==
    /\ Idle /\ sets[r] # None
    /\ sets' = [sets EXCEPT ![r] = None]
    /\ openSets' = DidClose(r)
    /\ disturbed' = disturbed \ {r}
    /\ UNCHANGED <<db, caching, cached, executing, call, miscounted, raised>>
    /\ Settle(Reset(stmt, sets[r].stmt), Finalized(stmt, sets[r].stmt))

-----------------------------------------------------------------------------
(* Mutant of ClosedCache: -[FMStatement close] keeps the pointer. *)
ClosedCacheDangling(st) ==
    [s \in StatementIds |-> IF s \in Cached THEN [st[s] EXCEPT !.native = "finalized"] ELSE st[s]]

(* clearCachedStatements: a result set may still hold a closed statement. *)
ClosedCache(st) ==
    [s \in StatementIds |-> IF s \in Cached THEN [st[s] EXCEPT !.native = "closed"] ELSE st[s]]

ClearCachedStatements ==
    /\ Idle
    /\ cached' = [q \in SQL |-> None]
    /\ UNCHANGED <<db, caching, sets, openSets, executing, call, disturbed, miscounted, raised>>
    /\ Settle(ClosedCache(stmt), \E s \in Cached : Finalized(stmt, s))

(* closeOpenResultSets; a statement several of them hold is reset once more. *)
ResetOpen(st) ==
    [s \in StatementIds |-> IF Holders(s) \cap openSets = {} THEN st[s] ELSE Reset(st, s)[s]]

(* Mutant of AllClosed: the open result sets are forgotten, not closed. *)
AllClosedNot == sets

AllClosed == [r \in ResultSetIds |-> IF r \in openSets THEN ClosedSet(sets[r]) ELSE sets[r]]

CloseOpenResultSets ==
    /\ Idle
    /\ sets' = AllClosed
    /\ openSets' = {}
    /\ UNCHANGED <<db, caching, cached, executing, call, disturbed, miscounted, raised>>
    /\ Settle(ResetOpen(stmt), \E s \in StatementIds :
                  Finalized(stmt, s) /\ Holders(s) \cap openSets # {})

(* sqlite3_close is busy as long as a statement is live; close finalizes those
   nothing else has. *)
Close ==
    /\ Idle
    /\ db' = FALSE
    /\ cached' = [q \in SQL |-> None]
    /\ sets' = AllClosed
    /\ openSets' = {}
    /\ UNCHANGED <<caching, executing, call, disturbed, miscounted, raised>>
    /\ Settle([s \in StatementIds |->
                  IF db /\ stmt[s] # None /\ stmt[s].native = "leaked" THEN None
                  ELSE ResetOpen(ClosedCache(stmt))[s]],
              \E s \in StatementIds :
                  Finalized(stmt, s) /\ (s \in Cached \/ Holders(s) \cap openSets # {}))

(* setShouldCacheStatements: NO lets go of the dictionary. *)
SetShouldCacheStatements(value) ==
    /\ Idle
    /\ caching' = value
    /\ cached' = IF value THEN cached ELSE [q \in SQL |-> None]
    /\ UNCHANGED <<db, sets, openSets, executing, call, disturbed, miscounted, raised>>
    /\ Settle(stmt, FALSE)

-----------------------------------------------------------------------------
Answer == Prepare \/ Bind \/ StepUpdate \/ StepNext

NextStatements ==
    \/ Open
    \/ \E q \in Queries, a \in Args \cup {Miscount, Short} : Execute("query", q, a)
    \/ \E u \in SQL, a \in Args \cup {Miscount, Short} : Execute("update", u, a)
    \/ Answer
    \/ \E r \in ResultSetIds : Next(r)
    \/ \E r \in ResultSetIds : CloseResultSet(r)
    \/ \E r \in ResultSetIds : Dealloc(r)
    \/ ClearCachedStatements
    \/ CloseOpenResultSets
    \/ Close
    \/ \E value \in BOOLEAN : SetShouldCacheStatements(value)

(* A call goes on until it returns. *)
Spec == Init /\ [][NextStatements]_vars /\ WF_vars(Answer)

-----------------------------------------------------------------------------
(* The types; in particular a busy database is asked again at most once more
   than busyRetryTimeout says, because its counter is compared before it is
   incremented. *)
TypeOK ==
    /\ db \in BOOLEAN /\ caching \in BOOLEAN /\ executing \in BOOLEAN
    /\ miscounted \in BOOLEAN /\ raised \in BOOLEAN /\ undefined \in BOOLEAN
    /\ cached \in [SQL -> StatementIds \cup {None}]
    /\ stmt \in [StatementIds -> Statement \cup {None}]
    /\ sets \in [ResultSetIds -> ResultSet \cup {None}]
    /\ openSets \subseteq ResultSetIds /\ disturbed \subseteq ResultSetIds
    /\ call \in Call \cup {None}
    /\ call # None => call.tries <= BusyRetryTimeout + 1

(* A result set yields the rows of its own query and arguments, each once and
   in order, and when SQLite says so it has had them all; unless another call
   has used its cached statement in between. *)
OwnRows ==
    \A r \in ResultSetIds : sets[r] # None /\ r \notin disturbed =>
        sets[r].own /\ (sets[r].ended => sets[r].read = RowCount[sets[r].sql])

(* SQLite is never handed a statement it has finalized, unless a cached
   statement was given a wrong number of arguments: that error path finalizes
   it and leaves it in the cache. *)
NoUseAfterFinalize == undefined => miscounted

(* _openResultSets does not retain what it points to: each of its pointers is
   to a result set that exists and is not closed, and each of those is in it,
   so that close reaches them all; they are the ones with a connection. *)
OpenSetsExact ==
    \A r \in ResultSetIds :
        /\ r \in openSets <=> sets[r] # None /\ sets[r].stmt # None
        /\ sets[r] # None => (sets[r].parent <=> sets[r].stmt # None)

(* _isExecutingStatement is up while a query or an update is executed, and
   down otherwise, so that the next one is not refused; a call that ended by
   an exception leaves it up. *)
InUseFlag ==
    executing <=> (raised \/ (call # None /\ call.kind \in {"query", "update"}))

(* close leaves no statement to SQLite and no result set with one, as
   sqlite3_close demands. *)
ClosedIsEmpty ==
    ~db =>
        /\ \A s \in StatementIds : stmt[s] = None
        /\ \A r \in ResultSetIds : sets[r] # None => sets[r].stmt = None

(* With a limit on the retries every call returns, however long the file is
   locked by others. *)
EveryCallReturns == call # None ~> (call = None \/ undefined)
=============================================================================
