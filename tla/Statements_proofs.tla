-------------------------- MODULE Statements_proofs --------------------------
(***************************************************************************)
(* Theorems about the statements of a connection.  The type invariant is   *)
(* proved together with what a call in progress relies on (CallOK) and     *)
(* with the ownership of statements (HeldExist); the properties of the     *)
(* flag, of finalized statements and of the rows that result sets yield    *)
(* are inductive on top of them.                                           *)
(***************************************************************************)
EXTENDS Statements, TLAPS

(* Whatever an FMStatement or the running method refers to exists. *)
HeldExist == \A s \in Held : s \in StatementIds /\ stmt[s] # None

(* What a call in progress relies on at each of its phases. *)
CallOK ==
    call # None =>
        /\ call.phase # "step" => call.kind \in {"query", "update"} /\ call.args # None
        /\ call.phase = "prepare" => \E s \in StatementIds : stmt[s] = None
        /\ call.phase # "prepare" => call.stmt \in StatementIds
        /\ call.phase = "bind" /\ Fresh => Holders(call.stmt) = {}
        /\ call.kind = "query" => call.sql \in Queries /\ call.phase # "step"
        /\ call.kind = "next" => /\ call.phase = "step"
                                 /\ call.set \in ResultSetIds /\ sets[call.set] # None
                                 /\ sets[call.set].stmt = call.stmt

IInv == TypeOK /\ HeldExist /\ CallOK

Statements == [StatementIds -> Statement \cup {None}]

(* Resetting a statement changes neither which ones exist nor what has become
   of them. *)
LEMMA ResetKeeps ==
    ASSUME NEW st \in Statements, NEW s
    PROVE  /\ Reset(st, s) \in Statements
           /\ \A t \in StatementIds :
                /\ Reset(st, s)[t] = None <=> st[t] = None
                /\ Finalized(Reset(st, s), t) <=> Finalized(st, t)
<1>1. CASE s # None /\ st[s] # None /\ st[s].native = "live" /\ s \in StatementIds
  <2>1. st[s] \in Statement  BY <1>1 DEF Statements
  <2>2. [st[s] EXCEPT !.pos = 0] \in Statement  BY <2>1 DEF Statement
  <2>3. Reset(st, s) = [st EXCEPT ![s] = [st[s] EXCEPT !.pos = 0]]  BY <1>1 DEF Reset
  <2>4. [st[s] EXCEPT !.pos = 0].native = st[s].native  BY <2>1 DEF Statement
  <2> QED  BY <1>1, <2>2, <2>3, <2>4, NoneAssumption DEF Statements, Finalized
<1>2. CASE ~(s # None /\ st[s] # None /\ st[s].native = "live")
  BY <1>2 DEF Reset
<1>3. CASE s \notin StatementIds
  <2>1. [st EXCEPT ![s].pos = 0] = st  BY <1>3 DEF Statements
  <2> QED  BY <2>1 DEF Reset
<1> QED  BY <1>1, <1>2, <1>3

(* After a step that settles, the types of the statements hold, and so does
   HeldExist if the step left nothing held that does not exist; an unused
   identifier is still unused, and nothing but what was finalized in st is. *)
LEMMA SettleKeeps ==
    ASSUME NEW st \in Statements, NEW misuse \in BOOLEAN, Settle(st, misuse)
    PROVE  /\ stmt' \in Statements
           /\ undefined' \in BOOLEAN
           /\ \A s \in StatementIds : st[s] = None => stmt'[s] = None
           /\ \A s \in StatementIds : s \in Held' => stmt'[s] = st[s]
           /\ \A s \in StatementIds : Finalized(stmt', s) => Finalized(st, s)
           /\ undefined' => misuse \/ \E s \in StatementIds : Finalized(st, s)
  BY DEF Settle, Statements, Finalized

(* The two together, for a step that begins with a call of reset. *)
LEMMA SettledHeld ==
    ASSUME NEW st \in Statements, NEW misuse \in BOOLEAN, Settle(st, misuse),
           \A s \in Held' : s \in StatementIds /\ st[s] # None
    PROVE  HeldExist'
  BY SettleKeeps DEF HeldExist

(* Steps that only let go of statements, which is what every closing does. *)
LEMMA LettingGo ==
    ASSUME IInv, NEW st \in Statements, NEW misuse \in BOOLEAN, Settle(st, misuse),
           cached' = cached \/ cached' = [q \in SQL |-> None],
           sets' \in [ResultSetIds -> ResultSet \cup {None}],
           \A r \in ResultSetIds : sets'[r] # None =>
               sets[r] # None /\ sets'[r].stmt \in {sets[r].stmt, None},
           call' \in {call, None},
           \A s \in StatementIds : s \in Held' => (st[s] = None => stmt[s] = None)
    PROVE  HeldExist' /\ stmt' \in Statements /\ undefined' \in BOOLEAN
<1>1. Held' \subseteq Held
  <2>1. Cached' \subseteq Cached  BY DEF Cached
  <2>2. \A s \in StatementIds : Holders(s)' \subseteq Holders(s)  BY DEF Holders
  <2> QED  BY <2>1, <2>2 DEF Held
<1>2. \A s \in Held' : s \in StatementIds /\ st[s] # None
  BY <1>1 DEF IInv, HeldExist
<1> QED  BY <1>2, SettledHeld, SettleKeeps

(* The entry of a query or an update: its statement, if cached, exists. *)
LEMMA ExecuteStep ==
    ASSUME IInv, NEW kind \in {"query", "update"}, NEW sql \in SQL,
           NEW args \in Args \cup {Miscount, Short}, kind = "query" => sql \in Queries,
           Execute(kind, sql, args)
    PROVE  IInv'
<1> DEFINE s == IF caching THEN cached[sql] ELSE None
<1> USE StatementsAssumption
<1>1. stmt \in Statements  BY DEF IInv, TypeOK, Statements
<1>2. s \in StatementIds \cup {None}  BY DEF IInv, TypeOK
<1>3. /\ Settle(Reset(stmt, s), Finalized(stmt, s))
      /\ Finalized(stmt, s) \in BOOLEAN
  BY DEF Execute, Finalized
<1>4. /\ Reset(stmt, s) \in Statements
      /\ \A t \in StatementIds : Reset(stmt, s)[t] = None <=> stmt[t] = None
  BY <1>1, ResetKeeps
<1>5. call' \in Call /\ call'.stmt = s /\ call'.kind = kind /\ call'.sql = sql
      /\ call'.args = args /\ call'.tries = 0
      /\ call'.phase = IF s = None THEN "prepare" ELSE "bind"
  BY <1>2 DEF Execute, Call
<1>6. Held' \subseteq Held
  <2>1. Cached' = Cached /\ \A t \in StatementIds : Holders(t)' = Holders(t)
    BY DEF Execute, Cached, Holders
  <2>2. s \in StatementIds => s \in Cached  BY DEF Cached
  <2> QED  BY <1>5, <2>1, <2>2 DEF Held
<1>7. \A t \in Held' : t \in StatementIds /\ Reset(stmt, s)[t] # None
  BY <1>4, <1>6 DEF IInv, HeldExist
<1>8. HeldExist' /\ stmt' \in Statements /\ undefined' \in BOOLEAN
      /\ \A t \in StatementIds : stmt[t] = None => stmt'[t] = None
  BY <1>3, <1>4, <1>7, SettledHeld, SettleKeeps
<1>9. TypeOK'
  <2>1. disturbed' \subseteq ResultSetIds  BY DEF Execute, IInv, TypeOK, Holders
  <2> QED  BY <1>5, <1>8, <2>1 DEF Execute, IInv, TypeOK, Statements
<1>10. CallOK'
  <2>1. \E t \in StatementIds : stmt'[t] = None  BY <1>8 DEF Execute, Room
  <2>2. args # None  OBVIOUS
  <2>3. s # None => s \in Cached'  BY DEF Execute, Cached
  <2> QED  BY <1>2, <1>5, <2>1, <2>2, <2>3 DEF CallOK, Fresh
<1> QED  BY <1>8, <1>9, <1>10 DEF IInv

(* A statement just prepared had been unused and nothing else holds it. *)
LEMMA PrepareStep == IInv /\ Prepare => IInv'
<1> SUFFICES ASSUME IInv, Prepare PROVE IInv'  OBVIOUS
<1> USE StatementsAssumption
<1>1. call \in Call /\ call.phase = "prepare" /\ call.tries <= BusyRetryTimeout + 1
      /\ call.kind \in {"query", "update"} /\ call.args # None
      /\ (call.kind = "query" => call.sql \in Queries)
      /\ \E s \in StatementIds : stmt[s] = None
  BY DEF IInv, TypeOK, CallOK, Prepare
<1>2. UNCHANGED <<db, caching, cached, sets, openSets, disturbed, miscounted, raised>>
  BY DEF Prepare
<1>3. Cached' = Cached /\ \A t \in StatementIds : Holders(t)' = Holders(t)
  BY <1>2 DEF Cached, Holders
<1>4. CASE PrepareFails
  <2>1. Held' \subseteq Held  BY <1>3, <1>4 DEF Held, PrepareFails
  <2> QED  BY <1>2, <1>4, <2>1 DEF PrepareFails, IInv, TypeOK, HeldExist, CallOK
<1>5. CASE AskAgain /\ UNCHANGED <<executing, stmt, undefined>>
  <2>1. call' \in Call /\ call'.tries <= BusyRetryTimeout + 1
    BY <1>1, <1>5, NoneAssumption DEF AskAgain, GivesUp, Call
  <2>2. /\ call'.phase = call.phase /\ call'.kind = call.kind /\ call'.stmt = call.stmt
        /\ call'.args = call.args /\ call'.sql = call.sql /\ call'.set = call.set
    BY <1>1, <1>5 DEF AskAgain, Call
  <2>3. Held' \subseteq Held
    <3>1. call # None  BY <1>1, NoneAssumption
    <3> QED  BY <1>3, <2>2, <3>1 DEF Held
  <2> QED  BY <1>1, <1>2, <1>5, <2>1, <2>2, <2>3 DEF IInv, TypeOK, HeldExist, CallOK
<1>6. CASE \E s \in StatementIds :
             /\ stmt[s] = None
             /\ stmt' = [stmt EXCEPT ![s] = [arg |-> None, pos |-> 0, native |-> "live"]]
             /\ call' = [call EXCEPT !.phase = "bind", !.stmt = s, !.tries = 0]
             /\ UNCHANGED <<executing, undefined>>
  <2> PICK s \in StatementIds :
             /\ stmt[s] = None
             /\ stmt' = [stmt EXCEPT ![s] = [arg |-> None, pos |-> 0, native |-> "live"]]
             /\ call' = [call EXCEPT !.phase = "bind", !.stmt = s, !.tries = 0]
             /\ UNCHANGED <<executing, undefined>>
    BY <1>6
  <2>1. /\ call' \in Call /\ call'.tries = 0 /\ call'.stmt = s
        /\ call'.phase = "bind" /\ call'.kind = call.kind
        /\ call'.args = call.args /\ call'.sql = call.sql /\ call'.set = call.set
    BY <1>1 DEF Call
  <2>2. [arg |-> None, pos |-> 0, native |-> "live"] \in Statement  BY DEF Statement
  <2>3. /\ stmt' \in [StatementIds -> Statement \cup {None}]
        /\ \A t \in StatementIds : stmt[t] # None => stmt'[t] # None
        /\ stmt'[s] # None
    BY <2>2, NoneAssumption DEF IInv, TypeOK
  <2>4. Held' \subseteq Held \cup {s}  BY <1>3, <2>1 DEF Held
  <2>5. HeldExist'  BY <2>3, <2>4 DEF IInv, HeldExist
  <2>6. Holders(s)' = {}
    <3>1. s \notin Held  BY DEF IInv, HeldExist
    <3> QED  BY <1>3, <3>1 DEF Held
  <2> QED  BY <1>1, <1>2, <2>1, <2>3, <2>5, <2>6 DEF IInv, TypeOK, CallOK
<1>7. Unused(stmt, StatementIds) \in StatementIds
      /\ stmt[Unused(stmt, StatementIds)] = None
  BY <1>1 DEF Unused
<1> QED  BY <1>4, <1>5, <1>6, <1>7 DEF Prepare

(* What the steps of the bind phase start from. *)
LEMMA BindFacts ==
    ASSUME IInv, Bind
    PROVE  /\ call \in Call /\ call # None /\ call.tries <= BusyRetryTimeout + 1
           /\ call.kind \in {"query", "update"} /\ (call.kind = "query" => call.sql \in Queries)
           /\ call.stmt \in StatementIds /\ stmt[call.stmt] \in Statement
           /\ stmt \in Statements
           /\ call.stmt \in Held
           /\ Fresh => Holders(call.stmt) = {} /\ call.stmt \notin Cached
           /\ UNCHANGED <<db, caching>>
<1>1. call \in Call /\ call # None /\ call.phase = "bind" /\ UNCHANGED <<db, caching>>
  BY DEF IInv, TypeOK, Bind
<1>2. call.stmt \in StatementIds /\ call.stmt \in Held  BY <1>1 DEF IInv, CallOK, Held
<1>3. stmt[call.stmt] \in Statement  BY <1>2 DEF IInv, TypeOK, HeldExist
<1> QED  BY <1>1, <1>2, <1>3 DEF IInv, TypeOK, CallOK, Statements, Fresh

(* A wrong number of arguments lets go of a fresh statement only. *)
LEMMA BindMiscountsStep == IInv /\ Bind /\ BindMiscounts => IInv'
<1> SUFFICES ASSUME IInv, Bind, BindMiscounts PROVE IInv'  OBVIOUS
<1> DEFINE st == IF Fresh THEN [stmt EXCEPT ![call.stmt] = None]
                 ELSE [stmt EXCEPT ![call.stmt].native = "finalized"]
<1>1. st \in Statements /\ \A s \in StatementIds : st[s] = None =>
                              stmt[s] = None \/ (s = call.stmt /\ Fresh)
  <2>1. [stmt[call.stmt] EXCEPT !.native = "finalized"] \in Statement
    BY BindFacts DEF Statement
  <2>2. st = [stmt EXCEPT ![call.stmt] =
                IF Fresh THEN None ELSE [stmt[call.stmt] EXCEPT !.native = "finalized"]]
    OBVIOUS
  <2> HIDE DEF st
  <2> QED  BY <2>1, <2>2, BindFacts, NoneAssumption DEF Statements
<1>2. /\ Settle(st, FALSE) /\ call' = None
      /\ UNCHANGED <<db, caching, cached, sets, openSets, disturbed, raised>>
      /\ executing' = FALSE /\ miscounted' \in BOOLEAN
  BY BindFacts DEF BindMiscounts, IInv, TypeOK
<1> HIDE DEF st
<1>3. \A s \in Held' : s \in Held /\ (Fresh => s # call.stmt)
  <2>1. Cached' = Cached /\ \A t \in StatementIds : Holders(t)' = Holders(t)
    BY <1>2 DEF Cached, Holders
  <2> QED  BY <1>2, <2>1, BindFacts DEF Held
<1>4. HeldExist' /\ stmt' \in Statements /\ undefined' \in BOOLEAN
  <2>1. \A s \in Held' : s \in StatementIds /\ st[s] # None
    BY <1>1, <1>3 DEF IInv, HeldExist
  <2> QED  BY <1>1, <1>2, <2>1, SettledHeld, SettleKeeps
<1> QED  BY <1>2, <1>4 DEF IInv, TypeOK, CallOK, Statements

(* An array that is too short leaves a fresh statement to no one. *)
LEMMA BindRaisesStep == IInv /\ Bind /\ BindRaises => IInv'
<1> SUFFICES ASSUME IInv, Bind, BindRaises PROVE IInv'  OBVIOUS
<1> DEFINE st == IF Fresh THEN [stmt EXCEPT ![call.stmt].native = "leaked"]
                 ELSE [stmt EXCEPT ![call.stmt].arg = None]
<1>1. st \in Statements /\ \A s \in StatementIds : st[s] = None => stmt[s] = None
  <2>1. /\ [stmt[call.stmt] EXCEPT !.native = "leaked"] \in Statement
        /\ [stmt[call.stmt] EXCEPT !.arg = None] \in Statement
    BY BindFacts DEF Statement
  <2>2. st = [stmt EXCEPT ![call.stmt] =
                IF Fresh THEN [stmt[call.stmt] EXCEPT !.native = "leaked"]
                ELSE [stmt[call.stmt] EXCEPT !.arg = None]]
    OBVIOUS
  <2> HIDE DEF st
  <2> QED  BY <2>1, <2>2, BindFacts, NoneAssumption DEF Statements
<1>2. /\ Settle(st, FALSE) /\ call' = None /\ raised' = TRUE
      /\ UNCHANGED <<db, caching, cached, sets, openSets, executing, disturbed, miscounted>>
  BY BindFacts DEF BindRaises
<1> HIDE DEF st
<1>3. sets' \in [ResultSetIds -> ResultSet \cup {None}]  BY <1>2 DEF IInv, TypeOK
<1>4. HeldExist' /\ stmt' \in Statements /\ undefined' \in BOOLEAN
  BY <1>1, <1>2, <1>3, LettingGo
<1> QED  BY <1>2, <1>4 DEF IInv, TypeOK, CallOK, Statements

(* A new result set holds the statement of its call. *)
LEMMA BindQueryStep == ASSUME IInv, Bind, NEW r \in ResultSetIds, BindQuery(r) PROVE IInv'
<1> DEFINE st == [stmt EXCEPT ![call.stmt].arg = call.args]
<1> DEFINE rs == [sql |-> call.sql, arg |-> call.args, stmt |-> call.stmt,
                  parent |-> TRUE, read |-> 0, own |-> TRUE, ended |-> FALSE]
<1>1. st \in Statements /\ \A s \in StatementIds : st[s] = None => stmt[s] = None
  <2>1. [stmt[call.stmt] EXCEPT !.arg = call.args] \in Statement
    BY BindFacts DEF Statement, BindQuery
  <2> QED  BY <2>1, BindFacts, NoneAssumption DEF Statements
<1>2. /\ Settle(st, FALSE) /\ call' = None /\ executing' = FALSE
      /\ sets' = [sets EXCEPT ![r] = rs] /\ cached' = Remember
      /\ openSets' = openSets \cup {r} /\ disturbed' \subseteq disturbed \cup {r}
      /\ UNCHANGED <<db, caching, miscounted, raised>>
  BY BindFacts DEF BindQuery
<1>3. rs \in ResultSet  BY BindFacts DEF ResultSet, BindQuery
<1> HIDE DEF st
<1>4. cached' \in [SQL -> StatementIds \cup {None}] /\ Cached' \subseteq Cached \cup {call.stmt}
  BY <1>2, BindFacts DEF Remember, IInv, TypeOK, Cached, Call
<1>5. Held' \subseteq Held
  <2>1. \A t \in StatementIds : Holders(t)' # {} => Holders(t) # {} \/ t = call.stmt
    BY <1>2 DEF Holders, IInv, TypeOK
  <2> QED  BY <1>2, <1>4, <2>1, BindFacts DEF Held
<1>6. HeldExist' /\ stmt' \in Statements /\ undefined' \in BOOLEAN
  <2>1. \A s \in Held' : s \in StatementIds /\ st[s] # None
    BY <1>1, <1>5 DEF IInv, HeldExist
  <2> QED  BY <1>1, <1>2, <2>1, SettledHeld, SettleKeeps
<1> HIDE DEF rs
<1> QED  BY <1>2, <1>3, <1>4, <1>6 DEF IInv, TypeOK, CallOK, Statements

(* A statement is all that changes. *)
Only(s, new) == [stmt EXCEPT ![s] = new]

LEMMA OnlyOne ==
    ASSUME IInv, NEW s \in StatementIds, NEW new \in Statement
    PROVE  /\ Only(s, new) \in Statements
           /\ \A t \in StatementIds : Only(s, new)[t] = None => stmt[t] = None
           /\ \A t \in StatementIds : t # s => Only(s, new)[t] = stmt[t]
           /\ Only(s, new)[s] = new
BY NoneAssumption DEF Only, Statements, IInv, TypeOK

(* What is bound for an update finalizes nothing. *)
LEMMA UpdateBinds ==
    ASSUME IInv, Bind, BindUpdate
    PROVE  \E new \in Statement : /\ Settle(Only(call.stmt, new), FALSE)
                                  /\ new.native = stmt[call.stmt].native
<1>1. CASE call.sql \in Queries
  <2> DEFINE new == [stmt[call.stmt] EXCEPT !.arg = call.args]
  <2>1. new \in Statement /\ new.native = stmt[call.stmt].native
    BY BindFacts DEF Statement, BindUpdate
  <2>2. Settle(Only(call.stmt, new), FALSE)  BY <1>1 DEF BindUpdate, Only
  <2> HIDE DEF new
  <2> QED  BY <2>1, <2>2
<1>2. CASE call.sql \notin Queries
  <2>1. Only(call.stmt, stmt[call.stmt]) = stmt  BY BindFacts DEF Only, Statements
  <2>2. Settle(stmt, FALSE)  BY <1>2 DEF BindUpdate
  <2>3. Settle(Only(call.stmt, stmt[call.stmt]), FALSE)  BY <2>1, <2>2
  <2> QED  BY <2>3, BindFacts
<1> QED  BY <1>1, <1>2

(* The statement of an update that raises is cached, or leaks. *)
LEMMA UpdateLeaves ==
    ASSUME IInv, StepUpdate, UpdateRaises
    PROVE  \E new \in Statement :
              /\ Settle(Only(call.stmt, new), FALSE)
              /\ new.native = "leaked" \/ new.native = stmt[call.stmt].native
<1>1. call.stmt \in StatementIds /\ call.stmt \in Held
  BY StatementsAssumption DEF StepUpdate, IInv, CallOK, Held
<1>2. stmt[call.stmt] \in Statement  BY <1>1 DEF IInv, TypeOK, HeldExist
<1>3. CASE Fresh
  <2> DEFINE new == [stmt[call.stmt] EXCEPT !.native = "leaked"]
  <2>1. new \in Statement /\ new.native = "leaked"  BY <1>2 DEF Statement
  <2>2. Settle(Only(call.stmt, new), FALSE)  BY <1>3 DEF UpdateRaises, Only
  <2> HIDE DEF new
  <2> QED  BY <2>1, <2>2
<1>4. CASE ~Fresh
  <2> DEFINE new == [stmt[call.stmt] EXCEPT !.pos = 1]
  <2>1. new \in Statement /\ new.native = stmt[call.stmt].native  BY <1>2 DEF Statement
  <2>2. Settle(Only(call.stmt, new), FALSE)  BY <1>4 DEF UpdateRaises, Only
  <2> HIDE DEF new
  <2> QED  BY <2>1, <2>2
<1> QED  BY <1>3, <1>4

(* An update goes on to its first step with the statement it has. *)
LEMMA BindUpdateStep == IInv /\ Bind /\ BindUpdate => IInv'
<1> SUFFICES ASSUME IInv, Bind, BindUpdate PROVE IInv'  OBVIOUS
<1>1. /\ call' \in Call /\ call'.phase = "step" /\ call'.tries = 0
      /\ call'.stmt = call.stmt /\ call'.kind = "update"
  BY BindFacts DEF BindUpdate, Call
<1>2. UNCHANGED <<db, caching, cached, sets, openSets, executing, disturbed,
                  miscounted, raised>>
  BY BindFacts DEF BindUpdate
<1>3. Held' \subseteq Held
  <2>1. Cached' = Cached /\ \A t \in StatementIds : Holders(t)' = Holders(t)
    BY <1>2 DEF Cached, Holders
  <2> QED  BY <1>1, <2>1, BindFacts DEF Held
<1>4. PICK new \in Statement : Settle(Only(call.stmt, new), FALSE)  BY UpdateBinds
<1>5. HeldExist' /\ stmt' \in Statements /\ undefined' \in BOOLEAN
  <2> DEFINE st == Only(call.stmt, new)
  <2>1. st \in Statements /\ \A t \in StatementIds : st[t] = None => stmt[t] = None
    BY BindFacts, OnlyOne
  <2> HIDE DEF st
  <2>2. \A s \in Held' : s \in StatementIds /\ st[s] # None
    BY <1>3, <2>1 DEF IInv, HeldExist
  <2>3. Settle(st, FALSE)  BY <1>4 DEF st
  <2> QED  BY <2>1, <2>2, <2>3, SettledHeld, SettleKeeps
<1> QED
  BY <1>1, <1>2, <1>5, BindFacts, StatementsAssumption DEF IInv, TypeOK, CallOK, Statements

(* The statement of an update is remembered, reset or let go. *)
LEMMA StepUpdateStep == IInv /\ StepUpdate => IInv'
<1> SUFFICES ASSUME IInv, StepUpdate PROVE IInv'  OBVIOUS
<1>1. /\ call \in Call /\ call # None /\ call.kind = "update" /\ call.phase = "step"
      /\ call.tries <= BusyRetryTimeout + 1 /\ call.stmt \in StatementIds
      /\ UNCHANGED <<db, caching, sets, openSets, disturbed, miscounted>>
  BY DEF IInv, TypeOK, CallOK, StepUpdate
<1>2. \A t \in StatementIds : Holders(t)' = Holders(t)  BY <1>1 DEF Holders
<1>3. CASE AskAgain /\ UNCHANGED <<cached, stmt, executing, raised, undefined>>
  <2>1. call' \in Call /\ call'.tries <= BusyRetryTimeout + 1
    BY <1>1, <1>3, StatementsAssumption DEF AskAgain, GivesUp, Call
  <2>2. /\ call'.phase = call.phase /\ call'.kind = call.kind /\ call'.stmt = call.stmt
    BY <1>1, <1>3 DEF AskAgain, Call
  <2>3. Held' \subseteq Held  BY <1>1, <1>2, <1>3, <2>2 DEF Held, Cached
  <2> QED  BY <1>1, <1>3, <2>1, <2>2, <2>3 DEF IInv, TypeOK, HeldExist, CallOK
<1>4. CASE /\ call' = None /\ executing' = FALSE /\ cached' = Remember /\ raised' = raised
           /\ Settle(Reset(stmt, call.stmt), FALSE)
  <2>1. cached' \in [SQL -> StatementIds \cup {None}] /\ Cached' \subseteq Cached \cup {call.stmt}
    BY <1>1, <1>4 DEF Remember, IInv, TypeOK, Cached, Call
  <2>2. Held' \subseteq Held  BY <1>1, <1>2, <1>4, <2>1 DEF Held
  <2>3. /\ Reset(stmt, call.stmt) \in Statements
        /\ \A t \in StatementIds : Reset(stmt, call.stmt)[t] = None <=> stmt[t] = None
    BY ResetKeeps DEF IInv, TypeOK, Statements
  <2>4. HeldExist' /\ stmt' \in Statements /\ undefined' \in BOOLEAN
    <3>1. \A s \in Held' : s \in StatementIds /\ Reset(stmt, call.stmt)[s] # None
      BY <2>2, <2>3 DEF IInv, HeldExist
    <3> QED  BY <1>4, <2>3, <3>1, SettledHeld, SettleKeeps
  <2> QED  BY <1>1, <1>4, <2>1, <2>4 DEF IInv, TypeOK, CallOK, Statements
<1>5. CASE UpdateRaises
  <2>1. PICK new \in Statement : Settle(Only(call.stmt, new), FALSE)  BY <1>5, UpdateLeaves
  <2>2. call' = None /\ raised' = TRUE /\ UNCHANGED <<cached, executing>>
    BY <1>5 DEF UpdateRaises
  <2> DEFINE st == Only(call.stmt, new)
  <2>3. st \in Statements /\ \A t \in StatementIds : st[t] = None => stmt[t] = None
    BY <1>1, OnlyOne
  <2>4. Settle(st, FALSE)  BY <2>1
  <2> HIDE DEF st
  <2>5. sets' \in [ResultSetIds -> ResultSet \cup {None}]  BY <1>1 DEF IInv, TypeOK
  <2>6. HeldExist' /\ stmt' \in Statements /\ undefined' \in BOOLEAN
    BY <1>1, <2>2, <2>3, <2>4, <2>5, LettingGo
  <2> QED  BY <1>1, <2>2, <2>6 DEF IInv, TypeOK, CallOK, Statements
<1> QED  BY <1>3, <1>4, <1>5 DEF StepUpdate

(* next starts with the statement of its result set. *)
LEMMA NextStep == ASSUME IInv, NEW r \in ResultSetIds, Next(r) PROVE IInv'
<1>1. sets[r] \in ResultSet /\ sets[r].stmt \in StatementIds
  BY DEF Next, IInv, TypeOK, ResultSet
<1>2. /\ call' \in Call /\ call'.phase = "step" /\ call'.kind = "next" /\ call'.tries = 0
      /\ call'.stmt = sets[r].stmt /\ call'.set = r
  BY <1>1 DEF Next, Call, ResultSet, SQL
<1>3. UNCHANGED <<db, caching, cached, stmt, sets, openSets, executing,
                  disturbed, miscounted, raised, undefined>>
  BY DEF Next
<1>4. Held' \subseteq Held
  <2>1. Cached' = Cached /\ \A t \in StatementIds : Holders(t)' = Holders(t)
    BY <1>3 DEF Cached, Holders
  <2>2. r \in Holders(sets[r].stmt)  BY DEF Holders, Next
  <2> QED  BY <1>1, <1>2, <2>1, <2>2 DEF Held
<1> QED  BY <1>1, <1>2, <1>3, <1>4, StatementsAssumption DEF Next, IInv, TypeOK, HeldExist, CallOK

(* What an answer to next starts from. *)
LEMMA StepNextFacts ==
    ASSUME IInv, StepNext
    PROVE  /\ call \in Call /\ call # None /\ call.kind = "next" /\ call.phase = "step"
           /\ call.tries <= BusyRetryTimeout + 1
           /\ call.set \in ResultSetIds /\ sets[call.set] \in ResultSet
           /\ sets[call.set].stmt = call.stmt
           /\ call.stmt \in StatementIds /\ stmt[call.stmt] \in Statement
           /\ stmt \in Statements
           /\ UNCHANGED <<db, caching, cached, executing, disturbed, miscounted, raised>>
<1>1. /\ call \in Call /\ call # None /\ call.kind = "next" /\ call.phase = "step"
      /\ call.set \in ResultSetIds /\ sets[call.set] \in ResultSet
      /\ sets[call.set].stmt = call.stmt /\ call.stmt \in StatementIds
  BY DEF IInv, TypeOK, CallOK, StepNext
<1>2. call.stmt \in Held  BY <1>1 DEF Held
<1>3. stmt[call.stmt] \in Statement  BY <1>1, <1>2 DEF IInv, TypeOK, HeldExist
<1> QED  BY <1>1, <1>3 DEF IInv, TypeOK, StepNext, Statements

(* A result set that has read a row is one, and otherwise the same. *)
LEMMA ReadKeeps ==
    ASSUME NEW rs \in ResultSet
    PROVE  /\ [rs EXCEPT !.read = @ + 1] \in ResultSet
           /\ [rs EXCEPT !.read = @ + 1].stmt = rs.stmt
           /\ [rs EXCEPT !.read = @ + 1].parent = rs.parent
           /\ [rs EXCEPT !.own = FALSE] \in ResultSet
           /\ [rs EXCEPT !.own = FALSE].stmt = rs.stmt
           /\ [rs EXCEPT !.own = FALSE].parent = rs.parent
<1>1. rs.read + 1 \in Nat  BY DEF ResultSet
<1>2. [rs EXCEPT !.read = rs.read + 1] \in ResultSet  BY <1>1 DEF ResultSet
<1>3. [rs EXCEPT !.own = FALSE] \in ResultSet  BY DEF ResultSet
<1>4. /\ [rs EXCEPT !.read = rs.read + 1].stmt = rs.stmt
      /\ [rs EXCEPT !.read = rs.read + 1].parent = rs.parent
  BY DEF ResultSet
<1>5. /\ [rs EXCEPT !.own = FALSE].stmt = rs.stmt
      /\ [rs EXCEPT !.own = FALSE].parent = rs.parent
  BY DEF ResultSet
<1> QED  BY <1>2, <1>3, <1>4, <1>5

(* A row changes a position and the account of its result set. *)
LEMMA YieldRowStep == IInv /\ StepNext /\ YieldRow(call.set) => IInv'
<1> SUFFICES ASSUME IInv, StepNext, YieldRow(call.set) PROVE IInv'  OBVIOUS
<1> DEFINE rs == sets[call.set]
<1>1. stmt' \in Statements /\ \A t \in StatementIds : stmt[t] # None => stmt'[t] # None
  <2>1. [stmt[call.stmt] EXCEPT !.pos = @ + 1] \in Statement
    BY StepNextFacts DEF Statement
  <2>2. stmt' = [stmt EXCEPT ![call.stmt] = [stmt[call.stmt] EXCEPT !.pos = @ + 1]]
    BY StepNextFacts DEF YieldRow, Statements
  <2> QED  BY <2>1, <2>2, StepNextFacts, NoneAssumption DEF Statements
<1>2. sets' \in [ResultSetIds -> ResultSet \cup {None}]
      /\ \A r \in ResultSetIds : sets'[r] # None => sets[r] # None /\ sets'[r].stmt = sets[r].stmt
  <2>1. /\ [rs EXCEPT !.read = @ + 1] \in ResultSet
        /\ [rs EXCEPT !.read = @ + 1].stmt = rs.stmt
        /\ [rs EXCEPT !.own = FALSE] \in ResultSet
        /\ [rs EXCEPT !.own = FALSE].stmt = rs.stmt
    BY StepNextFacts, ReadKeeps
  <2>2. PICK new \in ResultSet : new.stmt = rs.stmt /\ sets' = [sets EXCEPT ![call.set] = new]
    <3>1. CASE rs.own /\ IsOwnRow(rs)
      BY <2>1, <3>1 DEF YieldRow
    <3>2. CASE ~(rs.own /\ IsOwnRow(rs))
      BY <2>1, <3>2 DEF YieldRow
    <3> QED  BY <3>1, <3>2
  <2>3. sets[call.set] # None  BY StepNextFacts, NoneAssumption
  <2> QED  BY <2>2, <2>3, StepNextFacts DEF IInv, TypeOK
<1>3. call' = None /\ UNCHANGED <<openSets, undefined>>  BY DEF YieldRow
<1>4. Held' \subseteq Held
  <2>1. Cached' = Cached  BY StepNextFacts DEF Cached
  <2>2. \A t \in StatementIds : Holders(t)' \subseteq Holders(t)  BY <1>2 DEF Holders
  <2> QED  BY <1>3, <2>1, <2>2 DEF Held
<1> QED  BY <1>1, <1>2, <1>3, <1>4, StepNextFacts DEF IInv, TypeOK, HeldExist, CallOK, Statements

(* A closed result set is one, and holds no statement. *)
LEMMA ClosedSetKeeps ==
    ASSUME NEW rs \in ResultSet
    PROVE  ClosedSet(rs) \in ResultSet /\ ClosedSet(rs).stmt = None /\ ~ClosedSet(rs).parent
  BY DEF ClosedSet, ResultSet

(* The end of the rows closes the result set. *)
LEMMA EndRowsStep == IInv /\ StepNext /\ EndRows(call.set) => IInv'
<1> SUFFICES ASSUME IInv, StepNext, EndRows(call.set) PROVE IInv'  OBVIOUS
<1>1. PICK ended \in BOOLEAN :
        sets' = [sets EXCEPT ![call.set] = ClosedSet([sets[call.set] EXCEPT !.ended = ended])]
  BY StepNextFacts DEF EndRows
<1>2. [sets[call.set] EXCEPT !.ended = ended] \in ResultSet
  BY StepNextFacts DEF ResultSet
<1>3. sets' \in [ResultSetIds -> ResultSet \cup {None}]
      /\ \A r \in ResultSetIds : sets'[r] # None =>
           sets[r] # None /\ sets'[r].stmt \in {sets[r].stmt, None}
  BY <1>1, <1>2, ClosedSetKeeps, StepNextFacts, NoneAssumption DEF IInv, TypeOK
<1>4. /\ Settle(Reset(stmt, call.stmt), Finalized(stmt, call.stmt))
      /\ call' = None /\ openSets' \subseteq openSets
      /\ Finalized(stmt, call.stmt) \in BOOLEAN
  BY StepNextFacts DEF EndRows, DidClose, Finalized
<1>5. /\ Reset(stmt, call.stmt) \in Statements
      /\ \A t \in StatementIds : Reset(stmt, call.stmt)[t] = None <=> stmt[t] = None
  BY ResetKeeps, StepNextFacts
<1>6. HeldExist' /\ stmt' \in Statements /\ undefined' \in BOOLEAN
  BY <1>3, <1>4, <1>5, StepNextFacts, LettingGo
<1> QED  BY <1>3, <1>4, <1>6, StepNextFacts DEF IInv, TypeOK, CallOK, Statements

(* Every answer to next is one of three. *)
LEMMA StepNextStep == IInv /\ StepNext => IInv'
<1> SUFFICES ASSUME IInv, StepNext PROVE IInv'  OBVIOUS
<1>1. CASE YieldRow(call.set)  BY <1>1, YieldRowStep
<1>2. CASE EndRows(call.set)  BY <1>2, EndRowsStep
<1>3. CASE AskAgain /\ UNCHANGED <<stmt, sets, openSets, undefined>>
  <2>1. call' \in Call /\ call'.tries <= BusyRetryTimeout + 1
    BY <1>3, StepNextFacts, StatementsAssumption DEF AskAgain, GivesUp, Call
  <2>2. /\ call'.phase = call.phase /\ call'.kind = call.kind /\ call'.stmt = call.stmt
        /\ call'.set = call.set
    BY <1>3, StepNextFacts DEF AskAgain, Call
  <2>3. Held' \subseteq Held
    <3>1. Cached' = Cached /\ \A t \in StatementIds : Holders(t)' = Holders(t)
      BY <1>3, StepNextFacts DEF Cached, Holders
    <3> QED  BY <2>2, <3>1, StepNextFacts DEF Held
  <2> QED  BY <1>3, <2>1, <2>2, <2>3, StepNextFacts, NoneAssumption
           DEF IInv, TypeOK, HeldExist, CallOK
<1> QED  BY <1>1, <1>2, <1>3 DEF StepNext

-----------------------------------------------------------------------------
(* Everything that closes result sets or statements. *)

(* A result set that is closed lets go of its statement. *)
LEMMA CloseResultSetStep ==
    ASSUME IInv, NEW r \in ResultSetIds, CloseResultSet(r)
    PROVE  IInv'
<1> DEFINE s == sets[r].stmt
<1>1. /\ sets[r] \in ResultSet /\ s \in StatementIds /\ stmt \in Statements
      /\ sets' = [sets EXCEPT ![r] = ClosedSet(sets[r])] /\ openSets' \subseteq openSets
      /\ UNCHANGED <<db, caching, cached, executing, call, disturbed, miscounted, raised>>
      /\ call = None
      /\ Settle(Reset(stmt, s), Finalized(stmt, s)) /\ Finalized(stmt, s) \in BOOLEAN
  BY DEF CloseResultSet, Idle, DidClose, Finalized, IInv, TypeOK, ResultSet, Statements
<1>2. sets' \in [ResultSetIds -> ResultSet \cup {None}]
      /\ \A q \in ResultSetIds : sets'[q] # None =>
           sets[q] # None /\ sets'[q].stmt \in {sets[q].stmt, None}
  BY <1>1, ClosedSetKeeps, NoneAssumption DEF IInv, TypeOK
<1>3. /\ Reset(stmt, s) \in Statements
      /\ \A t \in StatementIds : Reset(stmt, s)[t] = None <=> stmt[t] = None
  BY <1>1, ResetKeeps
<1> HIDE DEF s
<1>4. HeldExist' /\ stmt' \in Statements /\ undefined' \in BOOLEAN
  BY <1>1, <1>2, <1>3, LettingGo
<1> QED  BY <1>1, <1>2, <1>4 DEF IInv, TypeOK, CallOK, Statements

(* A result set that is deallocated lets go of its statement. *)
LEMMA DeallocStep == ASSUME IInv, NEW r \in ResultSetIds, Dealloc(r) PROVE IInv'
<1> DEFINE s == sets[r].stmt
<1>1. /\ stmt \in Statements
      /\ sets' = [sets EXCEPT ![r] = None] /\ openSets' \subseteq openSets
      /\ disturbed' \subseteq disturbed
      /\ UNCHANGED <<db, caching, cached, executing, call, miscounted, raised>>
      /\ call = None
      /\ Settle(Reset(stmt, s), Finalized(stmt, s)) /\ Finalized(stmt, s) \in BOOLEAN
  BY DEF Dealloc, Idle, DidClose, Finalized, IInv, TypeOK, Statements
<1>2. sets' \in [ResultSetIds -> ResultSet \cup {None}]
      /\ \A q \in ResultSetIds : sets'[q] # None =>
           sets[q] # None /\ sets'[q].stmt \in {sets[q].stmt, None}
  BY <1>1 DEF IInv, TypeOK
<1>3. /\ Reset(stmt, s) \in Statements
      /\ \A t \in StatementIds : Reset(stmt, s)[t] = None <=> stmt[t] = None
  BY <1>1, ResetKeeps
<1> HIDE DEF s
<1>4. HeldExist' /\ stmt' \in Statements /\ undefined' \in BOOLEAN
  BY <1>1, <1>2, <1>3, LettingGo
<1> QED  BY <1>1, <1>2, <1>4 DEF IInv, TypeOK, CallOK, Statements

(* The three operations on all statements or result sets at once. *)
LEMMA ClosedCacheKeeps ==
    ASSUME IInv
    PROVE  /\ ClosedCache(stmt) \in Statements
           /\ \A s \in StatementIds :
                /\ ClosedCache(stmt)[s] = None <=> stmt[s] = None
                /\ Finalized(ClosedCache(stmt), s) => Finalized(stmt, s)
<1>1. \A s \in StatementIds : stmt[s] # None =>
        /\ [stmt[s] EXCEPT !.native = "closed"] \in Statement
        /\ [stmt[s] EXCEPT !.native = "closed"].native = "closed"
  BY DEF IInv, TypeOK, Statement
<1>2. \A s \in Cached : s \in StatementIds /\ stmt[s] # None  BY DEF IInv, HeldExist, Held
<1>3. stmt \in Statements  BY DEF IInv, TypeOK, Statements
<1> QED  BY <1>1, <1>2, <1>3, NoneAssumption DEF ClosedCache, Finalized, Statements

(* Resetting the statements of open result sets keeps what they are. *)
LEMMA ResetOpenKeeps ==
    ASSUME NEW st \in Statements
    PROVE  /\ ResetOpen(st) \in Statements
           /\ \A s \in StatementIds :
                /\ ResetOpen(st)[s] = None <=> st[s] = None
                /\ Finalized(ResetOpen(st), s) <=> Finalized(st, s)
<1>1. \A s \in StatementIds : /\ Reset(st, s)[s] \in Statement \cup {None}
                              /\ Reset(st, s)[s] = None <=> st[s] = None
                              /\ Finalized(Reset(st, s), s) <=> Finalized(st, s)
  BY ResetKeeps DEF Statements
<1> QED  BY <1>1 DEF ResetOpen, Finalized, Statements

(* After closeOpenResultSets no result set holds a statement. *)
LEMMA AllClosedKeeps ==
    ASSUME IInv, OpenSetsExact
    PROVE  /\ AllClosed \in [ResultSetIds -> ResultSet \cup {None}]
           /\ \A r \in ResultSetIds :
                /\ AllClosed[r] # None =>
                     sets[r] # None /\ AllClosed[r].stmt \in {sets[r].stmt, None}
                /\ AllClosed[r] # None => AllClosed[r].stmt = None /\ ~AllClosed[r].parent
<1>1. \A r \in openSets : sets[r] \in ResultSet  BY DEF OpenSetsExact, IInv, TypeOK
<1>2. \A r \in ResultSetIds \ openSets :
        sets[r] # None => sets[r].stmt = None /\ ~sets[r].parent
  BY DEF OpenSetsExact
<1> QED  BY <1>1, <1>2, ClosedSetKeeps, NoneAssumption DEF AllClosed, IInv, TypeOK

(* Clearing the cache closes statements that result sets may keep. *)
LEMMA ClearCachedStatementsStep == IInv /\ ClearCachedStatements => IInv'
<1> SUFFICES ASSUME IInv, ClearCachedStatements PROVE IInv'  OBVIOUS
<1> DEFINE misuse == \E s \in Cached : Finalized(stmt, s)
<1>1. /\ cached' = [q \in SQL |-> None] /\ call = None
      /\ UNCHANGED <<db, caching, sets, openSets, executing, call, disturbed, miscounted, raised>>
      /\ Settle(ClosedCache(stmt), misuse) /\ misuse \in BOOLEAN
  BY DEF ClearCachedStatements, Idle
<1> HIDE DEF misuse
<1>2. sets' \in [ResultSetIds -> ResultSet \cup {None}]  BY <1>1 DEF IInv, TypeOK
<1>3. HeldExist' /\ stmt' \in Statements /\ undefined' \in BOOLEAN
  BY <1>1, <1>2, ClosedCacheKeeps, LettingGo
<1> QED  BY <1>1, <1>2, <1>3 DEF IInv, TypeOK, CallOK, Statements

(* Closing the result sets leaves the cache alone. *)
LEMMA CloseOpenResultSetsStep == IInv /\ OpenSetsExact /\ CloseOpenResultSets => IInv'
<1> SUFFICES ASSUME IInv, OpenSetsExact, CloseOpenResultSets PROVE IInv'  OBVIOUS
<1> DEFINE misuse == \E s \in StatementIds : Finalized(stmt, s) /\ Holders(s) \cap openSets # {}
<1>1. /\ sets' = AllClosed /\ openSets' = {} /\ call = None
      /\ UNCHANGED <<db, caching, cached, executing, call, disturbed, miscounted, raised>>
      /\ Settle(ResetOpen(stmt), misuse) /\ misuse \in BOOLEAN
      /\ stmt \in Statements
  BY DEF CloseOpenResultSets, Idle, IInv, TypeOK, Statements
<1> HIDE DEF misuse
<1>2. HeldExist' /\ stmt' \in Statements /\ undefined' \in BOOLEAN
  BY <1>1, AllClosedKeeps, ResetOpenKeeps, LettingGo
<1> QED  BY <1>1, <1>2, AllClosedKeeps DEF IInv, TypeOK, CallOK, Statements

(* Switching the cache off lets go of what it held. *)
LEMMA SetShouldCacheStatementsStep ==
    ASSUME IInv, NEW value \in BOOLEAN, SetShouldCacheStatements(value)
    PROVE  IInv'
<1>1. /\ cached' = cached \/ cached' = [q \in SQL |-> None]
      /\ caching' \in BOOLEAN /\ call = None
      /\ UNCHANGED <<db, sets, openSets, executing, call, disturbed, miscounted, raised>>
      /\ Settle(stmt, FALSE) /\ stmt \in Statements
  BY DEF SetShouldCacheStatements, Idle, IInv, TypeOK, Statements
<1>2. sets' \in [ResultSetIds -> ResultSet \cup {None}]  BY <1>1 DEF IInv, TypeOK
<1>3. HeldExist' /\ stmt' \in Statements /\ undefined' \in BOOLEAN
  BY <1>1, <1>2, LettingGo
<1> QED  BY <1>1, <1>2, <1>3 DEF IInv, TypeOK, CallOK, Statements

(* Closing an open connection leaves no statement. *)
LEMMA CloseStep ==
    IInv /\ OpenSetsExact /\ Close => IInv' /\ \A s \in StatementIds : db => stmt'[s] = None
<1> SUFFICES ASSUME IInv, OpenSetsExact, Close
             PROVE  IInv' /\ \A s \in StatementIds : db => stmt'[s] = None
  OBVIOUS
<1> DEFINE st == [s \in StatementIds |->
                    IF db /\ stmt[s] # None /\ stmt[s].native = "leaked" THEN None
                    ELSE ResetOpen(ClosedCache(stmt))[s]]
<1> DEFINE misuse == \E s \in StatementIds :
                       Finalized(stmt, s) /\ (s \in Cached \/ Holders(s) \cap openSets # {})
<1>1. /\ db' = FALSE /\ cached' = [q \in SQL |-> None] /\ sets' = AllClosed /\ openSets' = {}
      /\ UNCHANGED <<caching, executing, call, disturbed, miscounted, raised>>
      /\ call = None /\ Settle(st, misuse) /\ misuse \in BOOLEAN
  BY DEF Close, Idle
<1>2. st \in Statements
  BY ClosedCacheKeeps, ResetOpenKeeps DEF Statements
<1> HIDE DEF misuse
<1>3. Held' = {}
  <2>1. Cached' = {}  BY <1>1 DEF Cached
  <2>2. \A s \in StatementIds : Holders(s)' = {}  BY <1>1, AllClosedKeeps, StatementsAssumption DEF Holders
  <2> QED  BY <1>1, <2>1, <2>2 DEF Held
<1>4. \A s \in StatementIds : db => stmt'[s] = None
  <2> SUFFICES ASSUME NEW s \in StatementIds, db, stmt'[s] # None PROVE FALSE
    OBVIOUS
  <2>1. st[s] # None /\ st[s].native = "leaked"  BY <1>1, <1>3 DEF Settle
  <2>2. st[s] = ResetOpen(ClosedCache(stmt))[s]
        /\ ~(stmt[s] # None /\ stmt[s].native = "leaked")
    BY <2>1
  <2>3. stmt[s] # None /\ stmt[s].native # "leaked" /\ stmt[s] \in Statement
    BY <2>1, <2>2, ClosedCacheKeeps, ResetOpenKeeps DEF IInv, TypeOK
  <2>4. ClosedCache(stmt)[s] \in Statement /\ ClosedCache(stmt)[s].native # "leaked"
    BY <2>3 DEF ClosedCache, Statement
  <2>5. ResetOpen(ClosedCache(stmt))[s].native = ClosedCache(stmt)[s].native
    BY <2>4, ClosedCacheKeeps DEF ResetOpen, Reset, Statements, Statement
  <2> QED  BY <2>1, <2>2, <2>4, <2>5
<1> HIDE DEF st
<1>5. HeldExist' /\ stmt' \in Statements /\ undefined' \in BOOLEAN
  BY <1>1, <1>2, <1>3, SettledHeld, SettleKeeps
<1> QED  BY <1>1, <1>4, <1>5, AllClosedKeeps DEF IInv, TypeOK, CallOK, Statements

-----------------------------------------------------------------------------
(* The steps of the specification, in the groups the proofs below need: what
   they do to the flag, to the finalized statements and to the result sets. *)

(* Every step keeps the types and what a call relies on. *)
LEMMA IInvStep == IInv /\ OpenSetsExact /\ [NextStatements]_vars => IInv'
<1> SUFFICES ASSUME IInv, OpenSetsExact, [NextStatements]_vars PROVE IInv'  OBVIOUS
<1>1. CASE Open
  BY <1>1 DEF Open, Idle, IInv, TypeOK, HeldExist, Held, Holders, Cached, CallOK, Fresh
<1>2. CASE \E q \in Queries, a \in Args \cup {Miscount, Short} : Execute("query", q, a)
  BY <1>2, ExecuteStep DEF SQL
<1>3. CASE \E u \in SQL, a \in Args \cup {Miscount, Short} : Execute("update", u, a)
  BY <1>3, ExecuteStep DEF SQL
<1>4. CASE Prepare  BY <1>4, PrepareStep
<1>5. CASE Bind
  BY <1>5, BindMiscountsStep, BindRaisesStep, BindQueryStep, BindUpdateStep DEF Bind
<1>6. CASE StepUpdate  BY <1>6, StepUpdateStep
<1>7. CASE StepNext  BY <1>7, StepNextStep
<1>8. CASE \E r \in ResultSetIds : Next(r)  BY <1>8, NextStep
<1>9. CASE \E r \in ResultSetIds : CloseResultSet(r)  BY <1>9, CloseResultSetStep
<1>10. CASE \E r \in ResultSetIds : Dealloc(r)  BY <1>10, DeallocStep
<1>11. CASE ClearCachedStatements  BY <1>11, ClearCachedStatementsStep
<1>12. CASE CloseOpenResultSets  BY <1>12, CloseOpenResultSetsStep
<1>13. CASE Close  BY <1>13, CloseStep
<1>14. CASE \E value \in BOOLEAN : SetShouldCacheStatements(value)
  BY <1>14, SetShouldCacheStatementsStep
<1>15. CASE UNCHANGED vars
  BY <1>15 DEF vars, IInv, TypeOK, HeldExist, Held, Holders, Cached, CallOK, Fresh
<1> QED
  BY <1>1, <1>2, <1>3, <1>4, <1>5, <1>6, <1>7, <1>8, <1>9, <1>10, <1>11, <1>12, <1>13,
     <1>14, <1>15 DEF NextStatements, Answer

(* Every step keeps the set of open result sets exact. *)
LEMMA OpenSetsStep == IInv /\ OpenSetsExact /\ [NextStatements]_vars => OpenSetsExact'
<1> SUFFICES ASSUME IInv, OpenSetsExact, [NextStatements]_vars PROVE OpenSetsExact'  OBVIOUS
<1> USE DEF OpenSetsExact
<1>1. CASE UNCHANGED <<sets, openSets>>  BY <1>1
<1>2. CASE Bind
  <2>1. CASE BindMiscounts \/ BindRaises \/ BindUpdate
    BY <1>1, <2>1 DEF BindMiscounts, BindRaises, BindUpdate
  <2>2. ASSUME NEW r \in ResultSetIds, BindQuery(r) PROVE OpenSetsExact'
    <3>1. /\ openSets' = openSets \cup {r}
          /\ sets' = [sets EXCEPT ![r] = [sql |-> call.sql, arg |-> call.args,
                stmt |-> call.stmt, parent |-> TRUE, read |-> 0, own |-> TRUE,
                ended |-> FALSE]]
      BY <2>2 DEF BindQuery
    <3>2. [sql |-> call.sql, arg |-> call.args, stmt |-> call.stmt, parent |-> TRUE,
           read |-> 0, own |-> TRUE, ended |-> FALSE] \in ResultSet
      BY <1>2, <2>2, BindFacts DEF ResultSet, BindQuery
    <3>3. call.stmt # None  BY <1>2, BindFacts, StatementsAssumption
    <3> QED  BY <3>1, <3>2, <3>3, NoneAssumption DEF IInv, TypeOK
  <2> QED  BY <1>2, <2>1, <2>2 DEF Bind
<1>3. CASE StepNext
  <2>1. CASE YieldRow(call.set)
    <3>1. openSets' = openSets  BY <2>1 DEF YieldRow
    <3>2. sets' = [sets EXCEPT ![call.set] = [sets[call.set] EXCEPT !.read = @ + 1]]
          \/ sets' = [sets EXCEPT ![call.set] = [sets[call.set] EXCEPT !.own = FALSE]]
      BY <2>1 DEF YieldRow
    <3>3. PICK new \in ResultSet : /\ sets' = [sets EXCEPT ![call.set] = new]
                                   /\ new.stmt = sets[call.set].stmt
                                   /\ new.parent = sets[call.set].parent
      BY <1>3, <3>2, StepNextFacts, ReadKeeps
    <3>4. sets[call.set] # None  BY <1>3, StepNextFacts, NoneAssumption
    <3> QED  BY <1>3, <3>1, <3>3, <3>4, StepNextFacts, NoneAssumption DEF IInv, TypeOK
  <2>2. CASE EndRows(call.set)
    <3>1. PICK ended \in BOOLEAN :
            sets' = [sets EXCEPT ![call.set] = ClosedSet([sets[call.set] EXCEPT !.ended = ended])]
      BY <1>3, <2>2, StepNextFacts DEF EndRows
    <3>2. [sets[call.set] EXCEPT !.ended = ended] \in ResultSet
      BY <1>3, StepNextFacts DEF ResultSet
    <3>3. openSets' = openSets \ {call.set}
      BY <1>3, <2>2, StepNextFacts, NoneAssumption DEF EndRows, DidClose
    <3> QED  BY <1>3, <3>1, <3>2, <3>3, StepNextFacts, ClosedSetKeeps DEF IInv, TypeOK
  <2>3. CASE AskAgain /\ UNCHANGED <<stmt, sets, openSets, undefined>>  BY <1>1, <2>3
  <2> QED  BY <1>3, <2>1, <2>2, <2>3 DEF StepNext
<1>4. ASSUME NEW r \in ResultSetIds, CloseResultSet(r) PROVE OpenSetsExact'
  <2>1. /\ sets[r] \in ResultSet /\ sets' = [sets EXCEPT ![r] = ClosedSet(sets[r])]
        /\ openSets' = openSets \ {r}
    BY <1>4 DEF CloseResultSet, DidClose, IInv, TypeOK
  <2> QED  BY <2>1, ClosedSetKeeps DEF IInv, TypeOK
<1>5. ASSUME NEW r \in ResultSetIds, Dealloc(r) PROVE OpenSetsExact'
  <2>1. sets' = [sets EXCEPT ![r] = None] /\ openSets' = openSets \ {r}
    BY <1>5 DEF Dealloc, DidClose
  <2> QED  BY <2>1 DEF IInv, TypeOK
<1>6. CASE CloseOpenResultSets \/ Close
  BY <1>6, AllClosedKeeps DEF CloseOpenResultSets, Close
<1>7. CASE Open \/ ClearCachedStatements \/ Prepare \/ StepUpdate
  BY <1>1, <1>7 DEF Open, ClearCachedStatements, Prepare, StepUpdate
<1>8. CASE \/ \E q \in Queries, a \in Args \cup {Miscount, Short} : Execute("query", q, a)
           \/ \E u \in SQL, a \in Args \cup {Miscount, Short} : Execute("update", u, a)
           \/ \E r \in ResultSetIds : Next(r)
           \/ \E value \in BOOLEAN : SetShouldCacheStatements(value)
  BY <1>1, <1>8 DEF Execute, Next, SetShouldCacheStatements
<1>9. CASE UNCHANGED vars  BY <1>1, <1>9 DEF vars
<1> QED
  BY <1>2, <1>3, <1>4, <1>5, <1>6, <1>7, <1>8, <1>9 DEF NextStatements, Answer


(* The flag, with what makes it inductive: a call that executes a statement
   began while nothing had been raised. *)
Executes == call # None /\ call.kind \in {"query", "update"}

FlagInv == InUseFlag /\ ~(raised /\ Executes)

(* A step that goes on with the same call. *)
LEMMA CallGoesOn ==
    ASSUME call \in Call
    PROVE  /\ AskAgain => call' \in Call /\ call'.kind = call.kind
           /\ \A s \in StatementIds :
                call' = [call EXCEPT !.phase = "bind", !.stmt = s, !.tries = 0] =>
                  call' \in Call /\ call'.kind = call.kind
           /\ call' = [call EXCEPT !.phase = "step", !.tries = 0] =>
                call' \in Call /\ call'.kind = call.kind
<1>1. AskAgain => call' \in Call /\ call'.kind = call.kind
  BY DEF AskAgain, Call
<1>2. ASSUME NEW s \in StatementIds,
             call' = [call EXCEPT !.phase = "bind", !.stmt = s, !.tries = 0]
      PROVE  call' \in Call /\ call'.kind = call.kind
  BY <1>2 DEF Call
<1>3. ASSUME call' = [call EXCEPT !.phase = "step", !.tries = 0]
      PROVE  call' \in Call /\ call'.kind = call.kind
  BY <1>3 DEF Call
<1> QED  BY <1>1, <1>2, <1>3

(* Every step keeps the flag in line with the call in progress. *)
LEMMA FlagStep == IInv /\ FlagInv /\ [NextStatements]_vars => FlagInv'
<1> SUFFICES ASSUME IInv, FlagInv, [NextStatements]_vars PROVE FlagInv'  OBVIOUS
<1>1. /\ executing \in BOOLEAN /\ raised \in BOOLEAN /\ Executes \in BOOLEAN
      /\ executing <=> (raised \/ Executes)
      /\ ~(raised /\ Executes)
  BY DEF IInv, TypeOK, FlagInv, InUseFlag, Executes
<1> DEFINE FlagGoal == (executing' <=> (raised' \/ Executes')) /\ ~(raised' /\ Executes')
<1>2. SUFFICES FlagGoal
  BY DEF FlagInv, InUseFlag, Executes
<1>3. CASE (Executes' <=> Executes) /\ UNCHANGED <<executing, raised>>  BY <1>1, <1>3
<1>4. CASE Executes /\ ~Executes' /\ executing' = FALSE /\ raised' = raised  BY <1>1, <1>4
<1>5. ASSUME NEW kind \in {"query", "update"}, NEW sql \in SQL,
             NEW a \in Args \cup {Miscount, Short}, Execute(kind, sql, a)
      PROVE  ~executing /\ executing' = TRUE /\ raised' = raised /\ Executes'
  <2>1. (IF caching THEN cached[sql] ELSE None) \in StatementIds \cup {None}
    BY DEF IInv, TypeOK
  <2>2. call' \in Call /\ call'.kind = kind  BY <1>5, <2>1 DEF Execute, Call
  <2> QED  BY <1>5, <2>2, NoneAssumption DEF Execute, Executes
<1>6. CASE Prepare
  <2>1. Executes /\ raised' = raised /\ call \in Call
    BY <1>6 DEF Prepare, IInv, TypeOK, CallOK, Executes
  <2>2. CASE PrepareFails  BY <1>4, <2>1, <2>2 DEF PrepareFails, Executes
  <2>3. CASE AskAgain /\ executing' = executing
    BY <1>3, <2>1, <2>3, CallGoesOn, NoneAssumption DEF Executes
  <2>4. ASSUME NEW s \in StatementIds, executing' = executing,
               call' = [call EXCEPT !.phase = "bind", !.stmt = s, !.tries = 0]
        PROVE  FlagGoal
    BY <1>3, <2>1, <2>4, CallGoesOn, NoneAssumption DEF Executes
  <2>5. Unused(stmt, StatementIds) \in StatementIds
    BY <1>6 DEF IInv, CallOK, Prepare, Unused
  <2> QED  BY <1>6, <2>2, <2>3, <2>4, <2>5 DEF Prepare
<1>7. CASE Bind
  <2>1. Executes /\ call \in Call  BY <1>7, BindFacts DEF Executes
  <2>2. CASE BindMiscounts \/ \E r \in ResultSetIds : BindQuery(r)
    BY <1>4, <2>1, <2>2 DEF BindMiscounts, BindQuery, Executes
  <2>3. CASE BindRaises  BY <1>1, <2>1, <2>3 DEF BindRaises, Executes
  <2>4. CASE BindUpdate
    BY <1>3, <2>1, <2>4, CallGoesOn, NoneAssumption DEF BindUpdate, Executes
  <2> QED  BY <1>7, <2>2, <2>3, <2>4 DEF Bind
<1>8. CASE StepUpdate
  <2>1. Executes /\ call \in Call
    BY <1>8 DEF StepUpdate, IInv, TypeOK, Executes
  <2>2. CASE AskAgain /\ executing' = executing /\ raised' = raised
    BY <1>3, <2>1, <2>2, CallGoesOn, NoneAssumption DEF Executes
  <2>3. CASE call' = None /\ executing' = FALSE /\ raised' = raised
    BY <1>4, <2>1, <2>3 DEF Executes
  <2>4. CASE UpdateRaises  BY <1>1, <2>1, <2>4 DEF UpdateRaises, Executes
  <2> QED  BY <1>8, <2>2, <2>3, <2>4 DEF StepUpdate
<1>9. CASE StepNext
  <2>1. ~Executes /\ call \in Call /\ UNCHANGED <<executing, raised>>
    BY <1>9, StepNextFacts DEF Executes
  <2>2. call' = None \/ AskAgain  BY <1>9 DEF StepNext, YieldRow, EndRows
  <2>3. ~Executes'  BY <2>1, <2>2, CallGoesOn, <1>9, StepNextFacts DEF Executes
  <2> QED  BY <1>3, <2>1, <2>3
<1>10. ASSUME NEW r \in ResultSetIds, Next(r) PROVE FlagGoal
  <2>1. ~Executes /\ ~Executes' /\ UNCHANGED <<executing, raised>>
    BY <1>10 DEF Next, Idle, Executes
  <2> QED  BY <1>3, <2>1
<1>11. CASE \/ Open \/ ClearCachedStatements \/ CloseOpenResultSets \/ Close
            \/ \E r \in ResultSetIds : CloseResultSet(r) \/ Dealloc(r)
            \/ \E value \in BOOLEAN : SetShouldCacheStatements(value)
            \/ UNCHANGED vars
  <2>1. UNCHANGED <<executing, raised, call>>
    BY <1>11 DEF Open, ClearCachedStatements, CloseOpenResultSets, Close, CloseResultSet,
                 Dealloc, SetShouldCacheStatements, vars
  <2> QED  BY <1>3, <2>1 DEF Executes
<1>12. ASSUME NEW kind \in {"query", "update"}, NEW sql \in SQL,
              NEW a \in Args \cup {Miscount, Short}, Execute(kind, sql, a)
       PROVE  FlagGoal
  BY <1>1, <1>5, <1>12
<1> QED
  BY <1>6, <1>7, <1>8, <1>9, <1>10, <1>11, <1>12 DEF NextStatements, Answer, SQL

(* What has been finalized while an FMStatement points to it was the cached
   statement of a call with a wrong number of arguments. *)
FinalInv ==
    /\ NoUseAfterFinalize
    /\ \A s \in StatementIds : Finalized(stmt, s) => miscounted

(* A step that finalized nothing under an FMStatement keeps FinalInv. *)
LEMMA SettleFinal ==
    ASSUME FinalInv, NEW st \in Statements, NEW misuse \in BOOLEAN, Settle(st, misuse),
           misuse => miscounted',
           \A s \in StatementIds : Finalized(st, s) => miscounted'
    PROVE  FinalInv'
<1>1. \A s \in StatementIds : Finalized(stmt', s) <=> Finalized(stmt, s)'  BY DEF Finalized
<1> QED  BY <1>1, SettleKeeps DEF FinalInv, NoUseAfterFinalize

(* Only a miscount on a cached statement finalizes under an FMStatement. *)
LEMMA FinalStep == IInv /\ OpenSetsExact /\ FinalInv /\ [NextStatements]_vars => FinalInv'
<1> SUFFICES ASSUME IInv, OpenSetsExact, FinalInv, [NextStatements]_vars PROVE FinalInv'
  OBVIOUS
<1>1. stmt \in Statements /\ miscounted \in BOOLEAN  BY DEF IInv, TypeOK, Statements
<1>2. CASE UNCHANGED <<stmt, undefined, miscounted>>
  BY <1>2 DEF FinalInv, NoUseAfterFinalize, Finalized
(* Settling after a reset. *)
<1>3. ASSUME NEW s \in StatementIds \cup {None}, miscounted' = miscounted,
             \/ Settle(Reset(stmt, s), Finalized(stmt, s))
             \/ Settle(Reset(stmt, s), FALSE)
      PROVE  FinalInv'
  <2>1. Finalized(stmt, s) \in BOOLEAN /\ (Finalized(stmt, s) => miscounted')
    BY <1>3 DEF Finalized, FinalInv
  <2>2. /\ Reset(stmt, s) \in Statements
        /\ \A t \in StatementIds : Finalized(Reset(stmt, s), t) => miscounted'
    BY <1>1, <1>3, ResetKeeps DEF FinalInv
  <2> QED  BY <1>3, <2>1, <2>2, SettleFinal
<1>4. ASSUME NEW kind, NEW sql \in SQL, NEW a, Execute(kind, sql, a) PROVE FinalInv'
  <2>1. (IF caching THEN cached[sql] ELSE None) \in StatementIds \cup {None}
    BY DEF IInv, TypeOK
  <2> QED  BY <1>3, <1>4, <2>1 DEF Execute
<1>5. CASE Prepare
  <2>1. miscounted' = miscounted /\ undefined' = undefined
    BY <1>5 DEF Prepare, PrepareFails
  <2>2. CASE stmt' = stmt  BY <1>2, <2>1, <2>2
  <2>3. ASSUME NEW s \in StatementIds,
               stmt' = [stmt EXCEPT ![s] = [arg |-> None, pos |-> 0, native |-> "live"]]
        PROVE  FinalInv'
    BY <1>1, <2>1, <2>3 DEF FinalInv, NoUseAfterFinalize, Finalized, Statements
  <2>4. Unused(stmt, StatementIds) \in StatementIds
    BY <1>5 DEF IInv, CallOK, Prepare, Unused
  <2> QED  BY <1>5, <2>2, <2>3, <2>4 DEF Prepare, PrepareFails
<1>6. CASE Bind
  <2>1. CASE BindMiscounts
    <3> DEFINE st == IF Fresh THEN [stmt EXCEPT ![call.stmt] = None]
                     ELSE [stmt EXCEPT ![call.stmt].native = "finalized"]
    <3>1. Settle(st, FALSE) /\ (miscounted' <=> miscounted \/ ~Fresh)
      BY <2>1 DEF BindMiscounts
    <3>2. st \in Statements
      <4>1. [stmt[call.stmt] EXCEPT !.native = "finalized"] \in Statement
        BY <1>6, BindFacts DEF Statement
      <4> QED  BY <1>1, <4>1 DEF Statements
    <3>3. \A s \in StatementIds : Finalized(st, s) => miscounted'
      <4>1. CASE Fresh  BY <1>1, <3>1, <4>1 DEF Finalized, FinalInv, Statements
      <4>2. CASE ~Fresh  BY <3>1, <4>2
      <4> QED  BY <4>1, <4>2
    <3> HIDE DEF st
    <3> QED  BY <3>1, <3>2, <3>3, SettleFinal
  <2>2. ASSUME NEW st \in Statements, Settle(st, FALSE), miscounted' = miscounted,
               NEW new \in Statement, st = [stmt EXCEPT ![call.stmt] = new],
               new.native = "leaked" \/ new.native = stmt[call.stmt].native
        PROVE  FinalInv'
    <3>1. \A s \in StatementIds : Finalized(st, s) => Finalized(stmt, s)
      BY <1>1, <1>6, <2>2, BindFacts, NoneAssumption DEF Finalized, Statements
    <3> QED  BY <2>2, <3>1, SettleFinal DEF FinalInv
  <2>3. /\ [stmt[call.stmt] EXCEPT !.native = "leaked"] \in Statement
        /\ [stmt[call.stmt] EXCEPT !.native = "leaked"].native = "leaked"
        /\ \A a \in Args \cup {None} :
              /\ [stmt[call.stmt] EXCEPT !.arg = a] \in Statement
              /\ [stmt[call.stmt] EXCEPT !.arg = a].native = stmt[call.stmt].native
    BY <1>6, BindFacts DEF Statement
  <2>4. CASE BindRaises
    <3>1. PICK new \in Statement :
            /\ Settle([stmt EXCEPT ![call.stmt] = new], FALSE) /\ miscounted' = miscounted
            /\ new.native = "leaked" \/ new.native = stmt[call.stmt].native
      <4>1. CASE Fresh  BY <2>3, <2>4, <4>1 DEF BindRaises
      <4>2. CASE ~Fresh  BY <2>3, <2>4, <4>2 DEF BindRaises
      <4> QED  BY <4>1, <4>2
    <3>2. [stmt EXCEPT ![call.stmt] = new] \in Statements  BY <1>1, <3>1 DEF Statements
    <3> QED  BY <2>2, <3>1, <3>2
  <2>5. ASSUME NEW r \in ResultSetIds, BindQuery(r) PROVE FinalInv'
    <3>1. PICK new \in Statement :
            /\ Settle([stmt EXCEPT ![call.stmt] = new], FALSE) /\ miscounted' = miscounted
            /\ new.native = stmt[call.stmt].native
      BY <2>3, <2>5 DEF BindQuery
    <3>2. [stmt EXCEPT ![call.stmt] = new] \in Statements  BY <1>1, <3>1 DEF Statements
    <3> QED  BY <2>2, <3>1, <3>2
  <2>6. CASE BindUpdate
    <3>1. PICK new \in Statement : /\ Settle(Only(call.stmt, new), FALSE)
                                   /\ new.native = stmt[call.stmt].native
      BY <1>6, <2>6, UpdateBinds
    <3>2. Only(call.stmt, new) \in Statements  BY <1>6, BindFacts, OnlyOne
    <3>3. miscounted' = miscounted  BY <2>6 DEF BindUpdate
    <3> QED  BY <2>2, <3>1, <3>2, <3>3 DEF Only
  <2> QED  BY <1>6, <2>1, <2>4, <2>5, <2>6 DEF Bind
<1>7. CASE StepUpdate
  <2>1. call.stmt \in StatementIds /\ miscounted' = miscounted
    BY <1>7, StatementsAssumption DEF StepUpdate, IInv, CallOK
  <2>2. CASE UpdateRaises
    <3>1. PICK new \in Statement :
            /\ Settle(Only(call.stmt, new), FALSE)
            /\ new.native = "leaked" \/ new.native = stmt[call.stmt].native
      BY <1>7, <2>2, UpdateLeaves
    <3>2. Only(call.stmt, new) \in Statements /\ call.stmt \in Held
      BY <1>7, <2>1, OnlyOne DEF StepUpdate, Held
    <3>3. stmt[call.stmt] # None  BY <3>2 DEF IInv, HeldExist
    <3>4. \A s \in StatementIds : Finalized(Only(call.stmt, new), s) => Finalized(stmt, s)
      BY <1>1, <2>1, <3>1, <3>3, OnlyOne DEF Finalized
    <3> QED  BY <2>1, <3>1, <3>2, <3>4, SettleFinal DEF FinalInv
  <2> QED  BY <1>2, <1>3, <1>7, <2>1, <2>2 DEF StepUpdate
<1>8. CASE StepNext
  <2>1. CASE YieldRow(call.set)
    <3>1. stmt' = [stmt EXCEPT ![call.stmt] = [stmt[call.stmt] EXCEPT !.pos = @ + 1]]
          /\ undefined' = undefined /\ miscounted' = miscounted
      BY <1>1, <1>8, <2>1, StepNextFacts DEF YieldRow, Statements
    <3>2. [stmt[call.stmt] EXCEPT !.pos = @ + 1].native = stmt[call.stmt].native
      BY <1>8, StepNextFacts DEF Statement
    <3>3. stmt[call.stmt] # None  BY <1>8, StepNextFacts, NoneAssumption
    <3> QED  BY <1>1, <1>8, <3>1, <3>2, <3>3, StepNextFacts
             DEF FinalInv, NoUseAfterFinalize, Finalized, Statements
  <2>2. CASE EndRows(call.set)  BY <1>3, <1>8, <2>2, StepNextFacts DEF EndRows
  <2>3. CASE AskAgain /\ UNCHANGED <<stmt, sets, openSets, undefined>>
    BY <1>2, <1>8, <2>3, StepNextFacts
  <2> QED  BY <1>8, <2>1, <2>2, <2>3 DEF StepNext
<1>9. ASSUME NEW r \in ResultSetIds, CloseResultSet(r) \/ Dealloc(r) PROVE FinalInv'
  <2>1. sets[r].stmt \in StatementIds \cup {None}
    BY <1>9 DEF CloseResultSet, Dealloc, IInv, TypeOK, ResultSet
  <2> QED  BY <1>3, <1>9, <2>1 DEF CloseResultSet, Dealloc
<1>10. ASSUME NEW st \in Statements, NEW misuse \in BOOLEAN, Settle(st, misuse),
              miscounted' = miscounted,
              misuse => \E s \in StatementIds : Finalized(stmt, s),
              \A s \in StatementIds : Finalized(st, s) => Finalized(stmt, s)
       PROVE  FinalInv'
  BY <1>10, SettleFinal DEF FinalInv
<1>11. Cached \subseteq StatementIds  BY DEF IInv, HeldExist, Held
<1>12. CASE ClearCachedStatements
  <2> DEFINE misuse == \E s \in Cached : Finalized(stmt, s)
  <2>1. Settle(ClosedCache(stmt), misuse) /\ miscounted' = miscounted
    BY <1>12 DEF ClearCachedStatements
  <2> QED  BY <1>10, <1>11, <2>1, ClosedCacheKeeps
<1>13. CASE CloseOpenResultSets
  <2> DEFINE misuse == \E s \in StatementIds :
                         Finalized(stmt, s) /\ Holders(s) \cap openSets # {}
  <2>1. Settle(ResetOpen(stmt), misuse) /\ miscounted' = miscounted
    BY <1>13 DEF CloseOpenResultSets
  <2> QED  BY <1>1, <1>10, <2>1, ResetOpenKeeps
<1>14. CASE Close
  <2> DEFINE st == [s \in StatementIds |->
                      IF db /\ stmt[s] # None /\ stmt[s].native = "leaked" THEN None
                      ELSE ResetOpen(ClosedCache(stmt))[s]]
  <2> DEFINE misuse == \E s \in StatementIds :
                       Finalized(stmt, s) /\ (s \in Cached \/ Holders(s) \cap openSets # {})
  <2>1. Settle(st, misuse) /\ miscounted' = miscounted  BY <1>14 DEF Close
  <2>2. st \in Statements  BY ClosedCacheKeeps, ResetOpenKeeps DEF Statements
  <2>3. \A s \in StatementIds : Finalized(st, s) => Finalized(stmt, s)
    BY ClosedCacheKeeps, ResetOpenKeeps DEF Finalized
  <2> QED  BY <1>10, <2>1, <2>2, <2>3
<1>15. CASE \E value \in BOOLEAN : SetShouldCacheStatements(value)
  BY <1>1, <1>10, <1>15 DEF SetShouldCacheStatements
<1>16. CASE Open \/ (\E r \in ResultSetIds : Next(r)) \/ UNCHANGED vars
  BY <1>2, <1>16 DEF Open, Next, vars
<1> QED
  BY <1>4, <1>5, <1>6, <1>7, <1>8, <1>9, <1>12, <1>13, <1>14, <1>15, <1>16
     DEF NextStatements, Answer, SQL

(* A closed connection has no statement, and no call goes on without one. *)
ClosedInv == ~db => call = None /\ \A s \in StatementIds : stmt[s] = None

(* A closed connection stays empty until it is opened. *)
LEMMA ClosedStep == IInv /\ OpenSetsExact /\ ClosedInv /\ [NextStatements]_vars => ClosedInv'
<1> SUFFICES ASSUME IInv, OpenSetsExact, ClosedInv, [NextStatements]_vars, ~db'
             PROVE  call' = None /\ \A s \in StatementIds : stmt'[s] = None
  BY DEF ClosedInv
<1>1. CASE db
  <2>1. Close
    BY <1>1 DEF NextStatements, Answer, Open, Execute, Prepare, Bind, StepUpdate, StepNext, Next,
       CloseResultSet, Dealloc, ClearCachedStatements, CloseOpenResultSets,
       SetShouldCacheStatements, vars
  <2> QED  BY <1>1, <2>1, CloseStep DEF Close, Idle
<1>2. CASE ~db
  <2>1. call = None /\ \A s \in StatementIds : stmt[s] = None  BY <1>2 DEF ClosedInv
  <2>2. Held = {}  BY <2>1 DEF IInv, HeldExist
  <2>3. \A r \in ResultSetIds : sets[r] # None => sets[r].stmt \notin StatementIds
    BY <2>2, StatementsAssumption DEF Held, Holders
  <2>4. stmt \in Statements  BY DEF IInv, TypeOK, Statements
  <2>5. ASSUME call' = call, NEW st \in Statements, NEW misuse \in BOOLEAN, Settle(st, misuse),
               \A s \in StatementIds : stmt[s] = None => st[s] = None
        PROVE  call' = None /\ \A s \in StatementIds : stmt'[s] = None
    BY <2>1, <2>5, SettleKeeps
  <2>6. ASSUME NEW r \in ResultSetIds, CloseResultSet(r) \/ Dealloc(r)
        PROVE  call' = None /\ \A s \in StatementIds : stmt'[s] = None
    <3> DEFINE s == sets[r].stmt
    <3>1. /\ call' = call /\ Settle(Reset(stmt, s), Finalized(stmt, s))
          /\ Finalized(stmt, s) \in BOOLEAN
      BY <2>6 DEF CloseResultSet, Dealloc, Finalized
    <3>2. /\ Reset(stmt, s) \in Statements
          /\ \A t \in StatementIds : Reset(stmt, s)[t] = None <=> stmt[t] = None
      BY <2>4, ResetKeeps
    <3> QED  BY <2>5, <3>1, <3>2
  <2>7. CASE ClearCachedStatements
    BY <2>5, <2>7, ClosedCacheKeeps DEF ClearCachedStatements
  <2>8. CASE CloseOpenResultSets
    BY <2>4, <2>5, <2>8, ResetOpenKeeps DEF CloseOpenResultSets
  <2>9. CASE Close
    <3> DEFINE st == [s \in StatementIds |->
                        IF db /\ stmt[s] # None /\ stmt[s].native = "leaked" THEN None
                        ELSE ResetOpen(ClosedCache(stmt))[s]]
    <3> DEFINE misuse == \E s \in StatementIds :
                         Finalized(stmt, s) /\ (s \in Cached \/ Holders(s) \cap openSets # {})
    <3>1. Settle(st, misuse) /\ call' = call  BY <2>9 DEF Close
    <3>2. st \in Statements /\ \A s \in StatementIds : stmt[s] = None => st[s] = None
      BY ClosedCacheKeeps, ResetOpenKeeps DEF Statements
    <3> HIDE DEF st, misuse
    <3>3. misuse \in BOOLEAN  BY DEF misuse
    <3> QED  BY <2>5, <3>1, <3>2, <3>3
  <2>10. CASE \E value \in BOOLEAN : SetShouldCacheStatements(value)
    BY <2>4, <2>5, <2>10 DEF SetShouldCacheStatements
  <2>11. ASSUME NEW r \in ResultSetIds, Next(r) PROVE FALSE
    BY <2>3, <2>11 DEF Next, IInv, TypeOK, ResultSet
  <2>12. CASE UNCHANGED vars  BY <2>1, <2>12 DEF vars
  <2> QED
    BY <1>2, <2>1, <2>6, <2>7, <2>8, <2>9, <2>10, <2>11, <2>12
       DEF NextStatements, Answer, Open, Execute, Prepare, Bind, StepUpdate, StepNext
<1> QED  BY <1>1, <1>2

-----------------------------------------------------------------------------
(* What is true of a result set whose cached statement no other call has used:
   no other result set holds its statement, and the statement, if it is live,
   has the arguments of the result set and stands at its next row.  It has not
   ended as long as it has a statement. *)
InStep(r) ==
    sets[r].stmt # None =>
        /\ ~sets[r].ended
        /\ Holders(sets[r].stmt) = {r}
        /\ stmt[sets[r].stmt].native = "live" => IsOwnRow(sets[r])

Rows(r) ==
    /\ sets[r].own
    /\ sets[r].ended => sets[r].read = RowCount[sets[r].sql]
    /\ InStep(r)

(* The statement of a query or an update belongs to no such result set, and is
   at its start when arguments are bound to it. *)
StatementInUse ==
    Executes /\ call.phase # "prepare" =>
        /\ Holders(call.stmt) \subseteq disturbed
        /\ call.phase = "bind" /\ stmt[call.stmt].native = "live" => stmt[call.stmt].pos = 0

(* There is still room for the result set of a query. *)
RoomLeft == Executes => \E r \in ResultSetIds : sets[r] = None

RowsInv ==
    /\ \A r \in ResultSetIds : sets[r] # None /\ r \notin disturbed => Rows(r)
    /\ StatementInUse /\ RoomLeft

(* Resetting a statement leaves the others alone, and a live one at its start. *)
LEMMA ResetOthers ==
    ASSUME NEW st \in Statements, NEW s
    PROVE  /\ \A t \in StatementIds : t # s => Reset(st, s)[t] = st[t]
           /\ s \in StatementIds /\ st[s] # None /\ Reset(st, s)[s].native = "live"
                => Reset(st, s)[s].pos = 0
<1>1. CASE s \in StatementIds /\ st[s] # None /\ st[s].native = "live"
  <2>1. st[s] \in Statement  BY <1>1 DEF Statements
  <2>2. PICK new \in Statement : new.pos = 0 /\ new = [st[s] EXCEPT !.pos = 0]
    BY <2>1 DEF Statement
  <2>3. Reset(st, s) = [st EXCEPT ![s] = new]
    BY <1>1, <2>2, StatementsAssumption DEF Reset
  <2> QED  BY <1>1, <2>2, <2>3 DEF Statements
<1>2. CASE ~(s # None /\ st[s] # None /\ st[s].native = "live")
  BY <1>2, StatementsAssumption DEF Reset
<1>3. CASE s \notin StatementIds
  <2>1. [st EXCEPT ![s].pos = 0] = st  BY <1>3 DEF Statements
  <2> QED  BY <1>3, <2>1 DEF Reset
<1> QED  BY <1>1, <1>2, <1>3

(* A result set stays in step as long as its statement does not move: whatever
   the others do, and whatever is let go of. *)
LEMMA RowsSettle ==
    ASSUME IInv, RowsInv, NEW st \in Statements, NEW misuse \in BOOLEAN, Settle(st, misuse),
           sets' \in [ResultSetIds -> ResultSet \cup {None}],
           \A r \in ResultSetIds : sets'[r] # None =>
               /\ sets[r] # None
               /\ sets'[r].sql = sets[r].sql /\ sets'[r].arg = sets[r].arg
               /\ sets'[r].own = sets[r].own /\ sets'[r].read = sets[r].read
               /\ sets'[r].stmt \in {sets[r].stmt, None}
               /\ r \in disturbed => r \in disturbed',
           \A r \in ResultSetIds : sets'[r] # None /\ r \notin disturbed' =>
               /\ sets'[r].ended => sets'[r].read = RowCount[sets'[r].sql]
               /\ sets'[r].stmt # None => ~sets'[r].ended
               /\ sets'[r].stmt # None =>
                    st[sets'[r].stmt] = stmt[sets'[r].stmt] \/ st[sets'[r].stmt].native # "live"
    PROVE  \A r \in ResultSetIds : sets'[r] # None /\ r \notin disturbed' => Rows(r)'
<1> SUFFICES ASSUME NEW r \in ResultSetIds, sets'[r] # None, r \notin disturbed'
             PROVE  Rows(r)'
  OBVIOUS
<1>1. Rows(r) /\ sets[r] # None  BY DEF RowsInv
<1>2. ASSUME sets'[r].stmt # None
      PROVE  /\ Holders(sets[r].stmt)' = {r}
             /\ stmt'[sets'[r].stmt].native = "live" => IsOwnRow(sets[r])'
  <2>1. sets'[r].stmt = sets[r].stmt /\ sets[r].stmt # None  BY <1>2
  <2>2. PICK s \in StatementIds : s = sets[r].stmt
    BY <1>1, <2>1 DEF IInv, TypeOK, ResultSet
  <2>3. Holders(s) = {r} /\ (stmt[s].native = "live" => IsOwnRow(sets[r]))
    BY <1>1, <2>1, <2>2 DEF Rows, InStep
  <2>4. Holders(s)' \subseteq Holders(s) /\ r \in Holders(s)'
    BY <2>1, <2>2 DEF Holders
  <2>5. stmt'[s] = st[s]
    <3>1. s \in Held'  BY <2>4 DEF Held
    <3> QED  BY <3>1, SettleKeeps
  <2>6. st[s] = stmt[s] \/ st[s].native # "live"  BY <2>1, <2>2
  <2>7. stmt'[s].native = "live" => stmt'[s].arg = sets'[r].arg /\ stmt'[s].pos = sets'[r].read
    BY <2>1, <2>2, <2>3, <2>5, <2>6 DEF IsOwnRow
  <2> QED  BY <2>1, <2>2, <2>3, <2>4, <2>7 DEF IsOwnRow
<1> QED  BY <1>1, <1>2 DEF Rows, InStep, IsOwnRow

(* Two result sets share a statement only if a call has used it since. *)
LEMMA Alone ==
    ASSUME RowsInv, NEW r \in ResultSetIds, NEW q \in ResultSetIds, q # r,
           sets[r] # None, sets[q] # None, r \notin disturbed, sets[q].stmt # None
    PROVE  sets[r].stmt # sets[q].stmt
<1> SUFFICES ASSUME sets[r].stmt = sets[q].stmt PROVE FALSE  OBVIOUS
<1>1. Holders(sets[r].stmt) = {r}  BY DEF RowsInv, Rows, InStep
<1>2. q \in Holders(sets[r].stmt)  BY DEF Holders
<1> QED  BY <1>1, <1>2

(* When a call returns, the rows are all there is to see to. *)
LEMMA Returned ==
    ASSUME ~Executes',
           \A r \in ResultSetIds : sets'[r] # None /\ r \notin disturbed' => Rows(r)'
    PROVE  RowsInv'
  BY DEF RowsInv, StatementInUse, RoomLeft

(* The steps that touch neither statements nor result sets. *)
LEMMA RowsStill ==
    ASSUME RowsInv, UNCHANGED <<stmt, sets, disturbed>>
    PROVE  \A r \in ResultSetIds : sets'[r] # None /\ r \notin disturbed' => Rows(r)'
  BY DEF RowsInv, Rows, InStep, IsOwnRow, Holders

(* The call of a query or an update takes its cached statement from those who
   hold it. *)
LEMMA ExecuteRows ==
    ASSUME IInv, IInv', RowsInv, NEW kind \in {"query", "update"}, NEW sql \in SQL, NEW args,
           Execute(kind, sql, args)
    PROVE  RowsInv'
<1> PICK s \in StatementIds \cup {None} : s = IF caching THEN cached[sql] ELSE None
  BY DEF IInv, TypeOK
<1>1. /\ Settle(Reset(stmt, s), Finalized(stmt, s)) /\ Finalized(stmt, s) \in BOOLEAN
      /\ sets' = sets /\ disturbed' = disturbed \cup Holders(s)
      /\ stmt \in Statements
  BY DEF Execute, Finalized, IInv, TypeOK, Statements
<1>2. Reset(stmt, s) \in Statements  BY <1>1, ResetKeeps
<1>3. \A r \in ResultSetIds : sets'[r] # None /\ r \notin disturbed' => Rows(r)'
  <2>1. ASSUME NEW r \in ResultSetIds, sets'[r] # None, r \notin disturbed'
        PROVE  /\ sets'[r].ended => sets'[r].read = RowCount[sets'[r].sql]
               /\ sets'[r].stmt # None => ~sets'[r].ended
               /\ sets'[r].stmt # None =>
                    Reset(stmt, s)[sets'[r].stmt] = stmt[sets'[r].stmt]
    <3>1. Rows(r) /\ r \notin Holders(s)  BY <1>1, <2>1 DEF RowsInv
    <3>2. sets[r].stmt # None => sets[r].stmt \in StatementIds /\ sets[r].stmt # s
      BY <1>1, <2>1, <3>1 DEF Holders, IInv, TypeOK, ResultSet
    <3> QED  BY <1>1, <3>1, <3>2, ResetOthers DEF Rows, InStep
  <2>2. sets' \in [ResultSetIds -> ResultSet \cup {None}]  BY DEF IInv, TypeOK
  <2> QED  BY <1>1, <1>2, <2>1, <2>2, RowsSettle
<1>4. StatementInUse'
  <2>1. call' = [kind |-> kind, phase |-> IF s = None THEN "prepare" ELSE "bind",
                 sql |-> sql, args |-> args, stmt |-> s, set |-> None, tries |-> 0]
    BY DEF Execute
  <2>2. ASSUME s # None, stmt'[s].native = "live" PROVE stmt'[s].pos = 0
    <3>1. s \in Cached' /\ s \in Cached  BY <2>2 DEF Execute, Cached
    <3>2. s \in Held' /\ s \in Held /\ s \in StatementIds  BY <2>2, <3>1 DEF Held
    <3>3. stmt[s] # None  BY <3>2 DEF IInv, HeldExist
    <3>4. stmt'[s] = Reset(stmt, s)[s]  BY <1>1, <1>2, <3>2, SettleKeeps
    <3> QED  BY <1>1, <2>2, <3>2, <3>3, <3>4, ResetOthers
  <2>3. Holders(s)' = Holders(s)  BY <1>1 DEF Holders
  <2> QED  BY <1>1, <2>1, <2>2, <2>3 DEF StatementInUse
<1>5. RoomLeft'  BY <1>1 DEF RoomLeft, Execute, Room
<1> QED  BY <1>3, <1>4, <1>5 DEF RowsInv

(* A statement just prepared is nobody's and at its start. *)
LEMMA PrepareRows == ASSUME IInv, IInv', RowsInv, Prepare PROVE RowsInv'
<1>1. UNCHANGED <<cached, sets, disturbed>> /\ call \in Call /\ call.phase = "prepare"
  BY DEF Prepare, IInv, TypeOK
<1>2. CASE call' = None /\ stmt' = stmt
  BY <1>1, <1>2, RowsStill, Returned DEF Executes
<1>3. CASE AskAgain /\ stmt' = stmt
  <2>1. Executes  BY <1>1 DEF IInv, CallOK, Executes, Prepare
  <2>2. call'.phase = "prepare"  BY <1>1, <1>3 DEF AskAgain, Call
  <2> QED  BY <1>1, <1>3, <2>1, <2>2, RowsStill DEF RowsInv, StatementInUse, RoomLeft
<1>4. ASSUME NEW s \in StatementIds, stmt[s] = None,
             stmt' = [stmt EXCEPT ![s] = [arg |-> None, pos |-> 0, native |-> "live"]],
             call' = [call EXCEPT !.phase = "bind", !.stmt = s, !.tries = 0]
      PROVE  RowsInv'
  <2>1. s \notin Held  BY <1>4 DEF IInv, HeldExist
  <2>2. Holders(s) = {} /\ \A t \in StatementIds : Holders(t)' = Holders(t)
    BY <1>1, <2>1 DEF Held, Holders
  <2>3. ASSUME NEW r \in ResultSetIds, sets'[r] # None, r \notin disturbed'
        PROVE  Rows(r)'
    <3>1. Rows(r) /\ sets'[r] = sets[r]  BY <1>1, <2>3 DEF RowsInv
    <3>2. sets[r].stmt # None => /\ sets[r].stmt \in StatementIds /\ sets[r].stmt # s
                                 /\ Holders(sets[r].stmt)' = Holders(sets[r].stmt)
      BY <1>1, <2>1, <2>2, <2>3 DEF IInv, TypeOK, ResultSet, Held, Holders
    <3>3. sets[r].stmt # None => stmt'[sets[r].stmt] = stmt[sets[r].stmt]
      BY <1>4, <3>2 DEF IInv, TypeOK
    <3> QED  BY <3>1, <3>2, <3>3 DEF Rows, InStep, IsOwnRow
  <2>4. call'.stmt = s /\ stmt'[s].pos = 0
    BY <1>1, <1>4 DEF Call, IInv, TypeOK
  <2>5. Executes  BY <1>1 DEF IInv, CallOK, Executes, Prepare
  <2> QED  BY <1>1, <2>2, <2>3, <2>4, <2>5 DEF RowsInv, StatementInUse, RoomLeft
<1>5. Unused(stmt, StatementIds) \in StatementIds /\ stmt[Unused(stmt, StatementIds)] = None
  BY <1>1 DEF IInv, CallOK, Prepare, Unused
<1> QED  BY <1>2, <1>3, <1>4, <1>5 DEF Prepare, PrepareFails

(* What bound arguments do concerns the new result set alone: it begins with
   the first row, and is in step unless the statement already had a holder. *)
LEMMA BindQueryRows ==
    ASSUME IInv, IInv', OpenSetsExact, RowsInv, Bind, NEW r \in ResultSetIds, sets[r] = None,
           BindQuery(r)
    PROVE  RowsInv'
<1> PICK s \in StatementIds : s = call.stmt  BY BindFacts
<1> DEFINE st == [stmt EXCEPT ![s].arg = call.args]
<1>1. /\ Settle(st, FALSE) /\ stmt \in Statements /\ call' = None
      /\ disturbed' = (disturbed \ {r}) \cup (IF Holders(s) = {} THEN {} ELSE {r})
      /\ stmt[s] \in Statement /\ call.args \in Args
  BY BindFacts DEF BindQuery
<1>2. PICK rs \in ResultSet :
        /\ sets' = [sets EXCEPT ![r] = rs]
        /\ rs.arg = call.args /\ rs.stmt = s /\ rs.read = 0 /\ rs.own /\ ~rs.ended
  <2> DEFINE rs == [sql |-> call.sql, arg |-> call.args, stmt |-> call.stmt,
                    parent |-> TRUE, read |-> 0, own |-> TRUE, ended |-> FALSE]
  <2>1. rs \in ResultSet /\ rs.stmt = s  BY <1>1, BindFacts DEF ResultSet, BindQuery
  <2>2. sets' = [sets EXCEPT ![r] = rs]  BY DEF BindQuery
  <2> QED  BY <2>1, <2>2
<1>3. PICK new \in Statement :
        /\ st = [stmt EXCEPT ![s] = new]
        /\ new.arg = call.args /\ new.native = stmt[s].native /\ new.pos = stmt[s].pos
  <2>1. PICK new \in Statement :
          /\ new = [stmt[s] EXCEPT !.arg = call.args]
          /\ new.arg = call.args /\ new.native = stmt[s].native /\ new.pos = stmt[s].pos
    BY <1>1 DEF Statement
  <2>2. st = [stmt EXCEPT ![s] = [stmt[s] EXCEPT !.arg = call.args]]
    BY <1>1 DEF Statements
  <2> QED  BY <2>1, <2>2
<1>4. st \in Statements  BY <1>1, <1>3 DEF Statements
<1> HIDE DEF st
<1>5. sets \in [ResultSetIds -> ResultSet \cup {None}]  BY DEF IInv, TypeOK
<1>6. Holders(s) \subseteq disturbed
  BY BindFacts DEF RowsInv, StatementInUse, Executes, Bind
<1>7. ASSUME NEW q \in ResultSetIds, q # r, sets'[q] # None, q \notin disturbed'
      PROVE  Rows(q)'
  <2>1. Rows(q) /\ sets'[q] = sets[q]  BY <1>1, <1>2, <1>5, <1>7 DEF RowsInv
  <2>2. ASSUME sets[q].stmt # None
        PROVE  /\ sets[q].stmt # s /\ Holders(sets[q].stmt)' = Holders(sets[q].stmt)
               /\ stmt'[sets[q].stmt] = stmt[sets[q].stmt]
    <3> PICK t \in StatementIds : t = sets[q].stmt
      BY <1>5, <1>7, <2>1, <2>2 DEF ResultSet
    <3>1. t # s  BY <1>1, <1>6, <1>7, <2>1, <2>2 DEF Holders
    <3>2. Holders(t)' = Holders(t) /\ q \in Holders(t)'
      BY <1>2, <1>5, <1>7, <2>1, <2>2, <3>1 DEF Holders
    <3>3. stmt'[t] = st[t]
      <4>1. t \in Held'  BY <3>2 DEF Held
      <4> QED  BY <1>1, <1>4, <4>1, SettleKeeps
    <3> QED  BY <1>1, <1>3, <2>1, <3>1, <3>2, <3>3 DEF Statements
  <2> QED  BY <2>1, <2>2 DEF Rows, InStep, IsOwnRow
<1>8. ASSUME r \notin disturbed' PROVE Rows(r)'
  <2>1. Holders(s) = {} /\ sets'[r] = rs  BY <1>1, <1>2, <1>5, <1>8
  <2>2. Holders(s)' = {r}
    BY <1>2, <1>5, <2>1, StatementsAssumption, NoneAssumption DEF Holders
  <2>3. stmt'[s] = new
    <3>1. s \in Held'  BY <2>2 DEF Held
    <3> QED  BY <1>1, <1>3, <1>4, <3>1, SettleKeeps DEF Statements
  <2>4. stmt[s].native = "live" => stmt[s].pos = 0
    BY BindFacts DEF RowsInv, StatementInUse, Executes, Bind
  <2> QED  BY <1>2, <1>3, <2>1, <2>2, <2>3, <2>4 DEF Rows, InStep, IsOwnRow
<1> QED  BY <1>1, <1>7, <1>8, Returned DEF Executes

(* Wrong arguments end the call; the statement they spoil belongs to no result
   set that is in step. *)
LEMMA BindFailsRows ==
    ASSUME IInv, IInv', RowsInv, Bind, BindMiscounts \/ BindRaises
    PROVE  RowsInv'
<1> PICK s \in StatementIds : s = call.stmt  BY BindFacts
<1>1. stmt \in Statements /\ stmt[s] \in Statement  BY BindFacts
<1>2. PICK new \in Statement \cup {None} : Settle([stmt EXCEPT ![s] = new], FALSE)
  <2>1. /\ [stmt[s] EXCEPT !.native = "finalized"] \in Statement
        /\ [stmt[s] EXCEPT !.native = "leaked"] \in Statement
        /\ [stmt[s] EXCEPT !.arg = None] \in Statement
    BY <1>1 DEF Statement
  <2>2. CASE BindMiscounts
    <3>1. CASE Fresh  BY <2>2, <3>1 DEF BindMiscounts
    <3>2. CASE ~Fresh  BY <2>1, <2>2, <3>2 DEF BindMiscounts
    <3> QED  BY <3>1, <3>2
  <2>3. CASE BindRaises
    <3>1. CASE Fresh  BY <2>1, <2>3, <3>1 DEF BindRaises
    <3>2. CASE ~Fresh  BY <2>1, <2>3, <3>2 DEF BindRaises
    <3> QED  BY <3>1, <3>2
  <2> QED  BY <2>2, <2>3
<1> DEFINE st == [stmt EXCEPT ![s] = new]
<1>3. st \in Statements /\ \A t \in StatementIds : t # s => st[t] = stmt[t]
  BY <1>1 DEF Statements
<1>4. UNCHANGED <<sets, disturbed>> /\ call' = None /\ Settle(st, FALSE)
  BY <1>2 DEF BindMiscounts, BindRaises
<1> HIDE DEF st
<1>5. Holders(s) \subseteq disturbed
  BY BindFacts DEF RowsInv, StatementInUse, Executes, Bind
<1>6. ASSUME NEW r \in ResultSetIds, sets'[r] # None, r \notin disturbed'
      PROVE  /\ sets'[r].ended => sets'[r].read = RowCount[sets'[r].sql]
             /\ sets'[r].stmt # None => ~sets'[r].ended
             /\ sets'[r].stmt # None => st[sets'[r].stmt] = stmt[sets'[r].stmt]
  <2>1. Rows(r) /\ r \notin Holders(s)  BY <1>4, <1>5, <1>6 DEF RowsInv
  <2>2. sets[r].stmt # None => sets[r].stmt \in StatementIds /\ sets[r].stmt # s
    BY <1>4, <1>6, <2>1 DEF Holders, IInv, TypeOK, ResultSet
  <2> QED  BY <1>3, <1>4, <2>1, <2>2 DEF Rows, InStep
<1>7. sets' \in [ResultSetIds -> ResultSet \cup {None}]  BY DEF IInv, TypeOK
<1>8. \A r \in ResultSetIds : sets'[r] # None /\ r \notin disturbed' => Rows(r)'
  BY <1>3, <1>4, <1>6, <1>7, RowsSettle
<1> QED  BY <1>4, <1>8, Returned DEF Executes

(* A statement whose holders are disturbed changes: the others stay in step. *)
LEMMA OnlyRows ==
    ASSUME IInv, RowsInv, NEW s \in StatementIds, NEW new \in Statement,
           Settle(Only(s, new), FALSE), UNCHANGED <<sets, disturbed>>, Holders(s) \subseteq disturbed
    PROVE  \A r \in ResultSetIds : sets'[r] # None /\ r \notin disturbed' => Rows(r)'
<1> DEFINE st == Only(s, new)
<1>1. st \in Statements /\ (\A t \in StatementIds : t # s => st[t] = stmt[t]) /\ Settle(st, FALSE)
  BY OnlyOne
<1> HIDE DEF st
<1>2. ASSUME NEW r \in ResultSetIds, sets'[r] # None, r \notin disturbed'
      PROVE  /\ sets'[r].ended => sets'[r].read = RowCount[sets'[r].sql]
             /\ sets'[r].stmt # None => ~sets'[r].ended
             /\ sets'[r].stmt # None => st[sets'[r].stmt] = stmt[sets'[r].stmt]
  <2>1. Rows(r) /\ r \notin Holders(s)  BY <1>2 DEF RowsInv
  <2>2. sets[r].stmt # None => sets[r].stmt \in StatementIds /\ sets[r].stmt # s
    BY <1>2, <2>1 DEF Holders, IInv, TypeOK, ResultSet
  <2> QED  BY <1>1, <1>2, <2>1, <2>2 DEF Rows, InStep
<1>3. sets' \in [ResultSetIds -> ResultSet \cup {None}]  BY DEF IInv, TypeOK
<1> QED  BY <1>1, <1>2, <1>3, RowsSettle

(* Every way to bind. *)
LEMMA BindRows == ASSUME IInv, IInv', OpenSetsExact, RowsInv, Bind PROVE RowsInv'
<1>1. CASE BindMiscounts \/ BindRaises  BY <1>1, BindFailsRows
<1>2. ASSUME NEW r \in ResultSetIds, BindQuery(r) PROVE RowsInv'
  <2>1. sets[r] = None
    BY <1>2, BindFacts DEF BindQuery, Unused, RowsInv, RoomLeft, Executes
  <2> QED  BY <1>2, <2>1, BindQueryRows
<1>3. CASE BindUpdate
  <2>1. UNCHANGED <<sets, disturbed>>  BY <1>3 DEF BindUpdate
  <2>2. call'.phase = "step" /\ call'.stmt = call.stmt
    BY <1>3, BindFacts DEF BindUpdate, Call
  <2>3. Holders(call.stmt) \subseteq disturbed
    BY BindFacts DEF RowsInv, StatementInUse, Executes, Bind
  <2>4. Holders(call.stmt)' \subseteq disturbed'  BY <2>1, <2>2, <2>3 DEF Holders
  <2>5. PICK new \in Statement : Settle(Only(call.stmt, new), FALSE)  BY <1>3, UpdateBinds
  <2>6. \A r \in ResultSetIds : sets'[r] # None /\ r \notin disturbed' => Rows(r)'
    BY <2>1, <2>3, <2>5, BindFacts, OnlyRows
  <2> QED  BY <2>2, <2>4, <2>6, <2>1, BindFacts DEF RowsInv, StatementInUse, RoomLeft, Executes
<1> QED  BY <1>1, <1>2, <1>3 DEF Bind

(* An update ends with a reset of its statement. *)
LEMMA StepUpdateRows == ASSUME IInv, IInv', RowsInv, StepUpdate PROVE RowsInv'
<1> PICK s \in StatementIds : s = call.stmt  BY DEF StepUpdate, IInv, CallOK
<1>1. UNCHANGED <<sets, disturbed>> /\ stmt \in Statements /\ call \in Call
  BY DEF StepUpdate, IInv, TypeOK, Statements
<1>2. Holders(s) \subseteq disturbed
  BY DEF StepUpdate, RowsInv, StatementInUse, Executes
<1>5. CASE UpdateRaises
  <2>1. PICK new \in Statement : Settle(Only(s, new), FALSE)  BY <1>5, UpdateLeaves
  <2>2. call' = None  BY <1>5 DEF UpdateRaises
  <2>3. \A r \in ResultSetIds : sets'[r] # None /\ r \notin disturbed' => Rows(r)'
    BY <1>1, <1>2, <2>1, OnlyRows
  <2> QED  BY <2>2, <2>3, Returned DEF Executes
<1>3. CASE AskAgain /\ stmt' = stmt
  <2>1. call'.stmt = s /\ call'.phase = call.phase  BY <1>1, <1>3 DEF AskAgain, Call
  <2>2. Holders(call.stmt)' \subseteq disturbed'  BY <1>1, <1>2, <2>1 DEF Holders
  <2> QED  BY <1>1, <1>3, <2>1, <2>2, RowsStill
           DEF RowsInv, StatementInUse, RoomLeft, Executes, StepUpdate
<1>4. CASE call' = None /\ Settle(Reset(stmt, s), FALSE)
  <2>1. Reset(stmt, s) \in Statements  BY <1>1, ResetKeeps
  <2>2. ASSUME NEW r \in ResultSetIds, sets'[r] # None, r \notin disturbed'
        PROVE  /\ sets'[r].ended => sets'[r].read = RowCount[sets'[r].sql]
               /\ sets'[r].stmt # None => ~sets'[r].ended
               /\ sets'[r].stmt # None => Reset(stmt, s)[sets'[r].stmt] = stmt[sets'[r].stmt]
    <3>1. Rows(r) /\ r \notin Holders(s)  BY <1>1, <1>2, <2>2 DEF RowsInv
    <3>2. sets[r].stmt # None => sets[r].stmt \in StatementIds /\ sets[r].stmt # s
      BY <1>1, <2>2, <3>1 DEF Holders, IInv, TypeOK, ResultSet
    <3> QED  BY <1>1, <3>1, <3>2, ResetOthers DEF Rows, InStep
  <2>3. sets' \in [ResultSetIds -> ResultSet \cup {None}]  BY DEF IInv, TypeOK
  <2>4. \A r \in ResultSetIds : sets'[r] # None /\ r \notin disturbed' => Rows(r)'
    BY <1>1, <1>4, <2>1, <2>2, <2>3, RowsSettle
  <2> QED  BY <1>4, <2>4, Returned DEF Executes
<1> QED  BY <1>3, <1>4, <1>5 DEF StepUpdate

(* A row is read: the statement and the one result set in step with it move on
   together. *)
LEMMA YieldRowRows ==
    ASSUME IInv, IInv', OpenSetsExact, RowsInv, StepNext, YieldRow(call.set)
    PROVE  RowsInv'
<1> PICK c \in ResultSetIds : c = call.set  BY StepNextFacts
<1> PICK s \in StatementIds : s = sets[c].stmt  BY StepNextFacts
<1>1. /\ sets[c] \in ResultSet /\ stmt[s] \in Statement /\ stmt \in Statements
      /\ sets \in [ResultSetIds -> ResultSet \cup {None}]
      /\ disturbed' = disturbed /\ call' = None /\ s # None
      /\ stmt[s].native = "live"
  BY StepNextFacts, StatementsAssumption DEF YieldRow, IInv, TypeOK
<1>2. PICK new \in Statement :
        /\ stmt' = [stmt EXCEPT ![s] = new]
        /\ new.arg = stmt[s].arg /\ new.pos = stmt[s].pos + 1
  <2>1. /\ [stmt[s] EXCEPT !.pos = stmt[s].pos + 1] \in Statement
        /\ [stmt[s] EXCEPT !.pos = stmt[s].pos + 1].arg = stmt[s].arg
        /\ [stmt[s] EXCEPT !.pos = stmt[s].pos + 1].pos = stmt[s].pos + 1
    <3>1. stmt[s].pos + 1 \in Nat  BY <1>1 DEF Statement
    <3> QED  BY <1>1, <3>1 DEF Statement
  <2>2. stmt' = [stmt EXCEPT ![s] = [stmt[s] EXCEPT !.pos = stmt[s].pos + 1]]
    BY <1>1 DEF YieldRow, Statements
  <2> QED  BY <2>1, <2>2
<1>3. PICK rs \in ResultSet :
        /\ sets' = [sets EXCEPT ![c] = rs]
        /\ rs.sql = sets[c].sql /\ rs.arg = sets[c].arg /\ rs.stmt = s
        /\ rs.ended = sets[c].ended
        /\ sets[c].own /\ IsOwnRow(sets[c]) => rs.own /\ rs.read = sets[c].read + 1
  <2> DEFINE next == [sets[c] EXCEPT !.read = sets[c].read + 1]
             other == [sets[c] EXCEPT !.own = FALSE]
  <2>1. /\ next \in ResultSet /\ next.sql = sets[c].sql /\ next.arg = sets[c].arg
        /\ next.stmt = s /\ next.ended = sets[c].ended /\ next.own = sets[c].own
        /\ next.read = sets[c].read + 1
    <3>1. sets[c].read + 1 \in Nat  BY <1>1 DEF ResultSet
    <3> QED  BY <1>1, <3>1 DEF ResultSet
  <2>2. /\ other \in ResultSet /\ other.sql = sets[c].sql /\ other.arg = sets[c].arg
        /\ other.stmt = s /\ other.ended = sets[c].ended
    BY <1>1 DEF ResultSet
  <2>3. CASE sets[c].own /\ IsOwnRow(sets[c])
    BY <2>1, <2>3 DEF YieldRow
  <2>4. CASE ~(sets[c].own /\ IsOwnRow(sets[c]))
    BY <2>2, <2>4 DEF YieldRow
  <2> QED  BY <2>3, <2>4
<1>4. sets[c] # None  BY <1>1, NoneAssumption
<1>5. \A t \in StatementIds : Holders(t)' = Holders(t)
  BY <1>1, <1>3, <1>4, NoneAssumption DEF Holders
<1>6. ASSUME NEW q \in ResultSetIds, q # c, sets'[q] # None, q \notin disturbed'
      PROVE  Rows(q)'
  <2>1. Rows(q) /\ sets'[q] = sets[q]  BY <1>1, <1>3, <1>6 DEF RowsInv
  <2>2. ASSUME sets[q].stmt # None
        PROVE  /\ Holders(sets[q].stmt)' = Holders(sets[q].stmt)
               /\ stmt'[sets[q].stmt] = stmt[sets[q].stmt]
    <3>1. sets[q].stmt # s  BY <1>1, <1>4, <1>6, <2>1, Alone
    <3>2. sets[q].stmt \in StatementIds  BY <1>1, <1>6, <2>1, <2>2 DEF ResultSet
    <3>3. Holders(sets[q].stmt)' = Holders(sets[q].stmt)
      BY <1>5, <2>1, <3>2 DEF Holders
    <3> QED  BY <1>1, <1>2, <3>1, <3>2, <3>3 DEF Statements
  <2> QED  BY <2>1, <2>2 DEF Rows, InStep, IsOwnRow
<1>7. ASSUME c \notin disturbed' PROVE Rows(c)'
  <2>1. Rows(c) /\ sets'[c] = rs /\ stmt'[s] = new
    BY <1>1, <1>2, <1>3, <1>4, <1>7 DEF RowsInv, Statements
  <2>2. ~sets[c].ended /\ Holders(s) = {c} /\ sets[c].own /\ IsOwnRow(sets[c])
    BY <1>1, <2>1 DEF Rows, InStep
  <2>3. new.arg = rs.arg /\ new.pos = rs.read
    BY <1>2, <1>3, <2>2 DEF IsOwnRow
  <2>4. Holders(s)' = {c}  BY <1>5, <2>2
  <2> QED  BY <1>3, <2>1, <2>2, <2>3, <2>4 DEF Rows, InStep, IsOwnRow
<1> QED  BY <1>1, <1>6, <1>7, Returned DEF Executes

(* A result set that is closed, at the end of its rows or before, or that is
   deallocated, resets its statement, and no other one is in step with that. *)
LEMMA OneClosedRows ==
    ASSUME IInv, IInv', RowsInv, NEW c \in ResultSetIds, sets[c] # None,
           Settle(Reset(stmt, sets[c].stmt), Finalized(stmt, sets[c].stmt)),
           ~Executes', disturbed' \in {disturbed, disturbed \ {c}},
           \A q \in ResultSetIds : q # c => sets'[q] = sets[q],
           sets'[c] # None =>
               /\ disturbed' = disturbed
               /\ sets'[c].sql = sets[c].sql /\ sets'[c].arg = sets[c].arg
               /\ sets'[c].own = sets[c].own /\ sets'[c].read = sets[c].read
               /\ sets'[c].stmt = None
               /\ c \notin disturbed /\ sets'[c].ended => sets'[c].read = RowCount[sets'[c].sql]
    PROVE  RowsInv'
<1> PICK s \in StatementIds \cup {None} : s = sets[c].stmt
  BY DEF IInv, TypeOK, ResultSet
<1>1. /\ stmt \in Statements /\ Finalized(stmt, s) \in BOOLEAN
      /\ Settle(Reset(stmt, s), Finalized(stmt, s))
      /\ sets \in [ResultSetIds -> ResultSet \cup {None}]
      /\ sets' \in [ResultSetIds -> ResultSet \cup {None}]
  BY DEF Finalized, IInv, TypeOK, Statements
<1>2. Reset(stmt, s) \in Statements  BY <1>1, ResetKeeps
<1>3. ASSUME NEW r \in ResultSetIds, sets'[r] # None, r \notin disturbed'
      PROVE  /\ sets'[r].ended => sets'[r].read = RowCount[sets'[r].sql]
             /\ sets'[r].stmt # None => ~sets'[r].ended
             /\ sets'[r].stmt # None => Reset(stmt, s)[sets'[r].stmt] = stmt[sets'[r].stmt]
  <2>1. CASE r = c  BY <1>3, <2>1
  <2>2. CASE r # c
    <3>1. sets'[r] = sets[r] /\ r \notin disturbed  BY <1>3, <2>2
    <3>2. Rows(r)  BY <1>3, <3>1 DEF RowsInv
    <3>3. sets[r].stmt # None => sets[r].stmt \in StatementIds /\ sets[r].stmt # s
      BY <1>1, <1>3, <2>2, <3>1, Alone DEF ResultSet
    <3> QED  BY <1>1, <3>1, <3>2, <3>3, ResetOthers DEF Rows, InStep
  <2> QED  BY <2>1, <2>2
<1>4. \A r \in ResultSetIds : sets'[r] # None /\ r \notin disturbed' => Rows(r)'
  <2>1. \A r \in ResultSetIds : sets'[r] # None =>
          /\ sets[r] # None
          /\ sets'[r].sql = sets[r].sql /\ sets'[r].arg = sets[r].arg
          /\ sets'[r].own = sets[r].own /\ sets'[r].read = sets[r].read
          /\ sets'[r].stmt \in {sets[r].stmt, None}
          /\ r \in disturbed => r \in disturbed'
    OBVIOUS
  <2> QED  BY <1>1, <1>2, <1>3, <2>1, RowsSettle
<1> QED  BY <1>4, Returned

(* What closing a result set leaves as it was. *)
LEMMA ClosedSetLeaves ==
    ASSUME NEW rs \in ResultSet
    PROVE  /\ ClosedSet(rs).sql = rs.sql /\ ClosedSet(rs).arg = rs.arg
           /\ ClosedSet(rs).own = rs.own /\ ClosedSet(rs).read = rs.read
           /\ ClosedSet(rs).ended = rs.ended /\ ClosedSet(rs).stmt = None
  BY DEF ClosedSet, ResultSet

(* The rows end: all of them have been read, or next failed. *)
LEMMA EndRowsRows ==
    ASSUME IInv, IInv', RowsInv, StepNext, EndRows(call.set)
    PROVE  RowsInv'
<1> PICK c \in ResultSetIds : c = call.set  BY StepNextFacts
<1> DEFINE ended == stmt[sets[c].stmt].native = "live"
                      /\ stmt[sets[c].stmt].pos = RowCount[sets[c].sql]
<1>1. /\ sets[c] \in ResultSet /\ sets[c] # None /\ sets[c].stmt # None
      /\ sets \in [ResultSetIds -> ResultSet \cup {None}]
      /\ disturbed' = disturbed /\ call' = None
  BY StepNextFacts, NoneAssumption, StatementsAssumption DEF EndRows, IInv, TypeOK
<1>2. PICK rs \in ResultSet :
        /\ rs.sql = sets[c].sql /\ rs.arg = sets[c].arg /\ rs.own = sets[c].own
        /\ rs.read = sets[c].read /\ (rs.ended <=> ended)
        /\ sets' = [sets EXCEPT ![c] = ClosedSet(rs)]
  <2>1. [sets[c] EXCEPT !.ended = ended] \in ResultSet  BY <1>1 DEF ResultSet
  <2>2. sets' = [sets EXCEPT ![c] = ClosedSet([sets[c] EXCEPT !.ended = ended])]
    BY DEF EndRows
  <2> HIDE DEF ended
  <2> QED  BY <1>1, <2>1, <2>2 DEF ResultSet
<1>3. c \notin disturbed /\ ended => sets[c].read = RowCount[sets[c].sql]
  BY <1>1 DEF RowsInv, Rows, InStep, IsOwnRow
<1> HIDE DEF ended
<1>4. /\ sets'[c] = ClosedSet(rs)
      /\ \A q \in ResultSetIds : q # c => sets'[q] = sets[q]
  BY <1>1, <1>2
<1>5. Settle(Reset(stmt, sets[c].stmt), Finalized(stmt, sets[c].stmt))
  BY DEF EndRows
<1> QED  BY <1>1, <1>2, <1>3, <1>4, <1>5, ClosedSetLeaves, OneClosedRows DEF Executes

(* Every answer to next. *)
LEMMA StepNextRows == ASSUME IInv, IInv', OpenSetsExact, RowsInv, StepNext PROVE RowsInv'
<1>1. CASE YieldRow(call.set)  BY <1>1, YieldRowRows
<1>2. CASE EndRows(call.set)  BY <1>2, EndRowsRows
<1>3. CASE AskAgain /\ UNCHANGED <<stmt, sets, openSets, undefined>>
  <2>1. call'.kind = "next"  BY <1>3, StepNextFacts, CallGoesOn
  <2> QED  BY <1>3, <2>1, StepNextFacts, RowsStill, Returned DEF Executes
<1> QED  BY <1>1, <1>2, <1>3 DEF StepNext

(* Clients close and release result sets when they like. *)
LEMMA CloseOrDeallocRows ==
    ASSUME IInv, IInv', RowsInv, NEW c \in ResultSetIds, CloseResultSet(c) \/ Dealloc(c)
    PROVE  RowsInv'
<1>1. /\ sets \in [ResultSetIds -> ResultSet \cup {None}] /\ sets[c] # None
      /\ Settle(Reset(stmt, sets[c].stmt), Finalized(stmt, sets[c].stmt)) /\ ~Executes'
  BY DEF CloseResultSet, Dealloc, Idle, Executes, IInv, TypeOK
<1>2. CASE CloseResultSet(c)
  <2>1. /\ sets' = [sets EXCEPT ![c] = ClosedSet(sets[c])] /\ disturbed' = disturbed
        /\ sets[c] \in ResultSet /\ sets[c].stmt # None
    BY <1>1, <1>2 DEF CloseResultSet
  <2>2. sets'[c] = ClosedSet(sets[c]) /\ \A q \in ResultSetIds : q # c => sets'[q] = sets[q]
    BY <1>1, <2>1
  <2>3. c \notin disturbed => ~sets[c].ended
    BY <1>1, <2>1 DEF RowsInv, Rows, InStep
  <2> QED  BY <1>1, <2>1, <2>2, <2>3, ClosedSetLeaves, OneClosedRows
<1>3. CASE Dealloc(c)
  <2>1. sets' = [sets EXCEPT ![c] = None] /\ disturbed' = disturbed \ {c}
    BY <1>3 DEF Dealloc
  <2>2. sets'[c] = None /\ \A q \in ResultSetIds : q # c => sets'[q] = sets[q]
    BY <1>1, <2>1
  <2> QED  BY <1>1, <2>1, <2>2, OneClosedRows
<1> QED  BY <1>2, <1>3

(* clearCachedStatements closes statements that result sets hold: they are not
   live any more, and yield no row that could be wrong. *)
LEMMA ClearRows == ASSUME IInv, IInv', RowsInv, ClearCachedStatements PROVE RowsInv'
<1> DEFINE misuse == \E s \in Cached : Finalized(stmt, s)
<1>1. /\ Settle(ClosedCache(stmt), misuse) /\ UNCHANGED <<sets, disturbed>> /\ ~Executes'
      /\ stmt \in Statements /\ Cached \subseteq StatementIds
      /\ \A s \in Cached : stmt[s] \in Statement
  BY DEF ClearCachedStatements, Idle, Executes, IInv, TypeOK, HeldExist, Held, Statements
<1>2. misuse \in BOOLEAN  OBVIOUS
<1> HIDE DEF misuse
<1>3. sets' \in [ResultSetIds -> ResultSet \cup {None}]  BY DEF IInv, TypeOK
<1>4. \A s \in StatementIds :
        ClosedCache(stmt)[s] = stmt[s] \/ ClosedCache(stmt)[s].native # "live"
  <2>1. \A s \in Cached : [stmt[s] EXCEPT !.native = "closed"].native # "live"
    BY <1>1 DEF Statement
  <2> QED  BY <2>1 DEF ClosedCache
<1>5. ASSUME NEW r \in ResultSetIds, sets'[r] # None, r \notin disturbed'
      PROVE  /\ sets'[r].ended => sets'[r].read = RowCount[sets'[r].sql]
             /\ sets'[r].stmt # None => ~sets'[r].ended
             /\ sets'[r].stmt # None =>
                  \/ ClosedCache(stmt)[sets'[r].stmt] = stmt[sets'[r].stmt]
                  \/ ClosedCache(stmt)[sets'[r].stmt].native # "live"
  <2>1. Rows(r)  BY <1>1, <1>5 DEF RowsInv
  <2>2. sets'[r].stmt # None => sets'[r].stmt \in StatementIds
    BY <1>3, <1>5 DEF ResultSet
  <2> QED  BY <1>1, <1>4, <2>1, <2>2 DEF Rows, InStep
<1>6. \A r \in ResultSetIds : sets'[r] # None /\ r \notin disturbed' => Rows(r)'
  BY <1>1, <1>2, <1>3, <1>5, ClosedCacheKeeps, RowsSettle
<1> QED  BY <1>1, <1>6, Returned

(* Closing all result sets at once leaves none that could get out of step. *)
LEMMA AllClosedRows ==
    ASSUME IInv, IInv', OpenSetsExact, RowsInv, CloseOpenResultSets \/ Close
    PROVE  RowsInv'
<1>1. sets' = AllClosed /\ disturbed' = disturbed /\ ~Executes'
  BY DEF CloseOpenResultSets, Close, Idle, Executes
<1>2. ASSUME NEW r \in ResultSetIds, sets'[r] # None, r \notin disturbed'
      PROVE  Rows(r)'
  <2>1. sets[r] # None /\ sets'[r].stmt = None  BY <1>1, <1>2, AllClosedKeeps
  <2>2. Rows(r) /\ sets[r] \in ResultSet  BY <1>1, <1>2, <2>1 DEF RowsInv, IInv, TypeOK
  <2>3. /\ sets'[r].own = sets[r].own /\ sets'[r].ended = sets[r].ended
        /\ sets'[r].read = sets[r].read /\ sets'[r].sql = sets[r].sql
    BY <1>1, <2>2, ClosedSetLeaves DEF AllClosed
  <2> QED  BY <2>1, <2>2, <2>3 DEF Rows, InStep
<1> QED  BY <1>1, <1>2, Returned

(* Letting go of the cache moves no statement. *)
LEMMA SetShouldCacheStatementsRows ==
    ASSUME IInv, IInv', RowsInv, NEW value \in BOOLEAN, SetShouldCacheStatements(value)
    PROVE  RowsInv'
<1>1. /\ Settle(stmt, FALSE) /\ UNCHANGED <<sets, disturbed>> /\ ~Executes'
      /\ stmt \in Statements /\ sets \in [ResultSetIds -> ResultSet \cup {None}]
  BY DEF SetShouldCacheStatements, Idle, Executes, IInv, TypeOK, Statements
<1>2. \A r \in ResultSetIds : sets[r] # None /\ r \notin disturbed =>
        /\ sets[r].ended => sets[r].read = RowCount[sets[r].sql]
        /\ sets[r].stmt # None => ~sets[r].ended
  BY DEF RowsInv, Rows, InStep
<1>3. \A r \in ResultSetIds : sets'[r] # None /\ r \notin disturbed' => Rows(r)'
  BY <1>1, <1>2, RowsSettle
<1> QED  BY <1>1, <1>3, Returned

(* Every step keeps the result sets that share nothing in step. *)
LEMMA RowsStep == IInv /\ OpenSetsExact /\ RowsInv /\ [NextStatements]_vars => RowsInv'
<1> SUFFICES ASSUME IInv, OpenSetsExact, RowsInv, [NextStatements]_vars PROVE RowsInv'
  OBVIOUS
<1>1. IInv'  BY IInvStep
<1>2. CASE Open
  BY <1>2, RowsStill, Returned DEF Open, Idle, Executes
<1>3. CASE \/ \E q \in Queries, a \in Args \cup {Miscount, Short} : Execute("query", q, a)
           \/ \E u \in SQL, a \in Args \cup {Miscount, Short} : Execute("update", u, a)
  BY <1>1, <1>3, ExecuteRows DEF SQL
<1>4. CASE Prepare  BY <1>1, <1>4, PrepareRows
<1>5. CASE Bind  BY <1>1, <1>5, BindRows
<1>6. CASE StepUpdate  BY <1>1, <1>6, StepUpdateRows
<1>7. CASE StepNext  BY <1>1, <1>7, StepNextRows
<1>8. ASSUME NEW r \in ResultSetIds, Next(r) PROVE RowsInv'
  <2>1. call'.kind = "next" /\ UNCHANGED <<stmt, sets, disturbed>>  BY <1>8 DEF Next
  <2> QED  BY <2>1, RowsStill, Returned DEF Executes
<1>9. ASSUME NEW r \in ResultSetIds, CloseResultSet(r) \/ Dealloc(r) PROVE RowsInv'
  BY <1>1, <1>9, CloseOrDeallocRows
<1>10. CASE ClearCachedStatements  BY <1>1, <1>10, ClearRows
<1>11. CASE CloseOpenResultSets \/ Close  BY <1>1, <1>11, AllClosedRows
<1>12. ASSUME NEW value \in BOOLEAN, SetShouldCacheStatements(value) PROVE RowsInv'
  BY <1>1, <1>12, SetShouldCacheStatementsRows
<1>13. CASE UNCHANGED vars
  BY <1>13 DEF vars, RowsInv, Rows, InStep, IsOwnRow, StatementInUse, RoomLeft, Executes, Holders
<1> QED
  BY <1>2, <1>3, <1>4, <1>5, <1>6, <1>7, <1>8, <1>9, <1>10, <1>11, <1>12, <1>13
     DEF NextStatements, Answer

-----------------------------------------------------------------------------
FullInv == IInv /\ OpenSetsExact /\ FlagInv /\ FinalInv /\ ClosedInv /\ RowsInv

(* The initial state satisfies the invariant. *)
LEMMA InitFullInv == Init => FullInv
<1> SUFFICES ASSUME Init PROVE FullInv  OBVIOUS
<1> USE DEF Init
<1>1. Held = {}  BY DEF Held, Cached, Holders
<1>2. TypeOK  BY DEF TypeOK
<1> QED
  BY <1>1, <1>2 DEF FullInv, IInv, HeldExist, CallOK, OpenSetsExact, FlagInv, InUseFlag, Executes,
     FinalInv, NoUseAfterFinalize, Finalized, ClosedInv, RowsInv, StatementInUse, RoomLeft

(* Every step keeps it. *)
LEMMA FullInvStep == FullInv /\ [NextStatements]_vars => FullInv'
  BY IInvStep, OpenSetsStep, FlagStep, FinalStep, ClosedStep, RowsStep DEF FullInv

(* The strengthened invariant holds in every reachable state. *)
LEMMA FullInvAlways == Spec => []FullInv
  BY InitFullInv, FullInvStep, PTL DEF Spec

(* The types of the connection's state are right in every state. *)
THEOREM TypeCorrect == Spec => []TypeOK
<1>1. FullInv => TypeOK  BY DEF FullInv, IInv
<1> QED  BY <1>1, FullInvAlways, PTL

(* _openResultSets points to the result sets that are open and to no other,
   whatever its clients close, release or abandon, and in whatever order. *)
THEOREM OpenSetsAlwaysExact == Spec => []OpenSetsExact
<1>1. FullInv => OpenSetsExact  BY DEF FullInv
<1> QED  BY <1>1, FullInvAlways, PTL

(* Every way out of executeQuery: and executeUpdate: but an exception takes
   the flag down. *)
THEOREM FlagAlwaysRight == Spec => []InUseFlag
<1>1. FullInv => InUseFlag  BY DEF FullInv, FlagInv
<1> QED  BY <1>1, FullInvAlways, PTL

(* Without a wrong number of arguments SQLite is never handed a finalized
   statement: neither caching nor closing in any order leads there. *)
THEOREM FinalizedOnce == Spec => []NoUseAfterFinalize
<1>1. FullInv => NoUseAfterFinalize  BY DEF FullInv, FinalInv
<1> QED  BY <1>1, FullInvAlways, PTL

(* A result set that shares its cached statement with no later call yields the
   rows of its query with its arguments, in order and each once, and ends after
   the last, whatever is cached, cleared or closed in between. *)
THEOREM RowsInOrder == Spec => []OwnRows
<1>1. FullInv => OwnRows  BY DEF FullInv, RowsInv, Rows, OwnRows
<1> QED  BY <1>1, FullInvAlways, PTL

(* After close SQLite has no statement of the connection left, so that
   sqlite3_close is not busy for ever. *)
THEOREM CloseLeavesNothing == Spec => []ClosedIsEmpty
<1>1. FullInv => ClosedIsEmpty
  <2> SUFFICES ASSUME FullInv, ~db
               PROVE  /\ \A s \in StatementIds : stmt[s] = None
                      /\ \A r \in ResultSetIds : sets[r] # None => sets[r].stmt = None
    BY DEF ClosedIsEmpty
  <2>1. \A s \in StatementIds : stmt[s] = None  BY DEF FullInv, ClosedInv
  <2>2. Held = {}  BY <2>1 DEF FullInv, IInv, HeldExist
  <2>3. \A r \in ResultSetIds : sets[r] # None => sets[r].stmt \notin StatementIds
    BY <2>2, StatementsAssumption DEF Held, Holders
  <2>4. \A r \in ResultSetIds : sets[r] # None => sets[r].stmt \in StatementIds \cup {None}
    BY DEF FullInv, IInv, TypeOK, ResultSet
  <2> QED  BY <2>1, <2>3, <2>4
<1> QED  BY <1>1, FullInvAlways, PTL
=============================================================================
