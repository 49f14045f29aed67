------------------------- MODULE DatabasePool_proofs -------------------------
(***************************************************************************)
(* Proof that the pool never lends one connection twice, for any number of *)
(* calls, any bound on the databases and any faults.                       *)
(***************************************************************************)
EXTENDS DatabasePool, FMDatabase_proofs, FiniteSetTheorems

(* Databases are numbered as they are created, so a new one differs from every
   one lent or in the pool. *)
Known ==
    /\ \A c \in Calls : holds[c] # None => holds[c] \in 1..created
    /\ \A i \in DOMAIN inPool : inPool[i] \in 1..created

(* The inductive invariant: Exclusive does not say which databases there are,
   nor that a call that has not been made holds none. *)
PoolInv ==
    /\ inPool \in Seq(Nat)
    /\ created \in Nat
    /\ step \in [Calls -> Steps]
    /\ holds \in [Calls -> Nat \cup {None}]
    /\ \A c \in Calls : step[c] = "idle" => holds[c] = None
    /\ Known
    /\ Exclusive

(* What removeLastObject leaves is what was there before. *)
LEMMA FrontOfSeq ==
    ASSUME NEW s \in Seq(Nat), s # <<>>
    PROVE  /\ Front(s) \in Seq(Nat)
           /\ DOMAIN Front(s) = 1..(Len(s) - 1)
           /\ Len(Front(s)) = Len(s) - 1
           /\ \A i \in 1..(Len(s) - 1) : Front(s)[i] = s[i]
           /\ Len(s) \in DOMAIN s
           /\ DOMAIN s = 1..Len(s)
  <1>1. Len(s) \in Nat /\ Len(s) # 0 /\ DOMAIN s = 1..Len(s)
    OBVIOUS
  <1>2. \A n \in Nat : n <= Len(s) => Len(SubSeq(s, 1, n)) = n
    <2> SUFFICES ASSUME NEW n \in Nat, n <= Len(s) PROVE Len(SubSeq(s, 1, n)) = n
      OBVIOUS
    <2>1. \A i \in 1..n : s[i] \in Nat
      BY <1>1
    <2>2. Len(SubSeq(s, 1, n)) = (IF 1 <= n THEN n - 1 + 1 ELSE 0)
      BY <2>1, SubSeqProperties
    <2> HIDE DEF Front
    <2> QED
      BY <2>2
  <1>3. Len(s) - 1 \in Nat /\ Len(s) - 1 <= Len(s)
    BY <1>1
  <1>4. Len(Front(s)) = Len(s) - 1
    BY <1>2, <1>3 DEF Front
  <1>5. /\ Front(s) \in Seq(Nat)
        /\ DOMAIN Front(s) = 1..(Len(s) - 1)
        /\ \A i \in 1..(Len(s) - 1) : Front(s)[i] = s[i]
    BY DEF Front
  <1> QED
    BY <1>1, <1>4, <1>5

(* What addObject leaves is what was there before and the object. *)
LEMMA AppendToSeq ==
    ASSUME NEW s \in Seq(Nat), NEW d \in Nat
    PROVE  /\ Append(s, d) \in Seq(Nat)
           /\ DOMAIN Append(s, d) = 1..(Len(s) + 1)
           /\ DOMAIN s = 1..Len(s)
           /\ \A i \in 1..Len(s) : Append(s, d)[i] = s[i]
           /\ Append(s, d)[Len(s) + 1] = d
  OBVIOUS

(* An empty pool holds and lends nothing. *)
LEMMA PoolInvInit == Init => PoolInv
  BY DEF Init, PoolInv, Known, Exclusive, InUse, Elements, Steps

(* A step that leaves the pool alone and moves one call between steps in which
   it holds the same database. *)
LEMMA PoolInvMove ==
    ASSUME PoolInv,
           NEW c \in Calls, step[c] \notin {"idle", "done", "raised"},
           UNCHANGED <<inPool, created, holds>>,
           NEW s \in {"begin", "body", "end", "push"}, GoTo(c, s) \/ step' = step
    PROVE  PoolInv'
  <1>1. step' \in [Calls -> Steps] /\ \A b \in Calls : step'[b] = "idle" => step[b] = "idle"
    BY DEF PoolInv, GoTo, Steps
  <1>2. \A b \in Calls : InUse(b)' <=> InUse(b)
    BY DEF PoolInv, GoTo, InUse, Steps
  <1>3. \A b \in Calls : step'[b] # "raised"
    BY DEF PoolInv, GoTo, Exclusive
  <1> QED
    BY <1>1, <1>2, <1>3 DEF PoolInv, Known, Exclusive, Elements

(* db: the call gets nil, the last database of the pool, which leaves it, or
   one that has just been created. *)
LEMMA PoolInvMakeCall ==
    ASSUME PoolInv,
           NEW c \in Calls, NEW k \in Kinds, NEW from \in Calls \cup {None},
           MakeCall(c, k, from)
    PROVE  PoolInv'
  <1> USE DEF PoolInv, Known, Exclusive, InUse
  <1>1. step[c] = "idle" /\ holds[c] = None
    BY DEF MakeCall
  <1>2. /\ step' \in [Calls -> Steps]
        /\ step'[c] \notin {"idle", "raised"}
        /\ \A b \in Calls \ {c} : step'[b] = step[b]
    BY DEF MakeCall, GoTo, AfterTake, Steps
  <1>3. CASE TakeNothing(c)
    BY <1>1, <1>2, <1>3 DEF TakeNothing, pool, Elements
  <1>4. CASE TakeFree(c)
    <2>1. /\ inPool # <<>> /\ inPool' = Front(inPool) /\ created' = created
          /\ holds' \in {holds, [holds EXCEPT ![c] = Last(inPool)]}
      BY <1>4 DEF TakeFree
    <2>2. /\ inPool' \in Seq(Nat)
          /\ DOMAIN inPool' = 1..(Len(inPool) - 1)
          /\ \A i \in DOMAIN inPool' : inPool'[i] = inPool[i]
          /\ Len(inPool) \in DOMAIN inPool
          /\ DOMAIN inPool = 1..Len(inPool)
      BY <2>1, FrontOfSeq
    <2>3. /\ Last(inPool) \in 1..created
          /\ Last(inPool) \in Elements(inPool)
          /\ Last(inPool) \notin Elements(inPool)'
          /\ Elements(inPool)' \subseteq Elements(inPool)
          /\ Len(inPool) \in Nat
      <3>1. \A i \in DOMAIN inPool' : i \in DOMAIN inPool /\ i # Len(inPool)
        BY <2>2
      <3>2. QED
        BY <2>2, <3>1 DEF Last, Elements
    <2>4. /\ holds' \in [Calls -> Nat \cup {None}]
          /\ \A b \in Calls \ {c} : holds'[b] = holds[b]
          /\ holds'[c] \in {None, Last(inPool)}
      BY <1>1, <2>1, <2>3
    <2>5. \A b \in Calls \ {c} : InUse(b)' => InUse(b) /\ holds[b] # Last(inPool)
      BY <1>2, <2>3, <2>4
    <2>6. Known'
      <3>1. \A b \in Calls : holds'[b] # None => holds'[b] \in 1..created'
        BY <2>1, <2>3, <2>4
      <3>2. \A i \in DOMAIN inPool' : inPool'[i] \in 1..created'
        <4>1. \A i \in DOMAIN inPool' : i \in DOMAIN inPool
          BY <2>2, <2>3
        <4>2. QED
          BY <2>1, <2>2, <4>1
      <3>3. QED
        BY <3>1, <3>2
    <2>7. Exclusive'
      <3>1. \A a, b \in Calls : a # b /\ InUse(a)' /\ InUse(b)' => holds'[a] # holds'[b]
        BY <2>4, <2>5
      <3>2. \A b \in Calls : InUse(b)' => holds'[b] \notin Elements(inPool)'
        BY <2>3, <2>4, <2>5
      <3>3. \A i, j \in DOMAIN inPool' : i # j => inPool'[i] # inPool'[j]
        BY <2>2
      <3>4. QED
        BY <1>2, <3>1, <3>2, <3>3
    <2>8. QED
      BY <1>2, <2>1, <2>2, <2>4, <2>6, <2>7
  <1>5. CASE TakeNew(c)
    <2>1. /\ inPool' = inPool /\ created' = created + 1
          /\ holds' \in {holds, [holds EXCEPT ![c] = created']}
      BY <1>5 DEF TakeNew
    <2>2. /\ holds' \in [Calls -> Nat \cup {None}]
          /\ \A b \in Calls \ {c} : holds'[b] = holds[b]
          /\ holds'[c] \in {None, created + 1}
      BY <1>1, <2>1
    <2>3. \A b \in Calls \ {c} : InUse(b)' => InUse(b) /\ holds[b] # created + 1
      BY <1>2, <2>2
    <2>4. Elements(inPool)' = Elements(inPool) /\ created + 1 \notin Elements(inPool)
      BY <2>1 DEF Elements
    <2>5. Known'
      BY <2>1, <2>2
    <2>6. Exclusive'
      <3>1. \A a, b \in Calls : a # b /\ InUse(a)' /\ InUse(b)' => holds'[a] # holds'[b]
        BY <2>2, <2>3
      <3>2. \A b \in Calls : InUse(b)' => holds'[b] \notin Elements(inPool)'
        BY <2>2, <2>3, <2>4
      <3>3. QED
        BY <1>2, <2>1, <3>1, <3>2
    <2>7. QED
      BY <1>2, <2>1, <2>2, <2>5, <2>6
  <1>6. QED
    BY <1>3, <1>4, <1>5 DEF MakeCall

(* pushDatabaseBackInPool: the call that pushes a database was the only one to
   hold it, and it was not in the pool. *)
LEMMA PoolInvPush ==
    ASSUME PoolInv, NEW c \in Calls, Push(c)
    PROVE  PoolInv'
  <1> USE DEF PoolInv, Known, Exclusive, InUse
  <1>1. /\ step[c] = "push" /\ created' = created
        /\ holds' = [holds EXCEPT ![c] = None]
        /\ step' \in {[step EXCEPT ![c] = "done"], [step EXCEPT ![c] = "raised"]}
    BY DEF Push, Returns, GoTo
  <1>2. holds[c] # None => holds[c] \notin Elements(inPool)
    BY <1>1
  <1>3. step' = [step EXCEPT ![c] = "done"]
    BY <1>2 DEF Push, Returns, GoTo
  <1>4. \A b \in Calls : InUse(b)' => b # c /\ InUse(b) /\ holds'[b] = holds[b]
    BY <1>1, <1>3
  <1>5. /\ step' \in [Calls -> Steps] /\ holds' \in [Calls -> Nat \cup {None}]
        /\ \A b \in Calls : step'[b] = "idle" => holds'[b] = None
        /\ \A b \in Calls : step'[b] # "raised"
    BY <1>1, <1>3 DEF Steps
  <1>6. CASE holds[c] = None
    <2>1. inPool' = inPool
      BY <1>6 DEF Push
    <2>2. QED
      BY <1>1, <1>4, <1>5, <2>1 DEF Elements
  <1>7. CASE holds[c] # None
    <2>1. inPool' = Append(inPool, holds[c]) /\ holds[c] \in 1..created
      BY <1>1, <1>2, <1>7 DEF Push
    <2>2. /\ inPool' \in Seq(Nat)
          /\ DOMAIN inPool' = 1..(Len(inPool) + 1)
          /\ DOMAIN inPool = 1..Len(inPool)
          /\ \A i \in 1..Len(inPool) : inPool'[i] = inPool[i]
          /\ inPool'[Len(inPool) + 1] = holds[c]
      BY <2>1, AppendToSeq
    <2>3. Elements(inPool)' \subseteq Elements(inPool) \cup {holds[c]}
      BY <2>2 DEF Elements
    <2>4. \A b \in Calls : InUse(b)' => holds'[b] \notin Elements(inPool)'
      BY <1>1, <1>4, <1>7, <2>3
    <2>5. \A i, j \in DOMAIN inPool' : i # j => inPool'[i] # inPool'[j]
      <3>1. \A i \in 1..Len(inPool) : inPool[i] # holds[c]
        BY <1>2, <1>7, <2>2 DEF Elements
      <3>2. QED
        BY <2>2, <3>1
    <2>6. Known'
      BY <1>1, <2>1, <2>2
    <2>7. QED
      BY <1>1, <1>4, <1>5, <2>2, <2>4, <2>5, <2>6
  <1>8. QED
    BY <1>6, <1>7

(* Every other step of a call keeps its database. *)
LEMMA PoolInvAdvance ==
    ASSUME PoolInv, NEW c \in Calls, Advance(c)
    PROVE  PoolInv'
  <1>1. CASE BeginStep(c)
    <2>1. \E s \in {"push", "body"} : GoTo(c, s)
      BY <1>1 DEF BeginStep
    <2>2. QED
      BY <1>1, <2>1, PoolInvMove DEF BeginStep, pool
  <1>2. CASE Read(c)
    BY <1>2, PoolInvMove DEF Read, pool, call
  <1>3. CASE Write(c)
    BY <1>3, PoolInvMove DEF Write, pool, call
  <1>4. CASE BodyReturns(c)
    <2>1. \E s \in {"push", "end"} : GoTo(c, s)
      BY <1>4 DEF BodyReturns
    <2>2. QED
      BY <1>4, <2>1, PoolInvMove DEF BodyReturns, pool
  <1>5. CASE EndStep(c)
    BY <1>5, PoolInvMove DEF EndStep, pool
  <1>6. CASE Push(c)
    BY <1>6, PoolInvPush
  <1>7. QED
    BY <1>1, <1>2, <1>3, <1>4, <1>5, <1>6 DEF Advance

(* releaseAllDatabases forgets the free databases; the calls keep theirs. *)
LEMMA PoolInvReleaseAll ==
    ASSUME PoolInv, ReleaseAll
    PROVE  PoolInv'
  <1>1. inPool' = <<>> /\ UNCHANGED <<created, step, holds>>
    BY DEF ReleaseAll, call
  <1>2. Elements(inPool)' = {} /\ DOMAIN inPool' = {}
    BY <1>1 DEF Elements
  <1>3. \A c \in Calls : InUse(c)' <=> InUse(c)
    BY <1>1 DEF InUse
  <1>4. QED
    BY <1>1, <1>2, <1>3 DEF PoolInv, Known, Exclusive

(* No step breaks the invariant. *)
LEMMA PoolInvNext == PoolInv /\ [Next]_vars => PoolInv'
  <1> SUFFICES ASSUME PoolInv, [Next]_vars PROVE PoolInv'
    OBVIOUS
  <1>1. ASSUME NEW c \in Calls, NEW k \in Kinds, NEW from \in Calls \cup {None},
               MakeCall(c, k, from)
        PROVE  PoolInv'
    BY <1>1, PoolInvMakeCall
  <1>2. ASSUME NEW c \in Calls, Advance(c)
        PROVE  PoolInv'
    BY <1>2, PoolInvAdvance
  <1>3. CASE ReleaseAll
    BY <1>3, PoolInvReleaseAll
  <1>4. CASE UNCHANGED vars
    BY <1>4 DEF vars, pool, call, PoolInv, Known, Exclusive, InUse, Elements
  <1>5. QED
    BY <1>1, <1>2, <1>3, <1>4 DEF Next

(* It holds in every state. *)
LEMMA PoolInvAlways == Spec => []PoolInv
  BY PoolInvInit, PoolInvNext, PTL DEF Spec

(* A connection is lent to one call at a time and is never in the pool while
   it is lent: db and pushDatabaseBackInPool: keep to it whatever the delegate
   refuses and whenever releaseAllDatabases is called. *)
THEOREM ExclusiveOwnership == Spec => []Exclusive
  <1>1. PoolInv => Exclusive
    BY DEF PoolInv
  <1>2. QED
    BY PoolInvAlways, <1>1, PTL

-----------------------------------------------------------------------------
(* In autocommit mode and without a lock. *)
Clean(d) == conns[d] = <<>> /\ locks[d] = "none"

(* The types, and what the steps of the methods have in common. *)
CallTypes ==
    /\ outPool \subseteq Dbs /\ left \subseteq Dbs
    /\ locks \in [Dbs -> Locks]
    /\ conns \in [Dbs -> Seq(Level) \cup {None}]
    /\ kind \in [Calls -> Kinds \cup {None}]
    /\ inside \in [Calls -> Calls \cup {None}]
    /\ rollback \in [Calls -> BOOLEAN]
    /\ releases \in Nat /\ faults \in Nat
    /\ \A c \in Calls : step[c] \in {"begin", "body", "end", "push"} => kind[c] \in Kinds
    /\ \A c \in Calls : step[c] \in {"begin", "end"} => kind[c] # "db"
    /\ \A c \in Calls : inside[c] # None => inside[c] < c /\ step[inside[c]] = "body"

(* There are no more databases than calls made, and only they are open. *)
InOrder ==
    /\ created \in 0..MaxCalls
    /\ \A b, c \in Calls : b < c /\ step[c] # "idle" => step[b] # "idle"
    /\ \A c \in Calls : step[c] = "idle" => created < c
    /\ \A d \in Dbs : d > created => conns[d] = None /\ locks[d] = "none"

(* The levels of a database that is lent: a savepoint is on top of them, and if
   no earlier call left any there are those of the call that has it. *)
Lent ==
    \A c \in Calls : InUse(c) =>
        /\ conns[holds[c]] \in Seq(Level)
        /\ kind[c] = "sp" /\ step[c] \in {"body", "end"} =>
               /\ conns[holds[c]] # <<>>
               /\ conns[holds[c]][Len(conns[holds[c]])].name = c
               /\ holds[c] \notin left => Len(conns[holds[c]]) = 1
        /\ holds[c] \notin left /\ (step[c] \in {"begin", "push"} \/ kind[c] = "db")
               => Clean(holds[c])

Free == \A d \in Elements(inPool) : conns[d] \in Seq(Level) /\ (d \notin left => Clean(d))

LevelInv == CallTypes /\ InOrder /\ Lent /\ Free

-----------------------------------------------------------------------------
(* Calls, databases and names are numbered alike. *)
LEMMA Numbers ==
    /\ Calls = Dbs /\ Names = Calls /\ None \notin Calls /\ Calls \subseteq Nat
    /\ MaxCalls \in Nat
  BY PoolAssumption DEF Calls, Dbs

(* Whatever a call holds, or waits in the pool, is a database. *)
LEMMA HeldAreDbs ==
    ASSUME PoolInv, InOrder
    PROVE  /\ \A c \in Calls : holds[c] # None => holds[c] \in Dbs
           /\ Elements(inPool) \subseteq Dbs
           /\ \A c \in Calls : holds[c] = None => ~InUse(c)
  <1>1. 1..created \subseteq Dbs
    BY Numbers DEF InOrder, Dbs
  <1> QED
    BY <1>1 DEF PoolInv, Known, Elements, InUse

(* What the statement of a call does to the levels of its database. *)
LEMMA Effects ==
    ASSUME CallTypes, NEW c \in Calls, NEW L \in Seq(Level), holds[c] \in Dbs,
           NEW s \in {"begin", "body", "end"}, step[c] = s,
           s = "end" /\ kind[c] = "sp" => L # <<>> /\ L[Len(L)].name = c
    PROVE  LET o == Effect(c, s, L)
           IN  /\ o.ok \in BOOLEAN /\ o.levels \in Seq(Level)
               /\ s = "begin" /\ kind[c] = "sp" =>
                      /\ o.ok /\ o.levels # <<>> /\ o.levels[Len(o.levels)].name = c
                      /\ L = <<>> => Len(o.levels) = 1
               /\ s = "body" =>
                      /\ o.ok /\ (L = <<>> => o.levels = <<>>)
                      /\ L # <<>> => /\ o.levels # <<>> /\ Len(o.levels) = Len(L)
                                     /\ o.levels[Len(L)].name = L[Len(L)].name
               /\ s = "end" /\ kind[c] # "sp" => o.levels = <<>>
               /\ s = "end" /\ kind[c] = "sp" =>
                      o.ok /\ (~rollback[c] /\ Len(L) = 1 => o.levels = <<>>)
  <1> DEFINE o == Effect(c, s, L)
  <1>1. /\ kind[c] \in Kinds /\ rollback[c] \in BOOLEAN /\ (s # "body" => kind[c] # "db")
        /\ c \in Names /\ holds[c] \in Names
    BY Numbers DEF CallTypes
  <1>2. CASE s = "begin" /\ kind[c] = "sp"
    <2> DEFINE l == Append(L, Open(c))
    <2>1. o.ok /\ o.levels = l
      BY <1>2 DEF Effect, StartSavePoint, Outcome
    <2>2. l \in Seq(Level) /\ Len(l) = Len(L) + 1 /\ l # <<>> /\ l[Len(l)].name = c
      BY <1>1, Deepened
    <2>3. L = <<>> => Len(L) = 0
      BY EmptySeq
    <2> HIDE DEF l, o
    <2>4. L = <<>> => Len(l) = 1
      BY <2>2, <2>3
    <2> QED
      BY <1>2, <2>1, <2>2, <2>4 DEF o
  <1>3. CASE s = "begin" /\ kind[c] # "sp"
    <2>1. o = Begin(L)
      BY <1>1, <1>3 DEF Effect, Kinds
    <2> HIDE DEF o
    <2> QED
      BY <1>3, <2>1, BeginOutcome DEF o
  <1>4. CASE s = "body"
    <2>1. o = Update(L, holds[c])
      BY <1>4 DEF Effect
    <2>2. /\ o.ok /\ o.levels \in Seq(Level) /\ Len(o.levels) = Len(L)
          /\ L = <<>> => o.levels = <<>>
          /\ L # <<>> => o.levels # <<>> /\ o.levels[Len(L)].name = L[Len(L)].name
      <3> HIDE DEF o
      <3> QED
        BY <1>1, <2>1, UpdateOutcome
    <2> QED
      BY <1>4, <2>2
  <1>5. CASE s = "end" /\ kind[c] # "sp"
    <2>1. o \in {Commit(L), Rollback(L)}
      BY <1>1, <1>5 DEF Effect
    <2>2. o.ok \in BOOLEAN /\ o.levels = <<>>
      <3> HIDE DEF o
      <3> QED
        BY <2>1, WholeOutcome
    <2> QED
      BY <1>5, <2>2, NoLevels
  <1>6. CASE s = "end" /\ kind[c] = "sp"
    <2>1. o = IF rollback[c] THEN RollbackToSavePoint(L, c) ELSE ReleaseSavePoint(L, c)
      BY <1>1, <1>6 DEF Effect
    <2> HIDE DEF o
    <2>2. CASE rollback[c]
      <3>1. RollbackToSavePoint(L, c).ok /\ RollbackToSavePoint(L, c).levels \in Seq(Level)
        BY <1>1, <1>6, RollbackToOutcome
      <3> QED
        BY <1>6, <2>1, <2>2, <3>1 DEF o
    <2>3. CASE ~rollback[c]
      <3>1. /\ ReleaseSavePoint(L, c).ok /\ ReleaseSavePoint(L, c).levels \in Seq(Level)
            /\ Len(L) = 1 => ReleaseSavePoint(L, c).levels = <<>>
        BY <1>6, ReleaseOutcome
      <3> QED
        BY <1>6, <2>1, <2>3, <3>1 DEF o
    <2> QED
      BY <2>2, <2>3
  <1> QED
    BY <1>2, <1>3, <1>4, <1>5, <1>6

(* A statement is refused, or has its effect under the locks it leaves. *)
LEMMA StatementFacts ==
    ASSUME CallTypes, NEW c \in Calls, NEW s \in {"begin", "body", "end"}, NEW ok \in BOOLEAN,
           Statement(c, s, ok)
    PROVE  /\ faults' \in Nat
           /\ \/ ~ok /\ UNCHANGED <<conns, locks>>
              \/ /\ holds[c] # None
                 /\ LET o == Effect(c, s, conns[holds[c]])
                    IN  /\ ok = o.ok
                        /\ conns' = [conns EXCEPT ![holds[c]] = o.levels]
                        /\ \E k \in Locks :
                               /\ locks' = [locks EXCEPT ![holds[c]] = k]
                               /\ o.levels = <<>> => k = "none"
  <1> DEFINE d == holds[c]
             o == Effect(c, s, conns[d])
             need == Needs(c, s, conns[d])
             k == Keeps(d, need, o.levels)
  <1>1. faults \in Nat /\ locks \in [Dbs -> Locks]
    BY DEF CallTypes
  <1>2. CASE (d = None /\ ~ok /\ UNCHANGED <<conns, locks, faults>>)
             \/ (d # None /\ ~ok /\ Faulty /\ UNCHANGED <<conns, locks>>)
    BY <1>1, <1>2 DEF Faulty
  <1>3. CASE /\ d # None /\ ok = o.ok
             /\ conns' = [conns EXCEPT ![d] = o.levels]
             /\ locks' = [locks EXCEPT ![d] = k]
             /\ UNCHANGED faults
    <2>1. o.levels = <<>> => k = "none"
      <3> HIDE DEF o, need
      <3> QED
        BY DEF Keeps
    <2>2. need \in Locks
      BY DEF Needs, Locks
    <2>3. CASE k \in Locks
      <3> HIDE DEF o, k
      <3> QED
        BY <1>1, <1>3, <2>1, <2>3 DEF o
    <2>4. CASE k \notin Locks
      <3> HIDE DEF o, need
      <3>1. d \notin Dbs
        BY <1>1, <2>2, <2>4 DEF Keeps, Locks
      <3>2. locks' = locks /\ locks' = [locks EXCEPT ![d] = "none"]
        BY <1>1, <1>3, <3>1
      <3>3. "none" \in Locks
        BY DEF Locks
      <3> HIDE DEF k
      <3> QED
        BY <1>1, <1>3, <3>2, <3>3 DEF o
    <2> QED
      BY <2>3, <2>4
  <1> QED
    BY <1>2, <1>3 DEF Statement

(* A call goes on with the database it has. *)
LEMMA LevelInvMove ==
    ASSUME PoolInv, PoolInv', LevelInv, NEW c \in Calls,
           step[c] \in {"begin", "body", "end"},
           NEW s \in {"body", "end", "push"}, step' = [step EXCEPT ![c] = s],
           UNCHANGED <<pool, kind, inside, holds, releases>>,
           conns' \in [Dbs -> Seq(Level) \cup {None}], locks' \in [Dbs -> Locks],
           \A d \in Dbs : d # holds[c] =>
               conns'[d] = conns[d] /\ locks'[d] = locks[d] /\ (d \in left' <=> d \in left),
           left' \subseteq Dbs, rollback' \in [Calls -> BOOLEAN], faults' \in Nat,
           s = "end" => kind[c] # "db",
           step[c] = "body" /\ s # "body" => Runs(c),
           holds[c] # None =>
               /\ conns'[holds[c]] \in Seq(Level)
               /\ kind[c] = "sp" /\ s \in {"body", "end"} =>
                      /\ conns'[holds[c]] # <<>>
                      /\ conns'[holds[c]][Len(conns'[holds[c]])].name = c
                      /\ holds[c] \notin left' => Len(conns'[holds[c]]) = 1
               /\ holds[c] \notin left' /\ (s = "push" \/ kind[c] = "db") => Clean(holds[c])'
    PROVE  LevelInv'
  <1>1. CallTypes /\ InOrder /\ Lent /\ Free
    BY DEF LevelInv
  <1>2. UNCHANGED <<inPool, outPool, created>>
    BY DEF pool
  <1>3. /\ step'[c] = s /\ \A b \in Calls : b # c => step'[b] = step[b]
        /\ \A b \in Calls : step'[b] = "idle" <=> step[b] = "idle"
    BY DEF PoolInv
  <1>4. CallTypes'
    <2>1. \A b \in Calls : inside[b] # None => step'[inside[b]] = "body"
      <3> SUFFICES ASSUME NEW b \in Calls, inside[b] # None PROVE step'[inside[b]] = "body"
        OBVIOUS
      <3>1. inside[b] \in Calls /\ step[inside[b]] = "body"
        BY <1>1 DEF CallTypes
      <3>2. CASE inside[b] = c
        BY <1>3, <3>1, <3>2 DEF Runs
      <3> QED
        BY <1>3, <3>1, <3>2
    <2>2. \A b \in Calls : step'[b] \in {"begin", "body", "end", "push"} => kind[b] \in Kinds
      BY <1>1, <1>3 DEF CallTypes
    <2>3. \A b \in Calls : step'[b] \in {"begin", "end"} => kind[b] # "db"
      BY <1>1, <1>3 DEF CallTypes
    <2> QED
      BY <1>1, <1>2, <2>1, <2>2, <2>3 DEF CallTypes
  <1>5. holds[c] # None => holds[c] \in Dbs /\ holds[c] \in 1..created /\ InUse(c)
    BY <1>1, HeldAreDbs DEF InUse, PoolInv, Known
  <1>6. InOrder'
    <2>1. \A d \in Dbs : d > created => d # holds[c]
      BY <1>1, <1>5, Numbers DEF InOrder
    <2> QED
      BY <1>1, <1>2, <1>3, <2>1 DEF InOrder
  <1>7. Lent'
    <2> SUFFICES ASSUME NEW b \in Calls, InUse(b)'
                 PROVE  /\ conns'[holds[b]] \in Seq(Level)
                        /\ kind[b] = "sp" /\ step'[b] \in {"body", "end"} =>
                               /\ conns'[holds[b]] # <<>>
                               /\ conns'[holds[b]][Len(conns'[holds[b]])].name = b
                               /\ holds[b] \notin left' => Len(conns'[holds[b]]) = 1
                        /\ holds[b] \notin left' /\ (step'[b] \in {"begin", "push"} \/ kind[b] = "db")
                               => Clean(holds[b])'
      BY DEF Lent
    <2>1. CASE b = c
      BY <1>3, <2>1 DEF InUse
    <2>2. CASE b # c
      <3>1. InUse(b) /\ step'[b] = step[b]
        BY <1>3, <2>2 DEF InUse
      <3>2. holds[b] # holds[c]
        <4>1. CASE holds[c] = None
          BY <3>1, <4>1 DEF InUse
        <4>2. CASE holds[c] # None
          BY <1>5, <2>2, <3>1, <4>2 DEF PoolInv, Exclusive
        <4> QED
          BY <4>1, <4>2
      <3>3. holds[b] \in Dbs
        BY <1>1, <3>1, HeldAreDbs DEF InUse
      <3>4. /\ conns'[holds[b]] = conns[holds[b]] /\ locks'[holds[b]] = locks[holds[b]]
            /\ (holds[b] \in left' <=> holds[b] \in left)
        BY <3>2, <3>3
      <3> QED
        BY <1>1, <3>1, <3>4 DEF Lent, Clean
    <2> QED
      BY <2>1, <2>2
  <1>8. Free'
    <2> SUFFICES ASSUME NEW d \in Elements(inPool)
                 PROVE  conns'[d] \in Seq(Level) /\ (d \notin left' => Clean(d)')
      BY <1>2 DEF Free, Elements
    <2>1. d \in Dbs /\ d # holds[c]
      <3>1. d \in Dbs
        BY <1>1, HeldAreDbs
      <3>2. d # None
        BY <3>1, Numbers
      <3>3. holds[c] # None => holds[c] \notin Elements(inPool)
        BY <1>5 DEF PoolInv, Exclusive
      <3> QED
        BY <3>1, <3>2, <3>3
    <2>2. conns'[d] = conns[d] /\ locks'[d] = locks[d] /\ (d \in left' <=> d \in left)
      BY <2>1
    <2> QED
      BY <1>1, <2>2 DEF Free, Clean
  <1> QED
    BY <1>4, <1>6, <1>7, <1>8 DEF LevelInv

(* What the statement of a call leaves to the call and to the others. *)
LEMMA StatementStep ==
    ASSUME PoolInv, LevelInv, NEW c \in Calls, NEW s \in {"begin", "body", "end"}, step[c] = s,
           NEW ok \in BOOLEAN, Statement(c, s, ok), UNCHANGED holds
    PROVE  /\ faults' \in Nat
           /\ conns' \in [Dbs -> Seq(Level) \cup {None}] /\ locks' \in [Dbs -> Locks]
           /\ \A d \in Dbs : d # holds[c] => conns'[d] = conns[d] /\ locks'[d] = locks[d]
           /\ holds[c] # None =>
                  /\ conns'[holds[c]] \in Seq(Level)
                  /\ s = "begin" /\ kind[c] = "sp" /\ ~ok /\ Clean(holds[c]) => Clean(holds[c])'
                  /\ s = "begin" /\ kind[c] = "sp" /\ ok =>
                         /\ conns'[holds[c]] # <<>>
                         /\ conns'[holds[c]][Len(conns'[holds[c]])].name = c
                         /\ conns[holds[c]] = <<>> => Len(conns'[holds[c]]) = 1
                  /\ s = "body" /\ Clean(holds[c]) => Clean(holds[c])'
                  /\ s = "body" /\ conns[holds[c]] # <<>> =>
                         /\ conns'[holds[c]] # <<>>
                         /\ Len(conns'[holds[c]]) = Len(conns[holds[c]])
                         /\ conns'[holds[c]][Len(conns'[holds[c]])].name =
                                conns[holds[c]][Len(conns[holds[c]])].name
                  /\ s = "end" /\ kind[c] # "sp" /\ ok => Clean(holds[c])'
                  /\ s = "end" /\ kind[c] = "sp" /\ ok /\ ~rollback[c] /\ Len(conns[holds[c]]) = 1
                         => Clean(holds[c])'
  <1> DEFINE h == holds[c]
             L == conns[h]
             o == Effect(c, s, L)
  <1>1. CallTypes /\ InOrder /\ Lent
    BY DEF LevelInv
  <1>2. /\ faults' \in Nat
        /\ \/ ~ok /\ UNCHANGED <<conns, locks>>
           \/ /\ h # None /\ ok = o.ok
              /\ conns' = [conns EXCEPT ![h] = o.levels]
              /\ \E k \in Locks : locks' = [locks EXCEPT ![h] = k] /\ (o.levels = <<>> => k = "none")
    BY <1>1, StatementFacts
  <1>3. h # None => h \in Dbs /\ InUse(c)
    BY <1>1, HeldAreDbs DEF InUse
  <1>4. h # None => L \in Seq(Level) /\ (s = "end" /\ kind[c] = "sp" => L # <<>> /\ L[Len(L)].name = c)
    BY <1>1, <1>3 DEF Lent
  <1>5. conns \in [Dbs -> Seq(Level) \cup {None}] /\ locks \in [Dbs -> Locks]
    BY <1>1 DEF CallTypes
  <1>6. CASE ~ok /\ UNCHANGED <<conns, locks>>
    BY <1>2, <1>4, <1>5, <1>6 DEF Clean
  <1>7. CASE /\ h # None /\ ok = o.ok
             /\ conns' = [conns EXCEPT ![h] = o.levels]
             /\ \E k \in Locks : locks' = [locks EXCEPT ![h] = k] /\ (o.levels = <<>> => k = "none")
    <2>1. /\ o.ok \in BOOLEAN /\ o.levels \in Seq(Level)
          /\ s = "begin" /\ kind[c] = "sp" =>
                 /\ o.ok /\ o.levels # <<>> /\ o.levels[Len(o.levels)].name = c
                 /\ L = <<>> => Len(o.levels) = 1
          /\ s = "body" =>
                 /\ o.ok /\ (L = <<>> => o.levels = <<>>)
                 /\ L # <<>> => /\ o.levels # <<>> /\ Len(o.levels) = Len(L)
                                /\ o.levels[Len(L)].name = L[Len(L)].name
          /\ s = "end" /\ kind[c] # "sp" => o.levels = <<>>
          /\ s = "end" /\ kind[c] = "sp" =>
                 o.ok /\ (~rollback[c] /\ Len(L) = 1 => o.levels = <<>>)
      <3> HIDE DEF L
      <3> QED
        BY <1>1, <1>3, <1>4, <1>7, Effects
    <2>2. PICK k \in Locks : locks' = [locks EXCEPT ![h] = k] /\ (o.levels = <<>> => k = "none")
      BY <1>7
    <2>3. h \in Dbs
      BY <1>3, <1>7
    <2> HIDE DEF o
    <2>4. conns' = [conns EXCEPT ![h] = o.levels]
      BY <1>7
    <2>5. /\ conns' \in [Dbs -> Seq(Level) \cup {None}]
          /\ conns'[h] = o.levels
          /\ \A d \in Dbs : d # h => conns'[d] = conns[d]
      BY <1>5, <2>1, <2>3, <2>4
    <2>6. /\ locks' \in [Dbs -> Locks]
          /\ locks'[h] = k
          /\ \A d \in Dbs : d # h => locks'[d] = locks[d]
      BY <1>5, <2>2, <2>3
    <2>7. o.levels = <<>> => Clean(h)'
      BY <2>2, <2>5, <2>6 DEF Clean
    <2>8. ok = o.ok
      BY <1>7
    <2>9. s = "begin" /\ kind[c] = "sp" => ok
      BY <2>1, <2>8
    <2> QED
      BY <1>2, <2>1, <2>5, <2>6, <2>7, <2>8, <2>9 DEF Clean
  <1> QED
    BY <1>2, <1>6, <1>7

(* BEGIN or SAVEPOINT: a savepoint that fails gives the database back as it
   was. *)
LEMMA LevelInvBegin ==
    ASSUME PoolInv, PoolInv', LevelInv, NEW c \in Calls, BeginStep(c)
    PROVE  LevelInv'
  <1>1. step[c] = "begin" /\ UNCHANGED <<pool, left, kind, inside, holds, rollback, releases>>
    BY DEF BeginStep
  <1>2. PICK ok \in BOOLEAN : Statement(c, "begin", ok)
                             /\ GoTo(c, IF kind[c] = "sp" /\ ~ok THEN "push" ELSE "body")
    BY DEF BeginStep
  <1>3. /\ kind[c] # "db" /\ left' \subseteq Dbs /\ rollback' \in [Calls -> BOOLEAN]
        /\ holds[c] # None => InUse(c)
    BY <1>1 DEF LevelInv, CallTypes, InUse
  <1>4. holds[c] # None /\ holds[c] \notin left => Clean(holds[c])
    BY <1>1, <1>3 DEF LevelInv, Lent
  <1>5. /\ faults' \in Nat
        /\ conns' \in [Dbs -> Seq(Level) \cup {None}] /\ locks' \in [Dbs -> Locks]
        /\ \A d \in Dbs : d # holds[c] => conns'[d] = conns[d] /\ locks'[d] = locks[d]
        /\ holds[c] # None =>
               /\ conns'[holds[c]] \in Seq(Level)
               /\ kind[c] = "sp" /\ ~ok /\ Clean(holds[c]) => Clean(holds[c])'
               /\ kind[c] = "sp" /\ ok =>
                      /\ conns'[holds[c]] # <<>>
                      /\ conns'[holds[c]][Len(conns'[holds[c]])].name = c
                      /\ conns[holds[c]] = <<>> => Len(conns'[holds[c]]) = 1
    BY <1>1, <1>2, StatementStep
  <1>6. CASE kind[c] = "sp" /\ ~ok
    <2>1. step' = [step EXCEPT ![c] = "push"]
      BY <1>2, <1>6 DEF GoTo
    <2> QED
      BY <1>1, <1>3, <1>4, <1>5, <1>6, <2>1, LevelInvMove
  <1>7. CASE ~(kind[c] = "sp" /\ ~ok)
    <2>1. step' = [step EXCEPT ![c] = "body"]
      BY <1>2, <1>7 DEF GoTo
    <2>2. holds[c] # None /\ holds[c] \notin left => conns[holds[c]] = <<>>
      BY <1>4 DEF Clean
    <2> QED
      BY <1>1, <1>3, <1>5, <1>7, <2>1, <2>2, LevelInvMove
  <1> QED
    BY <1>6, <1>7

(* A read takes a lock only in a transaction. *)
LEMMA LevelInvRead ==
    ASSUME PoolInv, PoolInv', LevelInv, NEW c \in Calls, Read(c)
    PROVE  LevelInv'
  <1>1. /\ step[c] = "body" /\ UNCHANGED <<pool, conns, left, call, releases, faults>>
        /\ holds[c] # None /\ conns[holds[c]] # <<>>
        /\ locks' = [locks EXCEPT ![holds[c]] = "shared"]
    BY DEF Read
  <1>2. UNCHANGED <<step, kind, inside, holds, rollback>>
    BY <1>1 DEF call
  <1>3. step' = [step EXCEPT ![c] = "body"]
    BY <1>1, <1>2 DEF PoolInv
  <1>4. /\ conns' \in [Dbs -> Seq(Level) \cup {None}] /\ left' \subseteq Dbs
        /\ rollback' \in [Calls -> BOOLEAN] /\ faults' \in Nat
        /\ locks' \in [Dbs -> Locks]
        /\ \A d \in Dbs : d # holds[c] => locks'[d] = locks[d]
    BY <1>1, <1>2 DEF LevelInv, CallTypes, Locks
  <1>5. InUse(c)
    BY <1>1 DEF InUse
  <1>6. /\ conns[holds[c]] \in Seq(Level)
        /\ kind[c] = "sp" =>
               /\ conns[holds[c]][Len(conns[holds[c]])].name = c
               /\ holds[c] \notin left => Len(conns[holds[c]]) = 1
    BY <1>1, <1>5 DEF LevelInv, Lent
  <1>7. kind[c] = "db" => holds[c] \in left
    BY <1>1, <1>5 DEF LevelInv, Lent, Clean
  <1> QED
    BY <1>1, <1>2, <1>3, <1>4, <1>6, <1>7, LevelInvMove

(* A write keeps the levels, and the name of the top one. *)
LEMMA LevelInvWrite ==
    ASSUME PoolInv, PoolInv', LevelInv, NEW c \in Calls, Write(c)
    PROVE  LevelInv'
  <1>1. step[c] = "body" /\ holds[c] # None /\ UNCHANGED <<pool, left, call, releases>>
    BY DEF Write
  <1>2. PICK ok \in BOOLEAN : Statement(c, "body", ok)
    BY DEF Write
  <1>3. UNCHANGED <<step, kind, inside, holds, rollback>>
    BY <1>1 DEF call
  <1>4. /\ step' = [step EXCEPT ![c] = "body"] /\ InUse(c)
        /\ left' \subseteq Dbs /\ rollback' \in [Calls -> BOOLEAN]
    BY <1>1, <1>3 DEF PoolInv, LevelInv, CallTypes, InUse
  <1>5. /\ kind[c] = "sp" =>
               /\ conns[holds[c]] # <<>>
               /\ conns[holds[c]][Len(conns[holds[c]])].name = c
               /\ holds[c] \notin left => Len(conns[holds[c]]) = 1
        /\ holds[c] \notin left /\ kind[c] = "db" => Clean(holds[c])
    BY <1>1, <1>4 DEF LevelInv, Lent
  <1>6. /\ faults' \in Nat
        /\ conns' \in [Dbs -> Seq(Level) \cup {None}] /\ locks' \in [Dbs -> Locks]
        /\ \A d \in Dbs : d # holds[c] => conns'[d] = conns[d] /\ locks'[d] = locks[d]
        /\ conns'[holds[c]] \in Seq(Level)
        /\ Clean(holds[c]) => Clean(holds[c])'
        /\ conns[holds[c]] # <<>> =>
               /\ conns'[holds[c]] # <<>>
               /\ Len(conns'[holds[c]]) = Len(conns[holds[c]])
               /\ conns'[holds[c]][Len(conns'[holds[c]])].name =
                      conns[holds[c]][Len(conns[holds[c]])].name
    BY <1>1, <1>2, <1>3, StatementStep
  <1> QED
    BY <1>1, <1>3, <1>4, <1>5, <1>6, LevelInvMove

(* The body returns: nothing happens to the database. *)
LEMMA LevelInvReturns ==
    ASSUME PoolInv, PoolInv', LevelInv, NEW c \in Calls, BodyReturns(c)
    PROVE  LevelInv'
  <1>1. /\ step[c] = "body" /\ Runs(c)
        /\ UNCHANGED <<pool, conns, locks, left, kind, inside, holds, releases, faults>>
    BY DEF BodyReturns
  <1>2. /\ conns' \in [Dbs -> Seq(Level) \cup {None}] /\ left' \subseteq Dbs
        /\ locks' \in [Dbs -> Locks] /\ rollback' \in [Calls -> BOOLEAN] /\ faults' \in Nat
    BY <1>1 DEF LevelInv, CallTypes, BodyReturns
  <1>3. holds[c] # None =>
            /\ conns[holds[c]] \in Seq(Level)
            /\ kind[c] = "sp" =>
                   /\ conns[holds[c]] # <<>>
                   /\ conns[holds[c]][Len(conns[holds[c]])].name = c
                   /\ holds[c] \notin left => Len(conns[holds[c]]) = 1
            /\ holds[c] \notin left /\ kind[c] = "db" => Clean(holds[c])
    BY <1>1 DEF LevelInv, Lent, InUse
  <1>4. Clean(holds[c]) => Clean(holds[c])'
    BY <1>1 DEF Clean
  <1>5. CASE kind[c] = "db"
    <2>1. step' = [step EXCEPT ![c] = "push"]
      BY <1>5 DEF BodyReturns, GoTo
    <2> QED
      BY <1>1, <1>2, <1>3, <1>4, <1>5, <2>1, LevelInvMove
  <1>6. CASE kind[c] # "db"
    <2>1. step' = [step EXCEPT ![c] = "end"]
      BY <1>6 DEF BodyReturns, GoTo
    <2> QED
      BY <1>1, <1>2, <1>3, <1>4, <1>6, <2>1, LevelInvMove
  <1> QED
    BY <1>5, <1>6

(* COMMIT, ROLLBACK, RELEASE or ROLLBACK TO: the transaction is over, or the
   database is among those left. *)
LEMMA LevelInvEnd ==
    ASSUME PoolInv, PoolInv', LevelInv, NEW c \in Calls, EndStep(c)
    PROVE  LevelInv'
  <1>1. /\ step[c] = "end" /\ step' = [step EXCEPT ![c] = "push"]
        /\ UNCHANGED <<pool, kind, inside, holds, rollback, releases>>
    BY DEF EndStep, GoTo
  <1>2. PICK ok \in BOOLEAN :
            /\ Statement(c, "end", ok)
            /\ left' = CASE ~ok \/ (kind[c] = "sp" /\ rollback[c]) -> (left \cup {holds[c]}) \ {None}
                         [] ok /\ kind[c] # "sp"                   -> left \ {holds[c]}
                         [] OTHER                                  -> left
    BY DEF EndStep
  <1>3. /\ kind[c] # "db" /\ left \subseteq Dbs /\ rollback' \in [Calls -> BOOLEAN]
        /\ holds[c] # None => InUse(c) /\ holds[c] \in Dbs
        /\ rollback[c] \in BOOLEAN
    BY <1>1, HeldAreDbs DEF LevelInv, CallTypes, InUse
  <1>4. /\ left' \subseteq Dbs
        /\ \A d \in Dbs : d # holds[c] => (d \in left' <=> d \in left)
    <2>1. \A d \in Dbs : d # None
      BY Numbers
    <2> QED
      BY <1>2, <1>3, <2>1
  <1>5. holds[c] # None /\ holds[c] \notin left' =>
            /\ ok
            /\ kind[c] = "sp" => ~rollback[c] /\ holds[c] \notin left
    BY <1>2, <1>3
  <1>6. holds[c] # None /\ holds[c] \notin left /\ kind[c] = "sp" => Len(conns[holds[c]]) = 1
    BY <1>1, <1>3 DEF LevelInv, Lent
  <1>7. /\ faults' \in Nat
        /\ conns' \in [Dbs -> Seq(Level) \cup {None}] /\ locks' \in [Dbs -> Locks]
        /\ \A d \in Dbs : d # holds[c] => conns'[d] = conns[d] /\ locks'[d] = locks[d]
        /\ holds[c] # None =>
               /\ conns'[holds[c]] \in Seq(Level)
               /\ kind[c] # "sp" /\ ok => Clean(holds[c])'
               /\ kind[c] = "sp" /\ ok /\ ~rollback[c] /\ Len(conns[holds[c]]) = 1
                      => Clean(holds[c])'
    BY <1>1, <1>2, StatementStep
  <1>8. holds[c] # None /\ holds[c] \notin left' => Clean(holds[c])'
    BY <1>5, <1>6, <1>7
  <1> QED
    BY <1>1, <1>3, <1>4, <1>7, <1>8, LevelInvMove

(* pushDatabaseBackInPool: what the call gives back is as it has it. *)
LEMMA LevelInvPush ==
    ASSUME PoolInv, PoolInv', LevelInv, NEW c \in Calls, Push(c)
    PROVE  LevelInv'
  <1>1. /\ step[c] = "push"
        /\ UNCHANGED <<created, conns, locks, left, releases, faults>>
        /\ \E s \in {"done", "raised"} : Returns(c, s)
    BY DEF Push
  <1>2. PICK s \in {"done", "raised"} : Returns(c, s)
    BY <1>1
  <1>3. /\ step'[c] = s /\ \A b \in Calls : b # c => step'[b] = step[b]
        /\ holds'[c] = None /\ \A b \in Calls : b # c => holds'[b] = holds[b]
        /\ \A b \in Calls : b # c => kind'[b] = kind[b] /\ inside'[b] = inside[b]
        /\ inside'[c] = None
    BY <1>2 DEF PoolInv, LevelInv, CallTypes, Returns, GoTo
  <1>4. CallTypes /\ InOrder /\ Lent /\ Free
    BY DEF LevelInv
  <1>5. CallTypes'
    <2>1. /\ kind' \in [Calls -> Kinds \cup {None}] /\ inside' \in [Calls -> Calls \cup {None}]
          /\ rollback' \in [Calls -> BOOLEAN]
      BY <1>2, <1>4 DEF Returns, CallTypes
    <2>2. outPool' \subseteq Dbs
      BY <1>4 DEF Push, CallTypes
    <2>3. \A b \in Calls : inside'[b] # None => inside'[b] < b /\ step'[inside'[b]] = "body"
      BY <1>1, <1>3, <1>4 DEF CallTypes
    <2>4. \A b \in Calls : step'[b] \in {"begin", "body", "end", "push"} => kind'[b] \in Kinds
      BY <1>3, <1>4 DEF CallTypes
    <2>5. \A b \in Calls : step'[b] \in {"begin", "end"} => kind'[b] # "db"
      BY <1>3, <1>4 DEF CallTypes
    <2> QED
      BY <1>1, <1>4, <2>1, <2>2, <2>3, <2>4, <2>5 DEF CallTypes
  <1>6. InOrder'
    BY <1>1, <1>3, <1>4 DEF InOrder
  <1>7. Lent'
    <2>1. \A b \in Calls : InUse(b)' => b # c /\ InUse(b)
      BY <1>3 DEF InUse
    <2> QED
      BY <1>1, <1>3, <1>4, <2>1 DEF Lent, Clean
  <1>8. Free'
    <2>1. Elements(inPool)' \subseteq Elements(inPool) \cup ({holds[c]} \ {None})
      <3>1. CASE inPool' = inPool
        BY <3>1 DEF Elements
      <3>2. CASE inPool' = Append(inPool, holds[c]) /\ holds[c] # None
        <4>1. holds[c] \in Nat /\ inPool \in Seq(Nat)
          BY <3>2 DEF PoolInv
        <4>2. /\ DOMAIN inPool' = 1..(Len(inPool) + 1)
              /\ DOMAIN inPool = 1..Len(inPool)
              /\ \A i \in 1..Len(inPool) : inPool'[i] = inPool[i]
              /\ inPool'[Len(inPool) + 1] = holds[c]
              /\ Len(inPool) \in Nat
          BY <3>2, <4>1, AppendToSeq
        <4> QED
          BY <3>2, <4>2 DEF Elements
      <3> QED
        BY <3>1, <3>2 DEF Push
    <2>2. holds[c] # None =>
              conns[holds[c]] \in Seq(Level) /\ (holds[c] \notin left => Clean(holds[c]))
      BY <1>1, <1>4 DEF Lent, InUse
    <2> SUFFICES ASSUME NEW d \in Elements(inPool)'
                 PROVE  conns[d] \in Seq(Level) /\ (d \notin left => Clean(d))
      BY <1>1 DEF Free, Clean
    <2> QED
      BY <1>4, <2>1, <2>2 DEF Free
  <1> QED
    BY <1>5, <1>6, <1>7, <1>8 DEF LevelInv

(* releaseAllDatabases closes what is free, which no call holds. *)
LEMMA LevelInvReleaseAll ==
    ASSUME PoolInv, LevelInv, ReleaseAll
    PROVE  LevelInv'
  <1>1. /\ inPool' = <<>> /\ outPool' = {} /\ releases' = releases + 1
        /\ UNCHANGED <<created, left, step, kind, inside, holds, rollback, faults>>
        /\ conns' = [d \in Dbs |-> IF d \in Elements(inPool) THEN None ELSE conns[d]]
        /\ locks' = [d \in Dbs |-> IF d \in Elements(inPool) THEN "none" ELSE locks[d]]
    BY DEF ReleaseAll, call
  <1>2. CallTypes /\ InOrder /\ Lent /\ Free
    BY DEF LevelInv
  <1>3. CallTypes'
    <2>1. conns' \in [Dbs -> Seq(Level) \cup {None}] /\ locks' \in [Dbs -> Locks]
      BY <1>1, <1>2 DEF CallTypes, Locks
    <2> QED
      BY <1>1, <1>2, <2>1 DEF CallTypes
  <1>4. InOrder'
    BY <1>1, <1>2 DEF InOrder
  <1>5. Lent'
    <2> SUFFICES ASSUME NEW b \in Calls, InUse(b)
                 PROVE  conns'[holds[b]] = conns[holds[b]] /\ locks'[holds[b]] = locks[holds[b]]
      BY <1>1, <1>2 DEF Lent, Clean, InUse
    <2>1. holds[b] \in Dbs
      BY <1>2, HeldAreDbs DEF InUse
    <2>2. holds[b] \notin Elements(inPool)
      BY DEF PoolInv, Exclusive
    <2> QED
      BY <1>1, <2>1, <2>2
  <1>6. Free'
    BY <1>1 DEF Free, Elements
  <1> QED
    BY <1>3, <1>4, <1>5, <1>6 DEF LevelInv

(* Nothing is open at first. *)
LEMMA LevelInvInit == Init => LevelInv
  <1> SUFFICES ASSUME Init PROVE LevelInv
    OBVIOUS
  <1>1. CallTypes
    BY DEF Init, CallTypes, Locks
  <1>2. InOrder
    BY Numbers DEF Init, InOrder, Calls, Dbs
  <1>3. Lent /\ Free
    BY DEF Init, Lent, Free, InUse, Elements
  <1> QED
    BY <1>1, <1>2, <1>3 DEF LevelInv

(* db: what each of its outcomes leaves to the call that asks, to the others
   and to the pool. *)
TakenWell(c) ==
    /\ outPool' \subseteq Dbs /\ faults' \in Nat
    /\ conns' \in [Dbs -> Seq(Level) \cup {None}] /\ locks' \in [Dbs -> Locks]
    /\ created' \in 0..c
    /\ \A d \in Dbs : d > created' => conns'[d] = None /\ locks'[d] = "none"
    /\ \A b \in Calls : b # c => holds'[b] = holds[b]
    /\ \A b \in Calls : InUse(b) => /\ conns'[holds[b]] = conns[holds[b]]
                                    /\ locks'[holds[b]] = locks[holds[b]]
    /\ holds'[c] # None => /\ conns'[holds'[c]] \in Seq(Level)
                           /\ holds'[c] \notin left => Clean(holds[c])'
    /\ \A d \in Elements(inPool)' : conns'[d] \in Seq(Level) /\ (d \notin left => Clean(d)')

(* A free connection leaves the pool; one that is refused is closed. *)
LEMMA FreeTakenWell ==
    ASSUME PoolInv, LevelInv, NEW c \in Calls, step[c] = "idle", TakeFree(c)
    PROVE  TakenWell(c)
  <1> DEFINE l == Last(inPool)
  <1>1. CallTypes /\ InOrder /\ Free
    BY DEF LevelInv
  <1>2. /\ inPool # <<>> /\ inPool' = Front(inPool) /\ outPool' = outPool \cup {l}
        /\ created' = created
        /\ \/ holds' = [holds EXCEPT ![c] = l] /\ UNCHANGED <<conns, locks, faults>>
           \/ /\ faults' = faults + 1
              /\ conns' = [conns EXCEPT ![l] = None]
              /\ locks' = [locks EXCEPT ![l] = "none"]
              /\ holds' = holds
    BY DEF TakeFree, Faulty
  <1>3. /\ inPool \in Seq(Nat) /\ DOMAIN inPool = 1..Len(inPool) /\ Len(inPool) \in DOMAIN inPool
        /\ DOMAIN inPool' = 1..(Len(inPool) - 1) /\ Len(inPool) \in Nat
        /\ \A i \in DOMAIN inPool' : i \in DOMAIN inPool /\ inPool'[i] = inPool[i] /\ i # Len(inPool)
    <2>1. inPool \in Seq(Nat) /\ Len(inPool) \in Nat
      BY DEF PoolInv
    <2>2. /\ DOMAIN inPool' = 1..(Len(inPool) - 1) /\ DOMAIN inPool = 1..Len(inPool)
          /\ Len(inPool) \in DOMAIN inPool
          /\ \A i \in 1..(Len(inPool) - 1) : inPool'[i] = inPool[i]
      <3> HIDE DEF l
      <3> QED
        BY <1>2, <2>1, FrontOfSeq
    <2>3. \A i \in 1..(Len(inPool) - 1) : i \in 1..Len(inPool) /\ i # Len(inPool)
      BY <2>1
    <2> QED
      BY <2>1, <2>2, <2>3
  <1>4. /\ l \in Elements(inPool) /\ l \notin Elements(inPool)'
        /\ Elements(inPool)' \subseteq Elements(inPool)
    BY <1>3 DEF Last, Elements, PoolInv, Exclusive
  <1>5. Elements(inPool) \subseteq Dbs /\ l # None /\ l \in Dbs
    BY <1>1, <1>4, HeldAreDbs, Numbers
  <1>6. holds[c] = None /\ holds \in [Calls -> Nat \cup {None}]
    BY DEF PoolInv
  <1>7. \A b \in Calls : InUse(b) => holds[b] # l
    BY <1>4 DEF PoolInv, Exclusive
  <1> HIDE DEF l
  <1>8. \A d \in Dbs : d # l => conns'[d] = conns[d] /\ locks'[d] = locks[d]
    BY <1>1, <1>2 DEF CallTypes
  <1>9. holds'[c] \in {None, l} /\ \A b \in Calls : b # c => holds'[b] = holds[b]
    BY <1>2, <1>6
  <1>10. created \in 0..c
    BY <1>1, Numbers DEF InOrder
  <1>11. /\ conns' \in [Dbs -> Seq(Level) \cup {None}] /\ locks' \in [Dbs -> Locks]
         /\ faults' \in Nat
    BY <1>1, <1>2 DEF CallTypes, Locks
  <1>12. \A d \in Dbs : d > created => conns'[d] = None /\ locks'[d] = "none"
    BY <1>1, <1>2 DEF InOrder, CallTypes
  <1>13. \A b \in Calls : InUse(b) => conns'[holds[b]] = conns[holds[b]] /\ locks'[holds[b]] = locks[holds[b]]
    BY <1>1, <1>7, <1>8, HeldAreDbs
  <1>14. holds'[c] # None => /\ conns'[holds'[c]] \in Seq(Level)
                             /\ holds'[c] \notin left => Clean(holds[c])'
    <2> SUFFICES ASSUME holds'[c] # None
                 PROVE  conns'[l] \in Seq(Level) /\ (l \notin left => conns'[l] = <<>> /\ locks'[l] = "none")
      BY <1>9 DEF Clean
    <2>1. UNCHANGED <<conns, locks>>
      BY <1>2, <1>6
    <2> QED
      BY <1>1, <1>4, <2>1 DEF Free, Clean
  <1>15. \A d \in Elements(inPool)' : conns'[d] \in Seq(Level) /\ (d \notin left => Clean(d)')
    <2> SUFFICES ASSUME NEW d \in Elements(inPool)'
                 PROVE  conns'[d] \in Seq(Level) /\ (d \notin left => conns'[d] = <<>> /\ locks'[d] = "none")
      BY DEF Clean
    <2>1. d \in Elements(inPool) /\ d \in Dbs /\ d # l
      BY <1>4, <1>5
    <2> QED
      BY <1>1, <1>8, <2>1 DEF Free, Clean
  <1>16. outPool' \subseteq Dbs
    BY <1>1, <1>2, <1>5 DEF CallTypes
  <1> QED
    BY <1>2, <1>9, <1>10, <1>11, <1>12, <1>13, <1>14, <1>15, <1>16 DEF TakenWell

(* A connection that is created is nobody else's. *)
LEMMA NewTakenWell ==
    ASSUME PoolInv, LevelInv, NEW c \in Calls, step[c] = "idle", TakeNew(c)
    PROVE  TakenWell(c)
  <1> DEFINE n == created + 1
  <1>1. CallTypes /\ InOrder /\ Free
    BY DEF LevelInv
  <1>2. /\ inPool = <<>> /\ inPool' = inPool /\ created' = n /\ locks' = locks
        /\ \/ /\ outPool' = outPool \cup {n}
              /\ holds' = [holds EXCEPT ![c] = n]
              /\ conns' = [conns EXCEPT ![n] = <<>>]
              /\ faults' = faults
           \/ /\ faults' = faults + 1
              /\ UNCHANGED <<outPool, holds, conns>>
    BY DEF TakeNew, Faulty
  <1>3. created \in Nat /\ n \in 1..c /\ n \in Dbs /\ created < n /\ n # None
    BY <1>1, Numbers DEF InOrder, Dbs
  <1>4. holds[c] = None /\ holds \in [Calls -> Nat \cup {None}]
    BY DEF PoolInv
  <1>5. \A b \in Calls : InUse(b) => holds[b] # n
    BY <1>3 DEF PoolInv, Known, InUse
  <1> HIDE DEF n
  <1>6. \A d \in Dbs : d # n => conns'[d] = conns[d]
    BY <1>1, <1>2 DEF CallTypes
  <1>7. holds'[c] \in {None, n} /\ \A b \in Calls : b # c => holds'[b] = holds[b]
    BY <1>2, <1>4
  <1>8. /\ conns' \in [Dbs -> Seq(Level) \cup {None}] /\ locks' \in [Dbs -> Locks]
        /\ faults' \in Nat /\ outPool' \subseteq Dbs
    <2>1. << >> \in Seq(Level)
      BY EmptySeq
    <2>2. conns' \in [Dbs -> Seq(Level) \cup {None}]
      BY <1>1, <1>2, <2>1 DEF CallTypes
    <2>3. locks' \in [Dbs -> Locks]
      BY <1>1, <1>2 DEF CallTypes
    <2>4. faults' \in Nat
      <3>1. faults \in Nat /\ faults' \in {faults, faults + 1}
        BY <1>1, <1>2 DEF CallTypes
      <3> QED
        BY <3>1
    <2>5. outPool' \subseteq Dbs
      <3>1. outPool \subseteq Dbs /\ outPool' \in {outPool, outPool \cup {n}}
        BY <1>1, <1>2 DEF CallTypes
      <3> QED
        BY <1>3, <3>1
    <2> QED
      BY <2>2, <2>3, <2>4, <2>5
  <1>9. \A d \in Dbs : d > n => conns'[d] = None /\ locks'[d] = "none"
    <2> SUFFICES ASSUME NEW d \in Dbs, d > n
                 PROVE  conns'[d] = None /\ locks'[d] = "none"
      OBVIOUS
    <2>1. d > created /\ d # n
      BY <1>3, Numbers DEF n, Dbs
    <2> QED
      BY <1>1, <1>2, <1>6, <2>1 DEF InOrder
  <1>10. \A b \in Calls : InUse(b) => conns'[holds[b]] = conns[holds[b]] /\ locks'[holds[b]] = locks[holds[b]]
    BY <1>1, <1>2, <1>5, <1>6, HeldAreDbs
  <1>11. holds'[c] # None => /\ conns'[holds'[c]] \in Seq(Level)
                             /\ holds'[c] \notin left => Clean(holds[c])'
    <2> SUFFICES ASSUME holds'[c] # None
                 PROVE  conns'[n] = <<>> /\ locks'[n] = "none"
      BY <1>7, EmptySeq DEF Clean
    <2>1. locks[n] = "none"
      BY <1>1, <1>3 DEF InOrder
    <2> QED
      BY <1>1, <1>2, <1>3, <1>4, <2>1 DEF CallTypes
  <1>12. Elements(inPool)' = {}
    BY <1>2 DEF Elements
  <1> QED
    BY <1>2, <1>3, <1>7, <1>8, <1>9, <1>10, <1>11, <1>12 DEF TakenWell

(* A call starts with what it gets, on top of whatever body makes it. *)
LEMMA LevelInvMakeCall ==
    ASSUME PoolInv, PoolInv', LevelInv,
           NEW c \in Calls, NEW k \in Kinds, NEW from \in Calls \cup {None},
           MakeCall(c, k, from)
    PROVE  LevelInv'
  <1>1. CallTypes /\ InOrder /\ Lent /\ Free
    BY DEF LevelInv
  <1>2. /\ step[c] = "idle" /\ \A b \in 1..(c - 1) : step[b] # "idle"
        /\ from # None => step[from] = "body" /\ Runs(from)
        /\ step' = [step EXCEPT ![c] = AfterTake(k)]
        /\ kind' = [kind EXCEPT ![c] = k]
        /\ inside' = [inside EXCEPT ![c] = from]
        /\ UNCHANGED <<left, rollback, releases>>
    BY DEF MakeCall, GoTo
  <1>3. holds[c] = None /\ ~InUse(c)
    BY <1>2 DEF PoolInv, InUse
  <1>4. TakenWell(c)
    <2>1. CASE TakeNothing(c)
      <3>1. /\ inPool = <<>>
            /\ UNCHANGED <<inPool, outPool, created, conns, locks, holds, faults>>
        BY <2>1 DEF TakeNothing, pool
      <3>2. created \in 0..c
        BY <1>1, <1>2, Numbers DEF InOrder
      <3>3. Elements(inPool)' = {}
        BY <3>1 DEF Elements
      <3>4. \A d \in Dbs : d > created => conns[d] = None /\ locks[d] = "none"
        BY <1>1 DEF InOrder
      <3> QED
        BY <1>1, <1>3, <3>1, <3>2, <3>3, <3>4 DEF TakenWell, CallTypes
    <2> QED
      BY <1>2, <2>1, FreeTakenWell, NewTakenWell DEF MakeCall
  <1>5. /\ step'[c] = AfterTake(k) /\ \A b \in Calls : b # c => step'[b] = step[b]
        /\ kind'[c] = k /\ \A b \in Calls : b # c => kind'[b] = kind[b]
        /\ inside'[c] = from /\ \A b \in Calls : b # c => inside'[b] = inside[b]
    BY <1>1, <1>2 DEF PoolInv, CallTypes
  <1>6. AfterTake(k) \in {"body", "begin"} /\ (AfterTake(k) = "begin" <=> k # "db")
    BY DEF AfterTake
  <1>7. CallTypes'
    <2>1. kind' \in [Calls -> Kinds \cup {None}] /\ inside' \in [Calls -> Calls \cup {None}]
      BY <1>1, <1>2 DEF CallTypes
    <2>2. from # None => from < c /\ from # c
      <3> SUFFICES ASSUME from # None PROVE from < c /\ from # c
        OBVIOUS
      <3>1. from \in Calls /\ step[from] = "body"
        BY <1>2
      <3>2. ~(c < from) /\ from # c
        BY <1>1, <1>2, <3>1 DEF InOrder
      <3> QED
        BY <3>1, <3>2, Numbers
    <2>3. \A b \in Calls : inside'[b] # None => inside'[b] < b /\ step'[inside'[b]] = "body"
      <3> SUFFICES ASSUME NEW b \in Calls, inside'[b] # None
                   PROVE  inside'[b] < b /\ step'[inside'[b]] = "body"
        OBVIOUS
      <3>1. CASE b = c
        BY <1>2, <1>5, <2>2, <3>1
      <3>2. CASE b # c
        <4>1. inside'[b] = inside[b] /\ inside[b] \in Calls /\ inside[b] < b /\ step[inside[b]] = "body"
          BY <1>1, <1>5, <3>2 DEF CallTypes
        <4>2. inside[b] # c
          BY <1>2, <4>1
        <4> QED
          BY <1>5, <4>1, <4>2
      <3> QED
        BY <3>1, <3>2
    <2>4. \A b \in Calls : step'[b] \in {"begin", "body", "end", "push"} => kind'[b] \in Kinds
      BY <1>1, <1>5 DEF CallTypes
    <2>5. \A b \in Calls : step'[b] \in {"begin", "end"} => kind'[b] # "db"
      BY <1>1, <1>5, <1>6 DEF CallTypes
    <2> QED
      BY <1>1, <1>2, <1>4, <2>1, <2>3, <2>4, <2>5 DEF CallTypes, TakenWell
  <1>8. InOrder'
    <2>1. created' \in 0..MaxCalls /\ created' \in 0..c
      BY <1>4, Numbers DEF TakenWell, Calls
    <2>2. \A b \in Calls : step'[b] = "idle" => c < b /\ b # c
      <3> SUFFICES ASSUME NEW b \in Calls, step'[b] = "idle" PROVE c < b
        BY Numbers
      <3>1. b # c /\ step[b] = "idle"
        BY <1>5, <1>6
      <3>2. ~(b \in 1..(c - 1))
        BY <1>2, <3>1
      <3> QED
        BY <3>1, <3>2, Numbers DEF Calls
    <2>3. \A b, e \in Calls : b < e /\ step'[e] # "idle" => step'[b] # "idle"
      <3> SUFFICES ASSUME NEW b \in Calls, NEW e \in Calls, b < e, step'[e] # "idle", step'[b] = "idle"
                   PROVE  FALSE
        OBVIOUS
      <3>1. c < b /\ b # c
        BY <2>2
      <3>2. e # c
        BY <3>1, Numbers
      <3> QED
        BY <1>1, <1>5, <3>1, <3>2 DEF InOrder
    <2>4. \A b \in Calls : step'[b] = "idle" => created' < b
      BY <2>1, <2>2, Numbers
    <2> QED
      BY <1>4, <2>1, <2>3, <2>4 DEF InOrder, TakenWell
  <1>9. Lent'
    <2> SUFFICES ASSUME NEW b \in Calls, InUse(b)'
                 PROVE  /\ conns'[holds'[b]] \in Seq(Level)
                        /\ kind'[b] = "sp" /\ step'[b] \in {"body", "end"} =>
                               /\ conns'[holds'[b]] # <<>>
                               /\ conns'[holds'[b]][Len(conns'[holds'[b]])].name = b
                               /\ holds'[b] \notin left => Len(conns'[holds'[b]]) = 1
                        /\ holds'[b] \notin left /\ (step'[b] \in {"begin", "push"} \/ kind'[b] = "db")
                               => Clean(holds[b])'
      BY <1>2 DEF Lent
    <2>1. CASE b = c
      BY <1>4, <1>5, <1>6, <2>1 DEF TakenWell, InUse
    <2>2. CASE b # c
      <3>1. InUse(b) /\ step'[b] = step[b] /\ holds'[b] = holds[b] /\ kind'[b] = kind[b]
        BY <1>4, <1>5, <2>2 DEF InUse, TakenWell
      <3>2. conns'[holds[b]] = conns[holds[b]] /\ locks'[holds[b]] = locks[holds[b]]
        BY <1>4, <3>1 DEF TakenWell
      <3> QED
        BY <1>1, <3>1, <3>2 DEF Lent, Clean
    <2> QED
      BY <2>1, <2>2
  <1>10. Free'
    BY <1>2, <1>4 DEF TakenWell, Free
  <1> QED
    BY <1>7, <1>8, <1>9, <1>10 DEF LevelInv

(* No step breaks the invariant on levels and locks. *)
LEMMA LevelInvNext == PoolInv /\ PoolInv' /\ LevelInv /\ [Next]_vars => LevelInv'
  <1> SUFFICES ASSUME PoolInv, PoolInv', LevelInv, [Next]_vars PROVE LevelInv'
    OBVIOUS
  <1>1. ASSUME NEW c \in Calls, NEW k \in Kinds, NEW from \in Calls \cup {None},
               MakeCall(c, k, from)
        PROVE  LevelInv'
    BY <1>1, LevelInvMakeCall
  <1>2. ASSUME NEW c \in Calls, Advance(c)
        PROVE  LevelInv'
    BY <1>2, LevelInvBegin, LevelInvRead, LevelInvWrite, LevelInvReturns, LevelInvEnd,
       LevelInvPush DEF Advance
  <1>3. CASE ReleaseAll
    BY <1>3, LevelInvReleaseAll
  <1>4. CASE UNCHANGED vars
    BY <1>4 DEF vars, pool, call, LevelInv, CallTypes, InOrder, Lent, Free, InUse, Elements, Clean
  <1>5. QED
    BY <1>1, <1>2, <1>3, <1>4 DEF Next

(* Both invariants hold in every state. *)
LEMMA LevelInvAlways == Spec => [](PoolInv /\ LevelInv)
  <1>1. Init => PoolInv /\ LevelInv
    BY PoolInvInit, LevelInvInit
  <1>2. PoolInv /\ LevelInv /\ [Next]_vars => (PoolInv /\ LevelInv)'
    BY PoolInvNext, LevelInvNext
  <1> QED
    BY <1>1, <1>2, PTL DEF Spec

(* A connection goes back to the pool as clean as it was made, unless a call
   left its transaction open: whatever methods its calls are, however their
   bodies end, whatever faults there are and however they wait for locks. *)
THEOREM CleanConnections == Spec => []CleanInPool
  <1>1. LevelInv => CleanInPool
    BY DEF LevelInv, Free, CleanInPool, Clean
  <1> QED
    BY LevelInvAlways, <1>1, PTL

(* The databases are created by different calls, so there are no more than
   calls made, only they are open, and a call made from a body is over before
   the body goes on. *)
THEOREM CallsInOrder == Spec => []TypeOK
  <1>1. PoolInv /\ LevelInv => TypeOK
    <2> SUFFICES ASSUME PoolInv, LevelInv PROVE TypeOK
      OBVIOUS
    <2>1. CallTypes /\ InOrder
      BY DEF LevelInv
    <2>2. holds \in [Calls -> Dbs \cup {None}] /\ inPool \in Seq(Dbs)
      <3>1. \A i \in 1..Len(inPool) : inPool[i] \in Dbs
        BY <2>1, HeldAreDbs DEF Elements, PoolInv
      <3>2. inPool \in Seq(Dbs)
        BY <3>1 DEF PoolInv
      <3> QED
        BY <2>1, <3>2, HeldAreDbs DEF PoolInv
    <2>3. created <= Cardinality({c \in Calls : step[c] # "idle"})
      <3> DEFINE S == {c \in Calls : step[c] # "idle"}
      <3>1. created \in Nat /\ 1..created \subseteq S
        BY <2>1, Numbers DEF InOrder, Calls
      <3>2. IsFiniteSet(Calls)
        BY FS_Interval, Numbers DEF Calls
      <3>3. IsFiniteSet(S)
        BY <3>2, FS_Subset
      <3>4. Cardinality(1..created) = created
        BY <3>1, FS_Interval
      <3> HIDE DEF S
      <3>5. Cardinality(1..created) <= Cardinality(S)
        BY <3>1, <3>3, FS_Subset
      <3> QED
        BY <3>4, <3>5 DEF S
    <2>4. \A d \in Dbs : conns[d] # None => d <= created /\ conns[d] \in Seq(Level)
      BY <2>1, Numbers DEF CallTypes, InOrder, Dbs
    <2> QED
      BY <2>1, <2>2, <2>3, <2>4 DEF TypeOK, CallTypes, InOrder, PoolInv
  <1> QED
    BY LevelInvAlways, <1>1, PTL

-----------------------------------------------------------------------------
(* Both invariants, as a step has them. *)
Before == PoolInv /\ LevelInv

(* _databaseOutPool is among finitely many databases, and the free ones are
   counted. *)
LEMMA Counted ==
    ASSUME Before
    PROVE  /\ IsFiniteSet(outPool) /\ Cardinality(outPool) \in Nat
           /\ Len(inPool) \in Nat /\ MaxDatabases \in Nat
           /\ releases \in Nat /\ outPool \subseteq Dbs
  <1>1. outPool \subseteq Dbs /\ inPool \in Seq(Nat) /\ releases \in Nat
    BY DEF Before, LevelInv, CallTypes, PoolInv
  <1>2. IsFiniteSet(Dbs)
    BY FS_Interval, Numbers DEF Dbs
  <1>3. IsFiniteSet(outPool)
    BY <1>1, <1>2, FS_Subset
  <1> QED
    BY <1>1, <1>3, FS_CardinalityType, PoolAssumption

(* addObject: to a set adds one at most. *)
LEMMA OneMore ==
    ASSUME NEW S, IsFiniteSet(S), NEW x
    PROVE  /\ Cardinality(S \cup {x}) \in Nat
           /\ Cardinality(S \cup {x}) <= Cardinality(S) + 1
  <1>1. Cardinality(S) \in Nat /\ IsFiniteSet(S \cup {x})
    BY FS_AddElement, FS_CardinalityType
  <1>2. Cardinality(S \cup {x}) \in {Cardinality(S), Cardinality(S) + 1}
    BY FS_AddElement
  <1> QED
    BY <1>1, <1>2

(* The steps that leave both counts and every holder as they are. *)
LEMMA CountsMove ==
    ASSUME Before, CountsAgree, NEW c \in Calls,
           step[c] \in {"begin", "body", "end"},
           NEW s \in {"body", "end", "push"}, step' = [step EXCEPT ![c] = s],
           UNCHANGED <<inPool, outPool, holds, releases>>,
           \A d \in Dbs : d # holds[c] => conns'[d] = conns[d]
    PROVE  CountsAgree'
  <1>1. \A b \in Calls : InUse(b)' <=> InUse(b)
    BY DEF Before, PoolInv, InUse
  <1>2. Held' = Held
    BY <1>1 DEF Held
  <1>3. \A d \in outPool \ Held : d \in Dbs /\ d # holds[c]
    <2> SUFFICES ASSUME NEW d \in outPool \ Held PROVE d \in Dbs /\ d # holds[c]
      OBVIOUS
    <2>1. d \in Dbs /\ d # None
      BY Counted, Numbers
    <2>2. InUse(c) => holds[c] \in Held
      BY DEF Held
    <2> QED
      BY <2>1, <2>2 DEF InUse
  <1> QED
    BY <1>2, <1>3 DEF CountsAgree

(* db: what is lent counts as checked out, and BoundReached looks before it. *)
LEMMA CountsMakeCall ==
    ASSUME Before, CountsAgree,
           NEW c \in Calls, NEW k \in Kinds, NEW from \in Calls \cup {None},
           MakeCall(c, k, from)
    PROVE  CountsAgree'
  <1>1. /\ step[c] = "idle" /\ UNCHANGED releases
        /\ step' = [step EXCEPT ![c] = AfterTake(k)]
        /\ TakeNothing(c) \/ TakeFree(c) \/ TakeNew(c)
    BY DEF MakeCall, GoTo
  <1>2. step'[c] \in {"body", "begin"} /\ \A b \in Calls : b # c => step'[b] = step[b]
    BY <1>1 DEF Before, PoolInv, AfterTake
  <1>3. ~InUse(c) /\ holds[c] = None /\ holds \in [Calls -> Nat \cup {None}]
    BY <1>1 DEF Before, PoolInv, InUse
  <1>4. SUFFICES ASSUME releases = 0
                 PROVE  /\ Held' \subseteq outPool'
                        /\ \A d \in outPool' \ Held' : conns'[d] = None
                        /\ MaxDatabases > 0 => Cardinality(outPool') + Len(inPool') <= MaxDatabases
    BY <1>1 DEF CountsAgree
  <1>5. /\ Held \subseteq outPool
        /\ \A d \in outPool \ Held : conns[d] = None
        /\ MaxDatabases > 0 => Cardinality(outPool) + Len(inPool) <= MaxDatabases
    BY <1>4 DEF CountsAgree
  <1>6. ASSUME holds' = holds
        PROVE  Held' = Held
    <2>1. \A b \in Calls : InUse(b)' <=> InUse(b)
      BY <1>2, <1>3, <1>6 DEF InUse
    <2> QED
      BY <1>6, <2>1 DEF Held
  <1>7. ASSUME NEW d \in Dbs, holds' = [holds EXCEPT ![c] = d]
        PROVE  Held' = Held \cup {d}
    <2>1. d # None /\ holds'[c] = d /\ \A b \in Calls : b # c => holds'[b] = holds[b]
      BY <1>3, <1>7, Numbers
    <2>2. \A b \in Calls : InUse(b)' <=> InUse(b) \/ b = c
      BY <1>2, <2>1 DEF InUse
    <2> QED
      BY <1>3, <2>1, <2>2 DEF Held
  <1>8. CASE TakeNothing(c)
    BY <1>5, <1>6, <1>8 DEF TakeNothing, pool
  <1>9. CASE TakeFree(c)
    <2> DEFINE l == Last(inPool)
    <2>1. /\ inPool # <<>> /\ inPool' = Front(inPool) /\ outPool' = outPool \cup {l}
          /\ \/ holds' = [holds EXCEPT ![c] = l] /\ UNCHANGED conns
             \/ holds' = holds /\ conns' = [conns EXCEPT ![l] = None]
      BY <1>9 DEF TakeFree
    <2>2. l \in Elements(inPool) /\ Len(inPool) \in Nat \ {0} /\ Len(inPool') = Len(inPool) - 1
      <3>1. inPool \in Seq(Nat)
        BY DEF Before, PoolInv
      <3>2. /\ Len(inPool) \in DOMAIN inPool /\ DOMAIN inPool = 1..Len(inPool)
            /\ Front(inPool) \in Seq(Nat) /\ DOMAIN Front(inPool) = 1..(Len(inPool) - 1)
        BY <2>1, <3>1, FrontOfSeq
      <3>3. Len(inPool) \in Nat \ {0}
        BY <3>1, <3>2
      <3>4. Len(Front(inPool)) = Len(inPool) - 1
        BY <2>1, <3>1, FrontOfSeq
      <3> QED
        BY <2>1, <3>2, <3>3, <3>4 DEF Last, Elements
    <2>3. l \in Dbs
      BY <2>2, HeldAreDbs DEF Before, LevelInv
    <2> HIDE DEF l
    <2>4. Cardinality(outPool') <= Cardinality(outPool) + 1 /\ Cardinality(outPool') \in Nat
      BY <2>1, Counted, OneMore
    <2>5. MaxDatabases > 0 => Cardinality(outPool') + Len(inPool') <= MaxDatabases
      BY <1>5, <2>2, <2>4, Counted
    <2>6. CASE holds' = [holds EXCEPT ![c] = l] /\ UNCHANGED conns
      BY <1>5, <1>7, <2>1, <2>3, <2>5, <2>6
    <2>7. CASE holds' = holds /\ conns' = [conns EXCEPT ![l] = None]
      <3>1. \A d \in outPool \cup {l} : d \in Dbs /\ conns'[d] = IF d = l THEN None ELSE conns[d]
        BY <2>3, <2>7, Counted DEF Before, LevelInv, CallTypes
      <3> QED
        BY <1>5, <1>6, <2>1, <2>5, <2>7, <3>1
    <2> QED
      BY <2>1, <2>6, <2>7
  <1>10. CASE TakeNew(c)
    <2> DEFINE n == created + 1
    <2>1. /\ inPool = <<>> /\ inPool' = inPool /\ ~BoundReached
          /\ \/ /\ outPool' = outPool \cup {n}
                /\ holds' = [holds EXCEPT ![c] = n]
                /\ conns' = [conns EXCEPT ![n] = <<>>]
             \/ UNCHANGED <<outPool, holds, conns>>
      BY <1>10 DEF TakeNew
    <2>2. n \in Dbs
      BY <1>1, Numbers DEF Before, LevelInv, InOrder, Dbs
    <2> HIDE DEF n
    <2>3. CASE UNCHANGED <<outPool, holds, conns>>
      BY <1>5, <1>6, <2>1, <2>3
    <2>4. CASE /\ outPool' = outPool \cup {n}
               /\ holds' = [holds EXCEPT ![c] = n]
               /\ conns' = [conns EXCEPT ![n] = <<>>]
      <3>1. Cardinality(outPool') <= Cardinality(outPool) + 1 /\ Cardinality(outPool') \in Nat
        BY <2>4, Counted, OneMore
      <3>2. MaxDatabases > 0 => Cardinality(outPool') + Len(inPool') <= MaxDatabases
        BY <2>1, <3>1, Counted DEF BoundReached
      <3>3. Held' = Held \cup {n}
        BY <1>7, <2>2, <2>4
      <3>4. \A d \in outPool : d # n => conns'[d] = conns[d]
        BY <2>4, Counted DEF Before, LevelInv, CallTypes
      <3> QED
        BY <1>5, <2>4, <3>2, <3>3, <3>4
    <2> QED
      BY <2>1, <2>3, <2>4
  <1> QED
    BY <1>1, <1>8, <1>9, <1>10

(* pushDatabaseBackInPool: what leaves one count enters the other. *)
LEMMA CountsPush ==
    ASSUME Before, PoolInv', CountsAgree, NEW c \in Calls, Push(c)
    PROVE  CountsAgree'
  <1>1. /\ step[c] = "push" /\ UNCHANGED <<created, conns, locks, left, releases, faults>>
        /\ holds' = [holds EXCEPT ![c] = None]
        /\ \E s \in {"done", "raised"} : step' = [step EXCEPT ![c] = s]
    BY DEF Push, Returns, GoTo
  <1>2. SUFFICES ASSUME releases = 0
                 PROVE  /\ Held' \subseteq outPool'
                        /\ \A d \in outPool' \ Held' : conns'[d] = None
                        /\ MaxDatabases > 0 => Cardinality(outPool') + Len(inPool') <= MaxDatabases
    BY <1>1 DEF CountsAgree
  <1>3. /\ Held \subseteq outPool
        /\ \A d \in outPool \ Held : conns[d] = None
        /\ MaxDatabases > 0 => Cardinality(outPool) + Len(inPool) <= MaxDatabases
    BY <1>2 DEF CountsAgree
  <1>4. \A b \in Calls : InUse(b)' <=> InUse(b) /\ b # c
    BY <1>1 DEF Before, PoolInv, InUse
  <1>5. \A b \in Calls : b # c => holds'[b] = holds[b]
    BY <1>1 DEF Before, PoolInv
  <1>6. CASE holds[c] = None
    <2>1. Held' = Held /\ UNCHANGED <<inPool, outPool>>
      <3>1. ~InUse(c)
        BY <1>6 DEF InUse
      <3>2. Held' = Held
        BY <1>4, <1>5, <3>1 DEF Held
      <3> QED
        BY <1>6, <3>2 DEF Push
    <2> QED
      BY <1>1, <1>3, <2>1
  <1>7. CASE holds[c] # None
    <2>1. InUse(c) /\ holds[c] \in Held /\ holds[c] \notin Elements(inPool)
      BY <1>1, <1>7 DEF InUse, Held, Before, PoolInv, Exclusive
    <2>2. inPool' = Append(inPool, holds[c]) /\ outPool' = outPool \ {holds[c]}
      BY <1>7, <2>1 DEF Push
    <2>3. Held' = Held \ {holds[c]}
      <3>1. \A b \in Calls : InUse(b) /\ b # c => holds[b] # holds[c]
        BY <2>1 DEF Before, PoolInv, Exclusive
      <3>2. Held' = {holds[b] : b \in {b \in Calls : InUse(b) /\ b # c}}
        BY <1>4, <1>5 DEF Held
      <3> QED
        BY <3>1, <3>2 DEF Held
    <2>4. Cardinality(outPool') = Cardinality(outPool) - 1
      BY <1>3, <2>1, <2>2, Counted, FS_RemoveElement
    <2>5. Len(inPool') = Len(inPool) + 1
      <3>1. inPool \in Seq(Nat) /\ holds[c] \in Nat
        BY <1>7 DEF Before, PoolInv
      <3> QED
        BY <2>2, <3>1
    <2> QED
      BY <1>1, <1>3, <2>2, <2>3, <2>4, <2>5, Counted
  <1> QED
    BY <1>6, <1>7

(* No step breaks the counts. *)
LEMMA CountsNext == Before /\ PoolInv' /\ CountsAgree /\ [Next]_vars => CountsAgree'
  <1> SUFFICES ASSUME Before, PoolInv', CountsAgree, [Next]_vars PROVE CountsAgree'
    OBVIOUS
  <1>1. ASSUME NEW c \in Calls, NEW k \in Kinds, NEW from \in Calls \cup {None},
               MakeCall(c, k, from)
        PROVE  CountsAgree'
    BY <1>1, CountsMakeCall
  <1>2. ASSUME NEW c \in Calls, NEW s \in {"begin", "body", "end"}, step[c] = s,
               NEW ok \in BOOLEAN, Statement(c, s, ok), UNCHANGED holds
        PROVE  \A d \in Dbs : d # holds[c] => conns'[d] = conns[d]
    BY <1>2, StatementStep DEF Before
  <1>3. ASSUME NEW c \in Calls, Advance(c)
        PROVE  CountsAgree'
    <2>1. CASE BeginStep(c)
      <3>1. /\ step[c] = "begin" /\ UNCHANGED <<pool, holds, releases>>
            /\ \E ok \in BOOLEAN : Statement(c, "begin", ok)
            /\ \E s \in {"push", "body"} : step' = [step EXCEPT ![c] = s]
        BY <2>1 DEF BeginStep, GoTo
      <3> QED
        BY <1>2, <3>1, CountsMove DEF pool
    <2>2. CASE Read(c)
      <3>1. step[c] = "body" /\ UNCHANGED <<pool, conns, step, holds, releases>>
        BY <2>2 DEF Read, call
      <3>2. step' = [step EXCEPT ![c] = "body"]
        BY <3>1 DEF Before, PoolInv
      <3> QED
        BY <3>1, <3>2, CountsMove DEF pool
    <2>3. CASE Write(c)
      <3>1. step[c] = "body" /\ UNCHANGED <<pool, step, holds, releases>>
            /\ \E ok \in BOOLEAN : Statement(c, "body", ok)
        BY <2>3 DEF Write, call
      <3>2. step' = [step EXCEPT ![c] = "body"]
        BY <3>1 DEF Before, PoolInv
      <3> QED
        BY <1>2, <3>1, <3>2, CountsMove DEF pool
    <2>4. CASE BodyReturns(c)
      <3>1. /\ step[c] = "body" /\ UNCHANGED <<pool, conns, holds, releases>>
            /\ \E s \in {"push", "end"} : step' = [step EXCEPT ![c] = s]
        BY <2>4 DEF BodyReturns, GoTo
      <3> QED
        BY <3>1, CountsMove DEF pool
    <2>5. CASE EndStep(c)
      <3>1. /\ step[c] = "end" /\ UNCHANGED <<pool, holds, releases>>
            /\ \E ok \in BOOLEAN : Statement(c, "end", ok)
            /\ step' = [step EXCEPT ![c] = "push"]
        BY <2>5 DEF EndStep, GoTo
      <3> QED
        BY <1>2, <3>1, CountsMove DEF pool
    <2>6. CASE Push(c)
      BY <2>6, CountsPush
    <2> QED
      BY <1>3, <2>1, <2>2, <2>3, <2>4, <2>5, <2>6 DEF Advance
  <1>4. CASE ReleaseAll
    BY <1>4, Counted DEF ReleaseAll, CountsAgree
  <1>5. CASE UNCHANGED vars
    BY <1>5 DEF vars, pool, call, CountsAgree, Held, InUse
  <1> QED
    BY <1>1, <1>3, <1>4, <1>5 DEF Next

(* The counts of the pool are those of its connections, and maximumNumber...
   bounds them, until releaseAllDatabases forgets the ones in use. *)
THEOREM CountsAreRight == Spec => []CountsAgree
  <1>1. Init => CountsAgree
    BY FS_EmptySet, PoolAssumption DEF Init, CountsAgree, Held, InUse
  <1>2. Before /\ Before' /\ CountsAgree /\ [Next]_vars => CountsAgree'
    BY CountsNext DEF Before
  <1>3. Spec => []Before
    BY LevelInvAlways DEF Before
  <1> QED
    BY <1>1, <1>2, <1>3, PTL DEF Spec

=============================================================================
