-------------------------- MODULE FMDatabase_proofs --------------------------
(***************************************************************************)
(* What the transaction methods of a connection do to its levels, for any  *)
(* depth of the stack and any names.                                       *)
(***************************************************************************)
EXTENDS FMDatabase, SequenceTheorems, TLAPS

-----------------------------------------------------------------------------
(* The rows that a transaction stack holds back. *)
LEMMA WritesOf ==
    ASSUME NEW s \in Seq(Level), NEW x
    PROVE  x \in AllWrites(s) <=> \E i \in 1..Len(s) : x \in s[i].writes
BY DEF AllWrites

(* Levels are levels. *)
LEMMA LevelFacts ==
    ASSUME NEW name \in Names \cup {Whole}
    PROVE  Open(name) \in Level /\ Open(name).name = name /\ Open(name).writes = {}
BY DEF Open, Level

(* The rows w are written in level k. *)
Widen(s, k, w) == [s EXCEPT ![k].writes = @ \cup w]

(* More rows are written in one level. *)
LEMMA Widened ==
    ASSUME NEW s \in Seq(Level), NEW k \in 1..Len(s), NEW w \in SUBSET Names,
           NEW l, l = Widen(s, k, w)
    PROVE  /\ l \in Seq(Level) /\ Len(l) = Len(s)
           /\ \A i \in 1..Len(s) : i # k => l[i] = s[i]
           /\ l[k].writes = s[k].writes \cup w /\ l[k].name = s[k].name
<1> DEFINE e == [s[k] EXCEPT !.writes = @ \cup w]
<1>1. s[k] \in Level  BY ElementOfSeq
<1>2. e \in Level /\ e.writes = s[k].writes \cup w /\ e.name = s[k].name
  BY <1>1 DEF Level
<1>3. l = [s EXCEPT ![k] = e]  BY DEF Widen
<1> HIDE DEF e
<1>4. [s EXCEPT ![k] = e] \in Seq(Level) /\ Len([s EXCEPT ![k] = e]) = Len(s)
  BY <1>2, ExceptSeq
<1>5. /\ \A i \in 1..Len(s) : i # k => [s EXCEPT ![k] = e][i] = s[i]
      /\ [s EXCEPT ![k] = e][k] = e
  BY <1>2, ExceptSeq
<1> QED  BY <1>2, <1>3, <1>4, <1>5

(* A new level on top. *)
LEMMA Deepened ==
    ASSUME NEW s \in Seq(Level), NEW name \in Names \cup {Whole}
    PROVE  LET l == Append(s, Open(name))
           IN  /\ l \in Seq(Level) /\ Len(l) = Len(s) + 1 /\ l # <<>>
               /\ l[Len(l)].name = name /\ l[Len(l)].writes = {}
               /\ AllWrites(l) = AllWrites(s)
<1> DEFINE o == Open(name)
           l == Append(s, o)
<1>1. o \in Level /\ o.name = name /\ o.writes = {}  BY LevelFacts
<1> HIDE DEF o
<1>2. /\ l \in Seq(Level) /\ Len(l) = Len(s) + 1 /\ l # <<>>
      /\ \A i \in 1..Len(s) : l[i] = s[i]
      /\ l[Len(l)] = o /\ Len(s) \in Nat
  BY <1>1, AppendProperties, LenProperties
<1> HIDE DEF l
<1>3. \A x : x \in AllWrites(l) <=> x \in AllWrites(s)
  <2> TAKE x
  <2>1. x \in AllWrites(l) <=> \E i \in 1..Len(l) : x \in l[i].writes  BY <1>2, WritesOf
  <2>2. x \in AllWrites(s) <=> \E i \in 1..Len(s) : x \in s[i].writes  BY WritesOf
  <2>3. \A i \in 1..Len(l) : i \in 1..Len(s) \/ i = Len(l)  BY <1>2
  <2>4. \A i \in 1..Len(s) : i \in 1..Len(l)  BY <1>2
  <2> QED  BY <1>1, <1>2, <2>1, <2>2, <2>3, <2>4
<1>4. AllWrites(l) = AllWrites(s)  BY <1>3
<1> QED  BY <1>1, <1>2, <1>4 DEF l, o

(* The lower levels. *)
LEMMA Lowered ==
    ASSUME NEW s \in Seq(Level), NEW p \in 1..Len(s)
    PROVE  LET l == SubSeq(s, 1, p - 1)
           IN  /\ l \in Seq(Level) /\ Len(l) = p - 1
               /\ \A i \in 1..(p - 1) : l[i] = s[i]
<1>1. p \in Nat /\ Len(s) \in Nat /\ p >= 1 /\ p - 1 \in 0..Len(s)  BY LenProperties
<1> QED  BY <1>1, SubSeqProperties

(* The upper levels. *)
LEMMA Raised ==
    ASSUME NEW s \in Seq(Level), NEW p \in 1..Len(s)
    PROVE  LET u == SubSeq(s, p, Len(s))
           IN  /\ u \in Seq(Level) /\ AllWrites(u) \subseteq AllWrites(s)
               /\ p = 1 => AllWrites(u) = AllWrites(s)
               /\ s[Len(s)].writes \subseteq AllWrites(u)
<1> DEFINE u == SubSeq(s, p, Len(s))
<1>1. p \in Nat /\ Len(s) \in Nat /\ p >= 1 /\ p <= Len(s)  BY LenProperties
<1>2. /\ u \in Seq(Level) /\ Len(u) = Len(s) - p + 1
      /\ \A i \in 1..(Len(s) - p + 1) : u[i] = s[p + i - 1]
  BY <1>1, SubSeqProperties
<1> HIDE DEF u
<1>3. ASSUME NEW x \in AllWrites(u) PROVE x \in AllWrites(s)
  <2>1. PICK i \in 1..Len(u) : x \in u[i].writes  BY <1>2, <1>3, WritesOf
  <2>2. p + i - 1 \in 1..Len(s) /\ x \in s[p + i - 1].writes  BY <1>1, <1>2, <2>1
  <2> QED  BY <2>2, WritesOf
<1>4. ASSUME p = 1, NEW x \in AllWrites(s) PROVE x \in AllWrites(u)
  <2>1. PICK i \in 1..Len(s) : x \in s[i].writes  BY <1>4, WritesOf
  <2>2. i \in 1..Len(u) /\ p + i - 1 = i /\ u[i] = s[i]  BY <1>1, <1>2, <1>4, <2>1
  <2> QED  BY <1>2, <2>1, <2>2, WritesOf
<1>5. ASSUME NEW x \in s[Len(s)].writes PROVE x \in AllWrites(u)
  <2>1. Len(u) \in 1..Len(u) /\ p + Len(u) - 1 = Len(s) /\ u[Len(u)] = s[Len(s)]  BY <1>1, <1>2
  <2> QED  BY <1>2, <1>5, <2>1, WritesOf
<1> QED  BY <1>2, <1>3, <1>4, <1>5 DEF u

(* No level holds back nothing. *)
LEMMA NoLevels == <<>> \in Seq(Level) /\ AllWrites(<<>>) = {}
BY DEF AllWrites

-----------------------------------------------------------------------------
(* BEGIN succeeds outside of a transaction, and holds back what was held. *)
LEMMA BeginOutcome ==
    ASSUME NEW s \in Seq(Level)
    PROVE  LET o == Begin(s)
           IN  /\ (o.ok <=> s = <<>>) /\ o.ok \in BOOLEAN /\ o.levels \in Seq(Level) /\ o.saved = {}
               /\ AllWrites(o.levels) = AllWrites(s)
               /\ ~o.ok => o.levels = s
<1>1. CASE s = <<>>
  <2> DEFINE e == Open(Whole)
             l == <<e>>
  <2>1. e \in Level /\ e.writes = {}  BY LevelFacts
  <2> HIDE DEF e
  <2>2. l \in Seq(Level) /\ Len(l) = 1 /\ l[1] = e  BY <2>1
  <2> HIDE DEF l
  <2>3. \A x : x \notin AllWrites(l)  BY <2>1, <2>2, WritesOf
  <2>4. AllWrites(l) = AllWrites(s)  BY <1>1, <2>3, NoLevels
  <2>5. Begin(s) = Outcome(TRUE, l, {}, {})  BY <1>1 DEF Begin, l, e
  <2>6. Begin(s).ok = TRUE /\ Begin(s).levels = l /\ Begin(s).saved = {}  BY <2>5 DEF Outcome
  <2> QED  BY <1>1, <2>2, <2>4, <2>6
<1>2. CASE s # <<>>  BY <1>2 DEF Begin, Failure, Outcome
<1> QED  BY <1>1, <1>2

(* COMMIT and ROLLBACK succeed inside of one, and end it. *)
LEMMA WholeOutcome ==
    ASSUME NEW s \in Seq(Level), NEW o \in {Commit(s), Rollback(s)}
    PROVE  /\ (o.ok <=> s # <<>>) /\ o.ok \in BOOLEAN /\ o.levels = <<>>
           /\ o = Commit(s) => o.saved = AllWrites(s)
           /\ o.saved \subseteq AllWrites(s)
           /\ o = Rollback(s) /\ o # Commit(s) => o.saved = {}
<1>1. Commit(s).ok \in BOOLEAN /\ (Commit(s).ok <=> s # <<>>) /\ Commit(s).levels = <<>> /\ Commit(s).saved = AllWrites(s)
  BY NoLevels DEF Commit, Failure, Outcome
<1>2. Rollback(s).ok \in BOOLEAN /\ (Rollback(s).ok <=> s # <<>>) /\ Rollback(s).levels = <<>> /\ Rollback(s).saved = {}
  BY DEF Rollback, Failure, Outcome
<1> QED  BY <1>1, <1>2

(* The savepoint of the level on top is found there. *)
LEMMA PositionOfTop ==
    ASSUME NEW s \in Seq(Level), NEW name, s # <<>>, s[Len(s)].name = name
    PROVE  Position(s, name) = Len(s) /\ Len(s) \in 1..Len(s)
<1> DEFINE P(i) == /\ s[i].name = name
                   /\ \A j \in DOMAIN s : j > i => s[j].name # name
<1>1. DOMAIN s = 1..Len(s) /\ Len(s) \in Nat \ {0}  BY EmptySeq, LenProperties
<1>2. Len(s) \in DOMAIN s /\ P(Len(s))  BY <1>1
<1>3. \A i \in DOMAIN s : P(i) => i = Len(s)  BY <1>1
<1> HIDE DEF P
<1>4. (CHOOSE i \in DOMAIN s : P(i)) = Len(s)  BY <1>2, <1>3
<1>5. \E i \in DOMAIN s : s[i].name = name  BY <1>2
<1>6. Position(s, name) = CHOOSE i \in DOMAIN s : P(i)  BY <1>5 DEF Position, P
<1> QED  BY <1>1, <1>2, <1>4, <1>6

(* A write is durable at once outside of a transaction, and held back by the
   top level inside of one. *)
LEMMA UpdateOutcome ==
    ASSUME NEW s \in Seq(Level), NEW name \in Names
    PROVE  LET o == Update(s, name)
           IN  /\ o.ok /\ o.levels \in Seq(Level) /\ Len(o.levels) = Len(s)
               /\ s = <<>> => o.levels = <<>> /\ o.saved = {name}
               /\ s # <<>> =>
                     /\ o.levels # <<>> /\ o.saved = {}
                     /\ o.levels[Len(s)].name = s[Len(s)].name
                     /\ name \in o.levels[Len(s)].writes /\ name \in AllWrites(o.levels)
                     /\ \A i \in 1..Len(s) : i # Len(s) => o.levels[i] = s[i]
               /\ AllWrites(o.levels) \subseteq AllWrites(s) \cup {name}
<1>1. CASE s = <<>>  BY <1>1, NoLevels DEF Update, Outcome
<1>2. CASE s # <<>>
  <2> DEFINE l == [s EXCEPT ![Len(s)].writes = @ \cup {name}]
  <2>1. Len(s) \in 1..Len(s) /\ Len(s) \in Nat
    <3>1. Len(s) \in Nat \ {0}  BY <1>2, EmptySeq
    <3> QED  BY <3>1
  <2>2. /\ l \in Seq(Level) /\ Len(l) = Len(s)
        /\ \A i \in 1..Len(s) : i # Len(s) => l[i] = s[i]
        /\ l[Len(s)].writes = s[Len(s)].writes \cup {name} /\ l[Len(s)].name = s[Len(s)].name
    <3>1. l = Widen(s, Len(s), {name}) /\ {name} \in SUBSET Names  BY DEF Widen
    <3> HIDE DEF l
    <3> QED  BY ONLY <2>1, <3>1, s \in Seq(Level), Widened
  <2>3. Update(s, name) = Outcome(TRUE, l, {}, {})  BY <1>2 DEF Update
  <2> HIDE DEF l
  <2>4. l # <<>>  BY <2>1, <2>2, EmptySeq
  <2>5. name \in AllWrites(l)  BY <2>1, <2>2, WritesOf
  <2>6. ASSUME NEW x \in AllWrites(l), x # name PROVE x \in AllWrites(s)
    <3>1. PICK i \in 1..Len(s) : x \in l[i].writes  BY <2>2, <2>6, WritesOf
    <3>2. x \in s[i].writes  BY <2>2, <2>6, <3>1
    <3> QED  BY <3>2, WritesOf
  <2> QED  BY <1>2, <2>2, <2>3, <2>4, <2>5, <2>6 DEF Outcome
<1> QED  BY <1>1, <1>2

(* Releasing the savepoint on top makes what is held durable if it is the only
   level, and keeps it held if not. *)
LEMMA ReleaseOutcome ==
    ASSUME NEW s \in Seq(Level), NEW name, s # <<>>, s[Len(s)].name = name
    PROVE  LET o == ReleaseSavePoint(s, name)
           IN  /\ o.ok /\ o.levels \in Seq(Level)
               /\ Len(s) = 1 => o.levels = <<>> /\ o.saved = AllWrites(s)
               /\ Len(s) # 1 => o.saved = {} /\ AllWrites(o.levels) \subseteq AllWrites(s)
<1> DEFINE p == Len(s)
           merged == AllWrites(SubSeq(s, p, Len(s)))
           low == SubSeq(s, 1, p - 1)
<1>1. Position(s, name) = p /\ p \in 1..Len(s) /\ p \in Nat
  BY PositionOfTop
<1>2. merged \subseteq AllWrites(s) /\ (p = 1 => merged = AllWrites(s))
  BY <1>1, Raised
<1>3. low \in Seq(Level) /\ Len(low) = p - 1 /\ \A i \in 1..(p - 1) : low[i] = s[i]
  BY <1>1, Lowered
<1>4. \A x \in AllWrites(s) : x \in Names
  <2> SUFFICES ASSUME NEW x \in AllWrites(s) PROVE x \in Names  OBVIOUS
  <2>1. PICK i \in 1..Len(s) : x \in s[i].writes  BY WritesOf
  <2>2. s[i] \in Level  BY ElementOfSeq
  <2> QED  BY <2>1, <2>2 DEF Level
<1> HIDE DEF merged, low
<1>5. CASE p = 1
  <2>1. ReleaseSavePoint(s, name) = Outcome(TRUE, <<>>, merged, {})
    BY <1>1, <1>5 DEF ReleaseSavePoint, merged
  <2> QED  BY <1>2, <1>5, <2>1, NoLevels DEF Outcome
<1>6. CASE p # 1
  <2> DEFINE l == [low EXCEPT ![p - 1].writes = @ \cup merged]
  <2>1. p - 1 \in 1..Len(low) /\ p > 1 /\ p # 0  BY <1>1, <1>3, <1>6
  <2>2. merged \in SUBSET Names  BY <1>2, <1>4
  <2>3. /\ l \in Seq(Level) /\ Len(l) = Len(low)
        /\ \A i \in 1..Len(low) : i # p - 1 => l[i] = low[i]
        /\ l[p - 1].writes = low[p - 1].writes \cup merged
    <3>1. l = Widen(low, p - 1, merged)  BY DEF Widen
    <3> HIDE DEF l
    <3> QED  BY ONLY <1>3, <2>1, <2>2, <3>1, Widened
  <2>4. ReleaseSavePoint(s, name) = Outcome(TRUE, l, {}, {})
    BY <1>1, <2>1, <1>6 DEF ReleaseSavePoint, merged, low
  <2> HIDE DEF l
  <2>5. ASSUME NEW x \in AllWrites(l) PROVE x \in AllWrites(s)
    <3>1. PICK i \in 1..Len(l) : x \in l[i].writes  BY <2>3, <2>5, WritesOf
    <3>2. i \in 1..Len(s) /\ i \in 1..(p - 1)  BY <1>1, <1>3, <2>3, <3>1
    <3>3. x \in s[i].writes \/ x \in merged  BY <1>3, <2>3, <3>1, <3>2
    <3> QED  BY <1>2, <3>2, <3>3, WritesOf
  <2> QED  BY <1>6, <2>3, <2>4, <2>5 DEF Outcome
<1> QED  BY <1>5, <1>6

(* Rolling back to it undoes what its level held, and keeps the level. *)
LEMMA RollbackToOutcome ==
    ASSUME NEW s \in Seq(Level), NEW name \in Names, s # <<>>, s[Len(s)].name = name
    PROVE  LET o == RollbackToSavePoint(s, name)
           IN  /\ o.ok /\ o.levels \in Seq(Level) /\ o.saved = {}
               /\ AllWrites(o.levels) \subseteq AllWrites(s)
               /\ \A x : (\A i \in 1..(Len(s) - 1) : x \notin s[i].writes)
                             => x \notin AllWrites(o.levels)
<1> DEFINE p == Len(s)
           low == SubSeq(s, 1, p - 1)
           l == Append(low, Open(name))
           undone == AllWrites(SubSeq(s, p, Len(s)))
<1>1. Position(s, name) = p /\ p \in 1..Len(s) /\ p \in Nat /\ p # 0
  BY PositionOfTop
<1>2. low \in Seq(Level) /\ Len(low) = p - 1 /\ \A i \in 1..(p - 1) : low[i] = s[i]
  BY <1>1, Lowered
<1>3. RollbackToSavePoint(s, name) = Outcome(TRUE, l, {}, undone)
  BY <1>1 DEF RollbackToSavePoint
<1> HIDE DEF low, undone
<1>4. l \in Seq(Level) /\ AllWrites(l) = AllWrites(low)  BY <1>2, Deepened
<1>5. ASSUME NEW x \in AllWrites(low) PROVE \E i \in 1..(p - 1) : x \in s[i].writes
  <2>1. PICK i \in 1..Len(low) : x \in low[i].writes  BY <1>2, <1>5, WritesOf
  <2> QED  BY <1>2, <2>1
<1>6. ASSUME NEW x \in AllWrites(low) PROVE x \in AllWrites(s)
  <2>1. PICK i \in 1..(p - 1) : x \in s[i].writes  BY <1>5, <1>6
  <2>2. i \in 1..Len(s)  BY <1>1, <2>1
  <2> QED  BY <2>1, <2>2, WritesOf
<1> HIDE DEF l
<1> QED  BY <1>3, <1>4, <1>5, <1>6 DEF Outcome
=============================================================================
