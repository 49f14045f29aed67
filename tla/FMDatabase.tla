----------------------------- MODULE FMDatabase -----------------------------
(***************************************************************************)
(* The transaction methods of Common/FMDB/FMDatabase.m, as operators on    *)
(* what one connection holds back: its transaction stack, outermost level  *)
(* first.  Each level is opened by BEGIN or by SAVEPOINT and holds the     *)
(* writes made in it; a connection with no level is in autocommit mode.    *)
(* What SQLite does with a statement is external; which statements a       *)
(* method executes, and when it reports success, is FMDatabase.m.          *)
(***************************************************************************)
EXTENDS Integers, Sequences

CONSTANTS
    Names,      \* whoever opens levels and writes: a transaction's identity,
                \* a savepoint's name and the row it writes
    Whole       \* the name of a level opened by BEGIN

ASSUME DatabaseAssumption == Whole \notin Names

Level == [name : Names \cup {Whole}, writes : SUBSET Names]

(* What a method did: whether it reported success, the stack it leaves, the
   writes it made durable and the writes it undid. *)
Outcome(ok, levels, saved, undone) ==
    [ok |-> ok, levels |-> levels, saved |-> saved, undone |-> undone]

Failure(levels) == Outcome(FALSE, levels, {}, {})

AllWrites(levels) == UNION {levels[i].writes : i \in DOMAIN levels}

Open(name) == [name |-> name, writes |-> {}]

Position(levels, name) ==
    IF \E i \in DOMAIN levels : levels[i].name = name
    THEN CHOOSE i \in DOMAIN levels :
             /\ levels[i].name = name
             /\ \A j \in DOMAIN levels : j > i => levels[j].name # name
    ELSE 0

-----------------------------------------------------------------------------
(* beginTransaction and beginDeferredTransaction: SQLite has no BEGIN inside
   a transaction. *)
Begin(levels) ==
    IF levels = <<>> THEN Outcome(TRUE, <<Open(Whole)>>, {}, {}) ELSE Failure(levels)

(* commit ends every level, however it was opened. *)
Commit(levels) ==
    IF levels # <<>> THEN Outcome(TRUE, <<>>, AllWrites(levels), {}) ELSE Failure(levels)

Rollback(levels) ==
    IF levels # <<>> THEN Outcome(TRUE, <<>>, {}, AllWrites(levels)) ELSE Failure(levels)

StartSavePoint(levels, name) == Outcome(TRUE, Append(levels, Open(name)), {}, {})

(* releaseSavePointWithName: the level and those above it merge into the one
   below, and commit if there is none. *)
ReleaseSavePoint(levels, name) ==
    LET p == Position(levels, name)
        merged == AllWrites(SubSeq(levels, p, Len(levels)))
    IN  CASE p = 0 -> Failure(levels)
          [] p = 1 -> Outcome(TRUE, <<>>, merged, {})
          [] p > 1 -> Outcome(TRUE,
                              [SubSeq(levels, 1, p - 1) EXCEPT ![p - 1].writes = @ \cup merged],
                              {}, {})

(* rollbackToSavePointWithName: undoes what was written since the savepoint
   and keeps the savepoint. *)
RollbackToSavePoint(levels, name) ==
    LET p == Position(levels, name)
    IN  IF p = 0 THEN Failure(levels)
        ELSE Outcome(TRUE, Append(SubSeq(levels, 1, p - 1), Open(name)), {},
                     AllWrites(SubSeq(levels, p, Len(levels))))

(* executeUpdate of a statement that writes. *)
Update(levels, name) ==
    IF levels = <<>> THEN Outcome(TRUE, <<>>, {name}, {})
    ELSE Outcome(TRUE, [levels EXCEPT ![Len(levels)].writes = @ \cup {name}], {}, {})
=============================================================================
