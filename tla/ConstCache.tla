------------------------------ MODULE ConstCache ------------------------------
(***************************************************************************)
(* ConstCache (Common/Utility/ConstCache.m): caches that make the object   *)
(* of a key when it is asked for first, each with a lock that is not       *)
(* recursive.  The block that makes objects runs with the lock held, and   *)
(* may use caches itself.                                                  *)
(***************************************************************************)
EXTENDS Naturals, Sequences, FiniteSets

CONSTANTS
    Threads,
    Caches,
    Keys,
    Objects,    \* identities for objects
    Factories,  \* which caches the blocks may use, in each system considered
    None

ASSUME CacheAssumption ==
    /\ Factories \subseteq [Caches -> SUBSET Caches]
    /\ None \notin Threads \cup Objects

VARIABLES
    uses,       \* the caches that the block of each cache may use
    cache,      \* _cache: the object of each key, or None
    holder,     \* _cacheLock: the thread that has it, or None
    stack,      \* the calls in progress on each thread, the innermost last
    given,      \* objects returned for a key since it was last removed
    news        \* calls told isNew since then

vars == <<uses, cache, holder, stack, given, news>>

Ops == {"get", "find", "contains", "remove", "clear"}

Call == [op : Ops, cache : Caches, key : Keys, at : {"lock", "locked", "block"}]

Init ==
    /\ uses \in Factories
    /\ cache = [c \in Caches |-> [k \in Keys |-> None]]
    /\ holder = [c \in Caches |-> None]
    /\ stack = [t \in Threads |-> <<>>]
    /\ given = [c \in Caches |-> [k \in Keys |-> {}]]
    /\ news = [c \in Caches |-> [k \in Keys |-> 0]]

-----------------------------------------------------------------------------
Top(t) == stack[t][Len(stack[t])]

At(t, place) == stack[t] # <<>> /\ Top(t).at = place

Moved(t, place) == [stack EXCEPT ![t][Len(stack[t])].at = place]

(* objectForKey, objectForKey:autoCreate:NO, contains, remove or clear. *)
Begin(t, op, c, k) ==
    /\ stack' = [stack EXCEPT ![t] = Append(@, [op |-> op, cache |-> c, key |-> k, at |-> "lock"])]
    /\ UNCHANGED <<uses, cache, holder, given, news>>

(* Mutant of Lock: the cache is used without its lock. *)
LockNothing(t) ==
    /\ At(t, "lock")
    /\ holder' = [holder EXCEPT ![Top(t).cache] = t]
    /\ stack' = Moved(t, "locked")
    /\ UNCHANGED <<uses, cache, given, news>>

(* A thread that has the lock already waits for itself. *)
Lock(t) ==
    /\ At(t, "lock") /\ holder[Top(t).cache] = None
    /\ holder' = [holder EXCEPT ![Top(t).cache] = t]
    /\ stack' = Moved(t, "locked")
    /\ UNCHANGED <<uses, cache, given, news>>

Pop(t) == stack' = [stack EXCEPT ![t] = SubSeq(@, 1, Len(@) - 1)]

(* Mutant of Return: a call that returns early keeps the lock. *)
ReturnEarly(t) == Pop(t) /\ UNCHANGED holder

(* A call ends with an unlock, unless it raises: a nil key, or a block that
   raises, would leave the lock held, and neither is a client's here. *)
Return(t) == Pop(t) /\ holder' = [holder EXCEPT ![Top(t).cache] = None]

(* The caller gets obj, and is told whether it is new. *)
Give(c, k, obj, isNew) ==
    /\ given' = [given EXCEPT ![c][k] = @ \cup {obj}]
    /\ news' = [news EXCEPT ![c][k] = @ + (IF isNew THEN 1 ELSE 0)]

(* The object is there, or there is none and none is to be made. *)
Find(t) ==
    LET c == Top(t).cache
        k == Top(t).key
    IN  /\ At(t, "locked") /\ Top(t).op \in {"get", "find"}
        /\ \/ cache[c][k] # None /\ Give(c, k, cache[c][k], FALSE)
           \/ cache[c][k] = None /\ Top(t).op = "find" /\ UNCHANGED <<given, news>>
        /\ Return(t)
        /\ UNCHANGED <<uses, cache>>

(* _ccNewObject is called. *)
EnterBlock(t) ==
    /\ At(t, "locked") /\ Top(t).op = "get" /\ cache[Top(t).cache][Top(t).key] = None
    /\ stack' = Moved(t, "block")
    /\ UNCHANGED <<uses, cache, holder, given, news>>

(* The block calls a cache. *)
UseCache(t, op, c, k) ==
    /\ At(t, "block") /\ c \in uses[Top(t).cache]
    /\ Begin(t, op, c, k)

(* The block returns a new object. *)
Create(t, obj) ==
    LET c == Top(t).cache
        k == Top(t).key
    IN  /\ At(t, "block") /\ obj \notin given[c][k]
        /\ cache' = [cache EXCEPT ![c][k] = obj]
        /\ Give(c, k, obj, TRUE)
        /\ Return(t)
        /\ UNCHANGED uses

Forget(c, keys) ==
    /\ cache' = [cache EXCEPT ![c] = [k \in Keys |-> IF k \in keys THEN None ELSE @[k]]]
    /\ given' = [given EXCEPT ![c] = [k \in Keys |-> IF k \in keys THEN {} ELSE @[k]]]
    /\ news' = [news EXCEPT ![c] = [k \in Keys |-> IF k \in keys THEN 0 ELSE @[k]]]

Contains(t) ==
    /\ At(t, "locked") /\ Top(t).op = "contains"
    /\ Return(t)
    /\ UNCHANGED <<uses, cache, given, news>>

Remove(t) ==
    /\ At(t, "locked") /\ Top(t).op = "remove"
    /\ Forget(Top(t).cache, {Top(t).key})
    /\ Return(t)
    /\ UNCHANGED uses

Clear(t) ==
    /\ At(t, "locked") /\ Top(t).op = "clear"
    /\ Forget(Top(t).cache, Keys)
    /\ Return(t)
    /\ UNCHANGED uses

Next ==
    \E t \in Threads :
        \/ \E op \in Ops, c \in Caches, k \in Keys :
               \/ stack[t] = <<>> /\ Begin(t, op, c, k)
               \/ UseCache(t, op, c, k)
        \/ Lock(t) \/ Find(t) \/ EnterBlock(t)
        \/ \E obj \in Objects : Create(t, obj)
        \/ Contains(t) \/ Remove(t) \/ Clear(t)

Spec == Init /\ [][Next]_vars

-----------------------------------------------------------------------------
Frames(t) == 1..Len(stack[t])

Types ==
    /\ uses \in [Caches -> SUBSET Caches]
    /\ cache \in [Caches -> [Keys -> Objects \cup {None}]]
    /\ holder \in [Caches -> Threads \cup {None}]
    /\ stack \in [Threads -> Seq(Call)]
    /\ given \in [Caches -> [Keys -> SUBSET Objects]]
    /\ news \in [Caches -> [Keys -> Nat]]

LocksHeld ==
    \A t \in Threads : \A i \in Frames(t) :
        stack[t][i].at # "lock" => holder[stack[t][i].cache] = t

HeldByCalls ==
    \A c \in Caches, t \in Threads : holder[c] = t =>
        \E i \in Frames(t) : stack[t][i].cache = c /\ stack[t][i].at # "lock"

Nested ==
    \A t \in Threads : \A i \in Frames(t) : i < Len(stack[t]) =>
        stack[t][i].at = "block" /\ stack[t][i + 1].cache \in uses[stack[t][i].cache]

(* The types: a thread has the locks of the calls it is in, but of the one it
   is waiting for, and no others; a call inside another is a block's, of a cache
   the block may use. *)
TypeOK == Types /\ LocksHeld /\ HeldByCalls /\ Nested

(* However calls interleave, everyone who gets a key gets the one object that is
   in the cache, and one of them is told it is new, until the key is removed or
   the cache cleared: not before that do two objects exist for a key. *)
OneObject ==
    \A c \in Caches, k \in Keys :
        /\ given[c][k] = IF cache[c][k] = None THEN {} ELSE {cache[c][k]}
        /\ news[c][k] = IF cache[c][k] = None THEN 0 ELSE 1

(* The thread that has what a thread is waiting for. *)
WaitsFor(t, u) == At(t, "lock") /\ holder[Top(t).cache] = u

IsRank(rank) == \A c \in Caches : \A d \in uses[c] : rank[d] < rank[c]

(* Blocks use only caches of a lower rank: no cache is used by its own block,
   directly or through others. *)
Ranked == \E rank \in [Caches -> 1..Cardinality(Caches)] : IsRank(rank)

(* If no cache is used by its own block, directly or through others, then the
   locks held while blocks run never make threads wait for one another, or one
   for itself, for ever. *)
NoCircularWait ==
    Ranked => ~ \E S \in SUBSET Threads :
                    S # {} /\ \A t \in S : \E u \in S : WaitsFor(t, u)
=============================================================================
