-------------------------- MODULE ConstCache_proofs --------------------------
(***************************************************************************)
(* Theorems about the caches.  What a call relies on while it is in        *)
(* progress - its lock is its own, and the object its block is to make is  *)
(* not there yet - is proved together with the types and with OneObject;   *)
(* the calls of a thread are on caches of falling rank, so that of threads *)
(* waiting for one another the one waiting for the lowest cache has none.  *)
(***************************************************************************)
EXTENDS ConstCache, Integers, SequenceTheorems, WellFoundedInduction, TLAPS

(* No thread is twice in a cache past its lock. *)
Once ==
    \A t \in Threads : \A i, j \in Frames(t) :
        /\ stack[t][i].cache = stack[t][j].cache
        /\ stack[t][i].at # "lock" /\ stack[t][j].at # "lock"
        => i = j

(* A block makes an object that does not exist. *)
BlockMakesNew ==
    \A t \in Threads : \A i \in Frames(t) :
        stack[t][i].at = "block" => cache[stack[t][i].cache][stack[t][i].key] = None

(* The calls of a thread are on caches of falling rank. *)
Falling ==
    \A rank \in [Caches -> Nat] : IsRank(rank) =>
        \A t \in Threads : \A i, j \in Frames(t) :
            i < j => rank[stack[t][j].cache] < rank[stack[t][i].cache]

StackInv == TypeOK /\ Once /\ BlockMakesNew /\ Falling

IInv == StackInv /\ OneObject

-----------------------------------------------------------------------------
(* What pushing, moving and popping do to a stack of calls. *)

(* Sequences as functions. *)
LEMMA SeqFacts ==
    ASSUME NEW S, NEW s \in Seq(S)
    PROVE  /\ Len(s) \in Nat /\ DOMAIN s = 1..Len(s) /\ s \in [1..Len(s) -> S]
           /\ \A i \in 1..Len(s) : s[i] \in S
           /\ s # <<>> => Len(s) \in 1..Len(s)
           /\ s = <<>> <=> Len(s) = 0
BY LenProperties, ElementOfSeq, EmptySeq

(* A stack with one more call. *)
LEMMA PushFacts ==
    ASSUME NEW s \in Seq(Call), NEW f \in Call
    PROVE  /\ Append(s, f) \in Seq(Call) /\ Len(Append(s, f)) = Len(s) + 1
           /\ \A i \in 1..Len(s) : Append(s, f)[i] = s[i]
           /\ Append(s, f)[Len(s) + 1] = f
BY AppendProperties

(* The first elements of a sequence. *)
LEMMA PrefixFacts ==
    ASSUME NEW S, NEW s \in Seq(S), NEW n \in 0..Len(s)
    PROVE  /\ SubSeq(s, 1, n) \in Seq(S)
           /\ Len(SubSeq(s, 1, n)) = n
           /\ \A i \in 1..n : SubSeq(s, 1, n)[i] = s[i]
<1>1. Len(s) \in Nat /\ \A i \in 1..n : s[i] \in S  BY SeqFacts
<1>2. SubSeq(s, 1, n) \in Seq(S) /\ Len(SubSeq(s, 1, n)) = (IF 1 <= n THEN n - 1 + 1 ELSE 0)
  BY <1>1, SubSeqProperties
<1>3. \A i \in 1..(n - 1 + 1) : SubSeq(s, 1, n)[i] = s[1 + i - 1]
  BY <1>1, SubSeqProperties
<1> QED  BY <1>1, <1>2, <1>3

(* A stack without its last call. *)
LEMMA PopFacts ==
    ASSUME NEW s \in Seq(Call), s # <<>>
    PROVE  /\ SubSeq(s, 1, Len(s) - 1) \in Seq(Call)
           /\ Len(SubSeq(s, 1, Len(s) - 1)) = Len(s) - 1
           /\ \A i \in 1..(Len(s) - 1) : SubSeq(s, 1, Len(s) - 1)[i] = s[i]
<1>1. Len(s) - 1 \in 0..Len(s)  BY SeqFacts
<1> QED  BY <1>1, PrefixFacts

Placed(s, place) == [s EXCEPT ![Len(s)].at = place]

(* A stack whose last call has moved on. *)
LEMMA PlaceFacts ==
    ASSUME NEW s \in Seq(Call), s # <<>>, NEW place \in {"lock", "locked", "block"}
    PROVE  /\ Placed(s, place) \in Seq(Call) /\ Len(Placed(s, place)) = Len(s)
           /\ \A i \in 1..Len(s) : /\ Placed(s, place)[i].cache = s[i].cache
                                   /\ Placed(s, place)[i].key = s[i].key
                                   /\ Placed(s, place)[i].at = IF i = Len(s) THEN place ELSE s[i].at
<1>1. Len(s) \in 1..Len(s) /\ DOMAIN s = 1..Len(s) /\ \A i \in 1..Len(s) : s[i] \in Call
  BY SeqFacts
<1> DEFINE f == [s[Len(s)] EXCEPT !.at = place]
<1>2. f \in Call /\ f.cache = s[Len(s)].cache /\ f.key = s[Len(s)].key /\ f.at = place
  BY <1>1 DEF Call
<1> HIDE DEF f
<1>3. Placed(s, place) = [s EXCEPT ![Len(s)] = f]  BY DEF Placed, f
<1>4. [s EXCEPT ![Len(s)] = f] \in Seq(Call) /\ Len([s EXCEPT ![Len(s)] = f]) = Len(s)
  BY <1>1, <1>2, ExceptSeq
<1>5. \A i \in 1..Len(s) : Placed(s, place)[i] = IF i = Len(s) THEN f ELSE s[i]
  BY <1>1, <1>3
<1> QED  BY <1>2, <1>3, <1>4, <1>5

-----------------------------------------------------------------------------
(* A call begins: its frame waits for a lock. *)
LEMMA PushKeeps ==
    ASSUME Types, LocksHeld, HeldByCalls, Nested, Once, BlockMakesNew, Falling,
           NEW t \in Threads, NEW f \in Call, f.at = "lock",
           stack' = [stack EXCEPT ![t] = Append(@, f)],
           UNCHANGED <<uses, cache, holder, given, news>>,
           stack[t] # <<>> => Top(t).at = "block" /\ f.cache \in uses[Top(t).cache]
    PROVE  StackInv'
<1> DEFINE n == Len(stack[t])  s == Append(stack[t], f)
<1>1. stack[t] \in Seq(Call) /\ n \in Nat /\ (n > 0 => stack[t] # <<>>)  BY SeqFacts DEF Types
<1>2. /\ s \in Seq(Call) /\ Len(s) = n + 1 /\ s[n + 1] = f
      /\ \A i \in 1..n : s[i] = stack[t][i]
  BY <1>1, PushFacts
<1>3. stack'[t] = s /\ \A u \in Threads \ {t} : stack'[u] = stack[u]  BY DEF Types
<1> HIDE DEF n, s
<1>4. /\ Frames(t)' = 1..(n + 1) /\ Frames(t) = 1..n /\ Len(stack[t]) = n
      /\ Len(stack'[t]) = n + 1
  BY <1>2, <1>3 DEF Frames, n
<1>5. /\ stack'[t][n + 1] = f
      /\ \A i \in 1..n : stack'[t][i] = stack[t][i]
  BY <1>2, <1>3
<1>6. \A u \in Threads \ {t} : Frames(u)' = Frames(u) /\ Len(stack'[u]) = Len(stack[u])
  BY <1>3 DEF Frames
<1>7. Types'
  <2>1. stack' \in [Threads -> Seq(Call)]  BY <1>2, <1>3 DEF Types
  <2> QED  BY <2>1 DEF Types
<1>8. LocksHeld'
  <2> SUFFICES ASSUME NEW u \in Threads, NEW i \in Frames(u)', stack'[u][i].at # "lock"
               PROVE  holder[stack'[u][i].cache] = u
    BY DEF LocksHeld
  <2>1. CASE u = t
    <3>1. i # n + 1 /\ i \in 1..n  BY <2>1, <1>1, <1>4, <1>5
    <3>2. stack'[t][i] = stack[t][i] /\ i \in Frames(t)  BY <3>1, <1>4, <1>5
    <3> QED  BY <2>1, <3>2 DEF LocksHeld
  <2>2. CASE u # t  BY <2>2, <1>3, <1>6 DEF LocksHeld
  <2> QED  BY <2>1, <2>2
<1>9. HeldByCalls'
  <2> SUFFICES ASSUME NEW c \in Caches, NEW u \in Threads, holder[c] = u
               PROVE  \E i \in Frames(u)' : stack'[u][i].cache = c /\ stack'[u][i].at # "lock"
    BY DEF HeldByCalls
  <2>1. PICK i \in Frames(u) : stack[u][i].cache = c /\ stack[u][i].at # "lock"
    BY DEF HeldByCalls
  <2>2. CASE u = t
    <3>1. i \in 1..n /\ i \in 1..(n + 1)  BY <2>2, <1>1, <1>4
    <3> QED  BY <2>1, <2>2, <3>1, <1>4, <1>5
  <2>3. CASE u # t  BY <2>1, <2>3, <1>3, <1>6
  <2> QED  BY <2>2, <2>3
<1>10. Nested'
  <2> SUFFICES ASSUME NEW u \in Threads, NEW i \in Frames(u)', i < Len(stack'[u])
               PROVE  /\ stack'[u][i].at = "block"
                      /\ stack'[u][i + 1].cache \in uses[stack'[u][i].cache]
    BY DEF Nested
  <2>1. CASE u = t /\ i = n
    <3>1. n > 0 /\ n \in 1..n /\ Top(t) = stack[t][n]  BY <2>1, <1>1, <1>4 DEF Top
    <3> QED  BY <2>1, <3>1, <1>1, <1>5
  <2>2. CASE u = t /\ i # n
    <3>1. i \in 1..n /\ i + 1 \in 1..n /\ i < n  BY <2>2, <1>1, <1>4
    <3> QED  BY <2>2, <3>1, <1>4, <1>5 DEF Nested
  <2>3. CASE u # t  BY <2>3, <1>3, <1>6 DEF Nested
  <2> QED  BY <2>1, <2>2, <2>3
<1>11. Once'
  <2> SUFFICES ASSUME NEW u \in Threads, NEW i \in Frames(u)', NEW j \in Frames(u)',
                      stack'[u][i].cache = stack'[u][j].cache,
                      stack'[u][i].at # "lock", stack'[u][j].at # "lock"
               PROVE  i = j
    BY DEF Once
  <2>1. CASE u = t
    <3>1. i \in 1..n /\ j \in 1..n  BY <2>1, <1>1, <1>4, <1>5
    <3> QED  BY <2>1, <3>1, <1>4, <1>5 DEF Once
  <2>2. CASE u # t  BY <2>2, <1>3, <1>6 DEF Once
  <2> QED  BY <2>1, <2>2
<1>12. BlockMakesNew'
  <2> SUFFICES ASSUME NEW u \in Threads, NEW i \in Frames(u)', stack'[u][i].at = "block"
               PROVE  cache[stack'[u][i].cache][stack'[u][i].key] = None
    BY DEF BlockMakesNew
  <2>1. CASE u = t
    <3>1. i \in 1..n  BY <2>1, <1>1, <1>4, <1>5
    <3>2. stack'[t][i] = stack[t][i] /\ i \in Frames(t)  BY <3>1, <1>4, <1>5
    <3> QED  BY <2>1, <3>2 DEF BlockMakesNew
  <2>2. CASE u # t  BY <2>2, <1>3, <1>6 DEF BlockMakesNew
  <2> QED  BY <2>1, <2>2
<1>13. Falling'
  <2> SUFFICES ASSUME NEW rank \in [Caches -> Nat], IsRank(rank),
                      NEW u \in Threads, NEW i \in Frames(u)', NEW j \in Frames(u)', i < j
               PROVE  rank[stack'[u][j].cache] < rank[stack'[u][i].cache]
    BY DEF Falling, IsRank
  <2>1. CASE u = t /\ j = n + 1
    <3>1. i \in 1..n /\ n \in 1..n /\ n > 0 /\ Top(t) = stack[t][n]
      BY <2>1, <1>1, <1>4 DEF Top
    <3>2. stack[t][i] \in Call /\ stack[t][n] \in Call  BY <3>1, <1>1, <1>4, SeqFacts
    <3>3. rank[f.cache] < rank[stack[t][n].cache]
      <4>1. stack[t][n].cache \in Caches /\ f.cache \in uses[stack[t][n].cache]
        BY <3>1, <3>2, <1>1 DEF Call
      <4> QED  BY <4>1 DEF IsRank
    <3>4. i = n \/ rank[stack[t][n].cache] < rank[stack[t][i].cache]
      <4>1. i = n \/ i < n  BY <3>1, <1>1
      <4>2. i \in Frames(t) /\ n \in Frames(t)  BY <3>1, <1>4
      <4> QED  BY <4>1, <4>2 DEF Falling
    <3>5. /\ rank[f.cache] \in Nat /\ rank[stack[t][n].cache] \in Nat
          /\ rank[stack[t][i].cache] \in Nat
      BY <3>2 DEF Call
    <3>6. stack'[t][j] = f /\ stack'[t][i] = stack[t][i]  BY <2>1, <3>1, <1>5
    <3>7. rank[f.cache] < rank[stack[t][i].cache]  BY <3>3, <3>4, <3>5
    <3> QED  BY <2>1, <3>6, <3>7
  <2>2. CASE u = t /\ j # n + 1
    <3>1. i \in 1..n /\ j \in 1..n  BY <2>2, <1>1, <1>4
    <3> QED  BY <2>2, <3>1, <1>4, <1>5 DEF Falling
  <2>3. CASE u # t  BY <2>3, <1>3, <1>6 DEF Falling
  <2> QED  BY <2>1, <2>2, <2>3
<1> QED  BY <1>7, <1>8, <1>9, <1>10, <1>11, <1>12, <1>13 DEF StackInv, TypeOK

(* A call goes on: it gets its lock, or calls the block. *)
LEMMA PlaceKeeps ==
    ASSUME Types, LocksHeld, HeldByCalls, Nested, Once, BlockMakesNew, Falling,
           NEW t \in Threads, stack[t] # <<>>,
           NEW place \in {"locked", "block"}, stack' = Moved(t, place),
           UNCHANGED <<uses, cache, given, news>>,
           \/ Lock(t) /\ place = "locked"
           \/ EnterBlock(t) /\ place = "block"
    PROVE  StackInv'
<1> DEFINE n == Len(stack[t])  s == Placed(stack[t], place)  c == Top(t).cache
<1>1. stack[t] \in Seq(Call) /\ n \in Nat /\ n \in 1..n /\ Top(t) = stack[t][n] /\ c \in Caches
  <2>1. stack[t] \in Seq(Call)  BY DEF Types
  <2>2. n \in Nat /\ n \in 1..n /\ stack[t][n] \in Call  BY <2>1, SeqFacts
  <2> QED  BY <2>1, <2>2 DEF Top, Call
<1>2. /\ s \in Seq(Call) /\ Len(s) = n
      /\ \A i \in 1..n : /\ s[i].cache = stack[t][i].cache
                          /\ s[i].key = stack[t][i].key
                          /\ s[i].at = IF i = n THEN place ELSE stack[t][i].at
  BY <1>1, PlaceFacts
<1>3. stack'[t] = s /\ \A u \in Threads \ {t} : stack'[u] = stack[u]
  BY DEF Types, Moved, Placed
<1>4. \/ holder[c] = None /\ holder' = [holder EXCEPT ![c] = t] /\ place = "locked"
      \/ holder' = holder /\ stack[t][n].at = "locked"
         /\ cache[c][stack[t][n].key] = None /\ place = "block"
  BY <1>1 DEF Lock, EnterBlock, At
<1>5. stack' \in [Threads -> Seq(Call)]  BY <1>2 DEF Types, Moved, Placed
<1> HIDE DEF n, s, c
<1>6. /\ Frames(t)' = 1..n /\ Frames(t) = 1..n /\ Len(stack[t]) = n /\ Len(stack'[t]) = n
  BY <1>2, <1>3 DEF Frames, n
<1>7. \A i \in 1..n : /\ stack'[t][i].cache = stack[t][i].cache
                      /\ stack'[t][i].key = stack[t][i].key
                      /\ stack'[t][i].at = IF i = n THEN place ELSE stack[t][i].at
  BY <1>2, <1>3
<1>8. \A u \in Threads \ {t} : Frames(u)' = Frames(u) /\ Len(stack'[u]) = Len(stack[u])
  BY <1>3 DEF Frames
<1>9. stack[t][n].cache = c  BY <1>1 DEF c
<1>10. /\ holder'[c] = t
       /\ \A d \in Caches \ {c} : holder'[d] = holder[d]
       /\ holder' \in [Caches -> Threads \cup {None}]
  <2>1. n \in Frames(t)  BY <1>1, <1>6
  <2>2. stack[t][n].at = "locked" => holder[c] = t  BY <2>1, <1>9 DEF LocksHeld
  <2> QED  BY <1>1, <1>4, <2>2 DEF Types
<1>11. \A i \in 1..n : stack[t][i].cache \in Caches /\ stack[t][i].key \in Keys
  <2> SUFFICES ASSUME NEW i \in 1..n  PROVE stack[t][i] \in Call  BY DEF Call
  <2> QED  BY <1>1, <1>6, SeqFacts
<1>12. \A u \in Threads : \A i \in Frames(u) :
          stack[u][i].cache \in Caches /\ stack[u][i].key \in Keys
  <2> SUFFICES ASSUME NEW u \in Threads, NEW i \in Frames(u)  PROVE stack[u][i] \in Call  BY DEF Call
  <2>1. stack[u] \in Seq(Call)  BY DEF Types
  <2> QED  BY <2>1, SeqFacts DEF Frames
(* A cache whose lock is taken now was in no call past its lock. *)
<1>13. ASSUME NEW u \in Threads, NEW i \in Frames(u), stack[u][i].cache = c, stack[u][i].at # "lock"
       PROVE  holder[c] = u /\ u = t
  <2>1. holder[c] = u  BY <1>13 DEF LocksHeld
  <2>2. holder[c] # None  BY <2>1, CacheAssumption
  <2>3. holder'[c] = holder[c]  BY <2>2, <1>4
  <2> QED  BY <2>1, <2>3, <1>10
<1>14. Types'  BY <1>5, <1>10 DEF Types
<1>15. LocksHeld'
  <2> SUFFICES ASSUME NEW u \in Threads, NEW i \in Frames(u)', stack'[u][i].at # "lock"
               PROVE  holder'[stack'[u][i].cache] = u
    BY DEF LocksHeld
  <2>1. CASE u = t /\ i = n  BY <2>1, <1>1, <1>7, <1>9, <1>10
  <2>2. CASE u = t /\ i # n
    <3>1. i \in Frames(t) /\ i \in 1..n /\ stack[t][i].at # "lock"  BY <2>2, <1>6, <1>7
    <3>2. holder[stack[t][i].cache] = t  BY <3>1 DEF LocksHeld
    <3>3. holder'[stack[t][i].cache] = t  BY <3>1, <3>2, <1>10, <1>11
    <3> QED  BY <2>2, <3>1, <3>3, <1>7
  <2>3. CASE u # t
    <3>1. i \in Frames(u) /\ stack[u][i].at # "lock" /\ stack'[u][i] = stack[u][i]  BY <2>3, <1>3, <1>8
    <3>2. holder[stack[u][i].cache] = u  BY <3>1 DEF LocksHeld
    <3>3. stack[u][i].cache # c  BY <3>1, <2>3, <1>13
    <3> QED  BY <3>1, <3>2, <3>3, <1>10, <1>12
  <2> QED  BY <2>1, <2>2, <2>3
<1>16. HeldByCalls'
  <2> SUFFICES ASSUME NEW d \in Caches, NEW u \in Threads, holder'[d] = u
               PROVE  \E i \in Frames(u)' : stack'[u][i].cache = d /\ stack'[u][i].at # "lock"
    BY DEF HeldByCalls
  <2>1. CASE d = c
    <3>1. u = t  BY <2>1, <1>10
    <3>2. n \in Frames(t)' /\ stack'[t][n].cache = c /\ stack'[t][n].at = place  BY <1>1, <1>6, <1>7, <1>9
    <3> QED  BY <2>1, <3>1, <3>2
  <2>2. CASE d # c
    <3>1. holder[d] = u  BY <2>2, <1>10
    <3>2. PICK i \in Frames(u) : stack[u][i].cache = d /\ stack[u][i].at # "lock"
      BY <3>1 DEF HeldByCalls
    <3>3. CASE u = t
      <4>1. i \in 1..n /\ i \in Frames(t)' /\ i # n  BY <3>2, <3>3, <2>2, <1>6, <1>9
      <4> QED  BY <3>2, <3>3, <4>1, <1>7
    <3>4. CASE u # t  BY <3>2, <3>4, <1>3, <1>8
    <3> QED  BY <3>3, <3>4
  <2> QED  BY <2>1, <2>2
<1>17. Nested'
  <2> SUFFICES ASSUME NEW u \in Threads, NEW i \in Frames(u)', i < Len(stack'[u])
               PROVE  /\ stack'[u][i].at = "block"
                      /\ stack'[u][i + 1].cache \in uses[stack'[u][i].cache]
    BY DEF Nested
  <2>1. CASE u = t
    <3>1. i \in Frames(t) /\ i \in 1..n /\ i + 1 \in 1..n /\ i # n /\ i < Len(stack[t])  BY <2>1, <1>1, <1>6
    <3>2. stack[t][i].at = "block" /\ stack[t][i + 1].cache \in uses[stack[t][i].cache]
      BY <3>1 DEF Nested
    <3> QED  BY <2>1, <3>1, <3>2, <1>7
  <2>2. CASE u # t  BY <2>2, <1>3, <1>8 DEF Nested
  <2> QED  BY <2>1, <2>2
<1>18. Once'
  <2> SUFFICES ASSUME NEW u \in Threads, NEW i \in Frames(u)', NEW j \in Frames(u)',
                      stack'[u][i].cache = stack'[u][j].cache,
                      stack'[u][i].at # "lock", stack'[u][j].at # "lock"
               PROVE  i = j
    BY DEF Once
  <2>1. CASE u # t  BY <2>1, <1>3, <1>8 DEF Once
  <2>2. CASE u = t
    <3>1. /\ i \in 1..n /\ j \in 1..n /\ i \in Frames(t) /\ j \in Frames(t)
          /\ stack[t][i].cache = stack[t][j].cache
      BY <2>2, <1>6, <1>7
    <3>2. CASE place = "locked"
      <4>1. holder[c] = None  BY <3>2, <1>4
      <4>2. \A k \in Frames(t) : stack[t][k].at # "lock" => stack[t][k].cache # c
        BY <4>1, <1>13, CacheAssumption
      <4>3. CASE i # n /\ j # n
        <5>1. stack[t][i].at # "lock" /\ stack[t][j].at # "lock"  BY <2>2, <3>1, <4>3, <1>7
        <5> QED  BY <3>1, <5>1 DEF Once
      <4>4. CASE i = n /\ j # n
        <5>1. stack[t][j].at # "lock" /\ stack[t][j].cache = c  BY <2>2, <3>1, <4>4, <1>7, <1>9
        <5> QED  BY <3>1, <4>2, <5>1
      <4>5. CASE i # n /\ j = n
        <5>1. stack[t][i].at # "lock" /\ stack[t][i].cache = c  BY <2>2, <3>1, <4>5, <1>7, <1>9
        <5> QED  BY <3>1, <4>2, <5>1
      <4> QED  BY <4>3, <4>4, <4>5
    <3>3. CASE place = "block"
      <4>1. stack[t][n].at = "locked"  BY <3>3, <1>4
      <4>2. stack[t][i].at # "lock" /\ stack[t][j].at # "lock"  BY <2>2, <3>1, <4>1, <1>7
      <4> QED  BY <3>1, <4>2 DEF Once
    <3> QED  BY <3>2, <3>3
  <2> QED  BY <2>1, <2>2
<1>19. BlockMakesNew'
  <2> SUFFICES ASSUME NEW u \in Threads, NEW i \in Frames(u)', stack'[u][i].at = "block"
               PROVE  cache[stack'[u][i].cache][stack'[u][i].key] = None
    BY DEF BlockMakesNew
  <2>1. CASE u # t  BY <2>1, <1>3, <1>8 DEF BlockMakesNew
  <2>2. CASE u = t /\ i = n
    <3>1. place = "block"  BY <2>2, <1>1, <1>7
    <3> QED  BY <2>2, <3>1, <1>1, <1>4, <1>7, <1>9
  <2>3. CASE u = t /\ i # n
    <3>1. i \in 1..n /\ i \in Frames(t) /\ stack[t][i].at = "block"  BY <2>3, <1>6, <1>7
    <3> QED  BY <2>3, <3>1, <1>7 DEF BlockMakesNew
  <2> QED  BY <2>1, <2>2, <2>3
<1>20. Falling'
  <2> SUFFICES ASSUME NEW rank \in [Caches -> Nat], IsRank(rank),
                      NEW u \in Threads, NEW i \in Frames(u)', NEW j \in Frames(u)', i < j
               PROVE  rank[stack'[u][j].cache] < rank[stack'[u][i].cache]
    BY DEF Falling, IsRank
  <2>1. CASE u = t  BY <2>1, <1>6, <1>7 DEF Falling
  <2>2. CASE u # t  BY <2>2, <1>3, <1>8 DEF Falling
  <2> QED  BY <2>1, <2>2
<1> QED  BY <1>14, <1>15, <1>16, <1>17, <1>18, <1>19, <1>20 DEF StackInv, TypeOK

(* A call returns: only the lock, and what the cache keeps, of its own cache
   change. *)
LEMMA PopKeeps ==
    ASSUME Types, LocksHeld, HeldByCalls, Nested, Once, BlockMakesNew, Falling,
           NEW t \in Threads, stack[t] # <<>>, Top(t).at # "lock",
           Return(t), uses' = uses,
           cache' \in [Caches -> [Keys -> Objects \cup {None}]],
           given' \in [Caches -> [Keys -> SUBSET Objects]],
           news' \in [Caches -> [Keys -> Nat]],
           \A d \in Caches \ {Top(t).cache} : cache'[d] = cache[d]
    PROVE  StackInv'
<1> DEFINE n == Len(stack[t])  s == SubSeq(stack[t], 1, n - 1)  c == Top(t).cache
<1>1. stack[t] \in Seq(Call) /\ n \in Nat /\ n \in 1..n /\ Top(t) = stack[t][n] /\ c \in Caches
  <2>1. stack[t] \in Seq(Call)  BY DEF Types
  <2>2. n \in Nat /\ n \in 1..n /\ stack[t][n] \in Call  BY <2>1, SeqFacts
  <2> QED  BY <2>1, <2>2 DEF Top, Call
<1>2. s \in Seq(Call) /\ Len(s) = n - 1 /\ \A i \in 1..(n - 1) : s[i] = stack[t][i]
  BY <1>1, PopFacts
<1>3. stack' = [stack EXCEPT ![t] = s]  BY DEF Return, Pop
<1>4. stack' \in [Threads -> Seq(Call)]
      /\ stack'[t] = s /\ \A u \in Threads \ {t} : stack'[u] = stack[u]
  BY <1>2, <1>3 DEF Types
<1>5. holder' = [holder EXCEPT ![c] = None]  BY DEF Return
<1>6. /\ holder'[c] = None
      /\ \A d \in Caches \ {c} : holder'[d] = holder[d]
      /\ holder' \in [Caches -> Threads \cup {None}]
  BY <1>1, <1>5 DEF Types
<1>7. \A d \in Caches \ {c} : cache'[d] = cache[d]  OBVIOUS
<1>8. stack[t][n].cache = c /\ stack[t][n].at # "lock"  BY <1>1
<1> HIDE DEF n, s, c
<1>9. /\ Frames(t)' = 1..(n - 1) /\ Frames(t) = 1..n /\ Len(stack[t]) = n /\ Len(stack'[t]) = n - 1
      /\ n \in Frames(t)
  BY <1>1, <1>2, <1>4 DEF Frames, n
(* What is left of the stacks was there before. *)
<1>10. ASSUME NEW u \in Threads, NEW i \in Frames(u)'
       PROVE  i \in Frames(u) /\ stack'[u][i] = stack[u][i] /\ (u = t => i # n)
  <2>1. CASE u = t  BY <2>1, <1>1, <1>2, <1>4, <1>9
  <2>2. CASE u # t  BY <2>2, <1>4 DEF Frames
  <2> QED  BY <2>1, <2>2
<1>11. holder[c] = t  BY <1>8, <1>9 DEF LocksHeld
(* No other call is in this cache past its lock. *)
<1>12. ASSUME NEW u \in Threads, NEW i \in Frames(u)', stack[u][i].at # "lock"
       PROVE  stack[u][i].cache \in Caches \ {c} /\ holder[stack[u][i].cache] = u
  <2>1. i \in Frames(u) /\ (u = t => i # n)  BY <1>10
  <2>2. holder[stack[u][i].cache] = u  BY <2>1, <1>12 DEF LocksHeld
  <2>3. stack[u][i].cache \in Caches
    <3>1. stack[u] \in Seq(Call)  BY DEF Types
    <3>2. stack[u][i] \in Call  BY <2>1, <3>1, SeqFacts DEF Frames
    <3> QED  BY <3>2 DEF Call
  <2>4. CASE u = t
    <3>1. stack[t][i].cache # stack[t][n].cache  BY <2>1, <2>4, <1>8, <1>9, <1>12 DEF Once
    <3> QED  BY <2>2, <2>3, <2>4, <3>1, <1>8
  <2>5. CASE u # t  BY <2>2, <2>3, <2>5, <1>11
  <2> QED  BY <2>4, <2>5
<1>13. Types'  BY <1>4, <1>6 DEF Types
<1>14. LocksHeld'
  <2> SUFFICES ASSUME NEW u \in Threads, NEW i \in Frames(u)', stack'[u][i].at # "lock"
               PROVE  holder'[stack'[u][i].cache] = u
    BY DEF LocksHeld
  <2>1. stack'[u][i] = stack[u][i]  BY <1>10
  <2>2. stack[u][i].cache \in Caches \ {c} /\ holder[stack[u][i].cache] = u  BY <2>1, <1>12
  <2> QED  BY <2>1, <2>2, <1>6
<1>15. HeldByCalls'
  <2> SUFFICES ASSUME NEW d \in Caches, NEW u \in Threads, holder'[d] = u
               PROVE  \E i \in Frames(u)' : stack'[u][i].cache = d /\ stack'[u][i].at # "lock"
    BY DEF HeldByCalls
  <2>1. d # c  BY <1>6, CacheAssumption
  <2>2. holder[d] = u  BY <2>1, <1>6
  <2>3. PICK i \in Frames(u) : stack[u][i].cache = d /\ stack[u][i].at # "lock"
    BY <2>2 DEF HeldByCalls
  <2>4. i \in Frames(u)'
    <3>1. CASE u = t  BY <2>1, <2>3, <3>1, <1>1, <1>8, <1>9
    <3>2. CASE u # t  BY <2>3, <3>2, <1>4 DEF Frames
    <3> QED  BY <3>1, <3>2
  <2> QED  BY <2>3, <2>4, <1>10
<1>16. Nested'
  <2> SUFFICES ASSUME NEW u \in Threads, NEW i \in Frames(u)', i < Len(stack'[u])
               PROVE  /\ stack'[u][i].at = "block"
                      /\ stack'[u][i + 1].cache \in uses[stack'[u][i].cache]
    BY DEF Nested
  <2>1. i \in Frames(u) /\ stack'[u][i] = stack[u][i]  BY <1>10
  <2>2. i + 1 \in Frames(u)' /\ i < Len(stack[u])
    <3>1. CASE u = t  BY <3>1, <1>1, <1>9
    <3>2. CASE u # t
      <4>1. stack'[u] = stack[u] /\ stack[u] \in Seq(Call)  BY <3>2, <1>4 DEF Types
      <4>2. Len(stack[u]) \in Nat  BY <4>1, SeqFacts
      <4> QED  BY <4>1, <4>2 DEF Frames
    <3> QED  BY <3>1, <3>2
  <2>3. stack'[u][i + 1] = stack[u][i + 1]  BY <2>2, <1>10
  <2> QED  BY <2>1, <2>2, <2>3 DEF Nested
<1>17. Once'
  <2> SUFFICES ASSUME NEW u \in Threads, NEW i \in Frames(u)', NEW j \in Frames(u)',
                      stack'[u][i].cache = stack'[u][j].cache,
                      stack'[u][i].at # "lock", stack'[u][j].at # "lock"
               PROVE  i = j
    BY DEF Once
  <2>1. /\ i \in Frames(u) /\ stack'[u][i] = stack[u][i]
        /\ j \in Frames(u) /\ stack'[u][j] = stack[u][j]
    BY <1>10
  <2> QED  BY <2>1 DEF Once
<1>18. BlockMakesNew'
  <2> SUFFICES ASSUME NEW u \in Threads, NEW i \in Frames(u)', stack'[u][i].at = "block"
               PROVE  cache'[stack'[u][i].cache][stack'[u][i].key] = None
    BY DEF BlockMakesNew
  <2>1. i \in Frames(u) /\ stack'[u][i] = stack[u][i]  BY <1>10
  <2>2. stack[u][i].cache \in Caches \ {c}  BY <2>1, <1>12
  <2>3. cache[stack[u][i].cache][stack[u][i].key] = None  BY <2>1 DEF BlockMakesNew
  <2> QED  BY <2>1, <2>2, <2>3, <1>7 DEF c
<1>19. Falling'
  <2> SUFFICES ASSUME NEW rank \in [Caches -> Nat], IsRank(rank),
                      NEW u \in Threads, NEW i \in Frames(u)', NEW j \in Frames(u)', i < j
               PROVE  rank[stack'[u][j].cache] < rank[stack'[u][i].cache]
    BY DEF Falling, IsRank
  <2>1. /\ i \in Frames(u) /\ stack'[u][i] = stack[u][i]
        /\ j \in Frames(u) /\ stack'[u][j] = stack[u][j]
    BY <1>10
  <2> QED  BY <2>1 DEF Falling
<1> QED  BY <1>13, <1>14, <1>15, <1>16, <1>17, <1>18, <1>19 DEF StackInv, TypeOK

-----------------------------------------------------------------------------
(* Where a call stands: its cache, its key, and what its place says. *)
LEMMA TopFacts ==
    ASSUME Types, NEW t \in Threads, stack[t] # <<>>
    PROVE  /\ Top(t) \in Call /\ Top(t).cache \in Caches /\ Top(t).key \in Keys
           /\ Len(stack[t]) \in Frames(t) /\ Top(t) = stack[t][Len(stack[t])]
<1>1. stack[t] \in Seq(Call)  BY DEF Types
<1>2. Len(stack[t]) \in 1..Len(stack[t]) /\ stack[t][Len(stack[t])] \in Call  BY <1>1, SeqFacts
<1> QED  BY <1>2 DEF Top, Frames, Call

(* At the start there are no calls and no objects. *)
LEMMA InitKeeps == Init => IInv
<1> SUFFICES ASSUME Init  PROVE IInv  OBVIOUS
<1>1. \A t \in Threads : stack[t] = <<>> /\ Frames(t) = {}
  <2> SUFFICES ASSUME NEW t \in Threads  PROVE stack[t] = <<>> /\ Len(stack[t]) = 0  BY DEF Frames
  <2> QED  BY SeqFacts, EmptySeq DEF Init
<1>2. Types
  <2>1. stack \in [Threads -> Seq(Call)]  BY EmptySeq DEF Init
  <2>2. uses \in [Caches -> SUBSET Caches]  BY CacheAssumption DEF Init
  <2> QED  BY <2>1, <2>2 DEF Init, Types
<1>3. HeldByCalls  BY CacheAssumption DEF Init, HeldByCalls
<1>4. LocksHeld /\ Nested /\ Once /\ BlockMakesNew /\ Falling
  BY <1>1 DEF LocksHeld, Nested, Once, BlockMakesNew, Falling
<1>5. OneObject  BY DEF Init, OneObject
<1> QED  BY <1>2, <1>3, <1>4, <1>5 DEF IInv, StackInv, TypeOK

(* Every step keeps the invariant. *)
LEMMA NextKeeps == IInv /\ [Next]_vars => IInv'
<1> SUFFICES ASSUME IInv, [Next]_vars  PROVE IInv'  OBVIOUS
<1>1. /\ Types /\ LocksHeld /\ HeldByCalls /\ Nested
      /\ Once /\ BlockMakesNew /\ Falling /\ OneObject
  BY DEF IInv, StackInv, TypeOK
<1>2. ASSUME NEW t \in Threads, NEW op \in Ops, NEW c \in Caches, NEW k \in Keys,
             stack[t] = <<>>, Begin(t, op, c, k)
      PROVE  IInv'
  <2> DEFINE f == [op |-> op, cache |-> c, key |-> k, at |-> "lock"]
  <2>1. f \in Call /\ f.at = "lock"  BY DEF Call
  <2>2. stack' = [stack EXCEPT ![t] = Append(@, f)] /\ UNCHANGED <<uses, cache, holder, given, news>>
    BY <1>2 DEF Begin
  <2> HIDE DEF f
  <2>3. StackInv'  BY <1>1, <1>2, <2>1, <2>2, PushKeeps
  <2> QED  BY <1>1, <2>2, <2>3 DEF IInv, OneObject
<1>3. ASSUME NEW t \in Threads, NEW op \in Ops, NEW c \in Caches, NEW k \in Keys,
             UseCache(t, op, c, k)
      PROVE  IInv'
  <2> DEFINE f == [op |-> op, cache |-> c, key |-> k, at |-> "lock"]
  <2>1. f \in Call /\ f.at = "lock" /\ f.cache = c  BY DEF Call
  <2>2. stack' = [stack EXCEPT ![t] = Append(@, f)] /\ UNCHANGED <<uses, cache, holder, given, news>>
    BY <1>3 DEF Begin, UseCache
  <2> HIDE DEF f
  <2>3. Top(t).at = "block" /\ f.cache \in uses[Top(t).cache]  BY <1>3, <2>1 DEF UseCache, At
  <2>4. StackInv'  BY <1>1, <2>1, <2>2, <2>3, PushKeeps
  <2> QED  BY <1>1, <2>2, <2>4 DEF IInv, OneObject
<1>4. ASSUME NEW t \in Threads, Lock(t)  PROVE IInv'
  <2>1. stack[t] # <<>> /\ stack' = Moved(t, "locked") /\ UNCHANGED <<uses, cache, given, news>>
    BY <1>4 DEF Lock, At
  <2>2. StackInv'  BY <1>1, <1>4, <2>1, PlaceKeeps
  <2> QED  BY <1>1, <2>1, <2>2 DEF IInv, OneObject
<1>5. ASSUME NEW t \in Threads, EnterBlock(t)  PROVE IInv'
  <2>1. stack[t] # <<>> /\ stack' = Moved(t, "block") /\ UNCHANGED <<uses, cache, given, news>>
    BY <1>5 DEF EnterBlock, At
  <2>2. StackInv'  BY <1>1, <1>5, <2>1, PlaceKeeps
  <2> QED  BY <1>1, <2>1, <2>2 DEF IInv, OneObject
<1>6. ASSUME NEW t \in Threads, Find(t)  PROVE IInv'
  <2>1. /\ stack[t] # <<>> /\ Top(t).at # "lock" /\ Return(t)
        /\ uses' = uses /\ cache' = cache
    BY <1>6 DEF Find, At
  <2> DEFINE c == Top(t).cache  k == Top(t).key
  <2>2. c \in Caches /\ k \in Keys  BY <1>1, <2>1, TopFacts
  <2>3. UNCHANGED <<given, news>> \/ (cache[c][k] # None /\ Give(c, k, cache[c][k], FALSE))
    BY <1>6 DEF Find
  <2> HIDE DEF c, k
  <2>4. given' = given /\ news' = news
    <3>1. ASSUME cache[c][k] # None, Give(c, k, cache[c][k], FALSE)  PROVE given' = given /\ news' = news
      <4>1. given[c][k] \cup {cache[c][k]} = given[c][k]  BY <1>1, <2>2, <3>1 DEF OneObject
      <4>2. news[c][k] + 0 = news[c][k]  BY <1>1, <2>2 DEF Types
      <4> QED  BY <1>1, <2>2, <3>1, <4>1, <4>2 DEF Give, Types
    <3> QED  BY <2>3, <3>1
  <2>5. /\ cache' \in [Caches -> [Keys -> Objects \cup {None}]]
        /\ given' \in [Caches -> [Keys -> SUBSET Objects]]
        /\ news' \in [Caches -> [Keys -> Nat]]
    BY <1>1, <2>1, <2>4 DEF Types
  <2>6. StackInv'  BY <1>1, <2>1, <2>5, PopKeeps
  <2> QED  BY <1>1, <2>1, <2>4, <2>6 DEF IInv, OneObject
<1>7. ASSUME NEW t \in Threads, NEW obj \in Objects, Create(t, obj)  PROVE IInv'
  <2> DEFINE c == Top(t).cache  k == Top(t).key
  <2>1. /\ stack[t] # <<>> /\ Top(t).at = "block" /\ Return(t) /\ uses' = uses
        /\ cache' = [cache EXCEPT ![c][k] = obj]
        /\ given' = [given EXCEPT ![c][k] = @ \cup {obj}]
        /\ news' = [news EXCEPT ![c][k] = @ + 1]
    BY <1>7 DEF Create, At, Give
  <2>2. c \in Caches /\ k \in Keys  BY <1>1, <2>1, TopFacts
  <2>3. cache[c][k] = None
    <3>1. Len(stack[t]) \in Frames(t) /\ Top(t) = stack[t][Len(stack[t])]  BY <1>1, <2>1, TopFacts
    <3> QED  BY <1>1, <2>1, <3>1 DEF BlockMakesNew
  <2> HIDE DEF k
  <2>4. /\ cache' \in [Caches -> [Keys -> Objects \cup {None}]]
        /\ given' \in [Caches -> [Keys -> SUBSET Objects]]
        /\ news' \in [Caches -> [Keys -> Nat]]
        /\ \A d \in Caches \ {c} : cache'[d] = cache[d]
    BY <1>1, <2>1, <2>2 DEF Types
  <2>5. StackInv'  BY <1>1, <2>1, <2>4, PopKeeps
  <2> HIDE DEF c
  <2>6. /\ cache'[c][k] = obj /\ given'[c][k] = {obj} /\ news'[c][k] = 1 /\ obj # None
    <3>1. given[c][k] = {} /\ news[c][k] = 0  BY <1>1, <2>2, <2>3 DEF OneObject
    <3> QED  BY <1>1, <2>1, <2>2, <3>1, CacheAssumption DEF Types
  <2>7. \A d \in Caches, l \in Keys : 
          \/ d = c /\ l = k
          \/ cache'[d][l] = cache[d][l] /\ given'[d][l] = given[d][l] /\ news'[d][l] = news[d][l]
    <3> SUFFICES ASSUME NEW d \in Caches, NEW l \in Keys, ~(d = c /\ l = k)
                 PROVE  /\ cache'[d][l] = cache[d][l] /\ given'[d][l] = given[d][l]
                        /\ news'[d][l] = news[d][l]
      OBVIOUS
    <3>1. cache'[d][l] = cache[d][l]  BY <1>1, <2>1, <2>2 DEF Types
    <3>2. given'[d][l] = given[d][l]  BY <1>1, <2>1, <2>2 DEF Types
    <3>3. news'[d][l] = news[d][l]  BY <1>1, <2>1, <2>2 DEF Types
    <3> QED  BY <3>1, <3>2, <3>3
  <2>8. OneObject'
    <3> SUFFICES ASSUME NEW d \in Caches, NEW l \in Keys
                 PROVE  /\ given'[d][l] = IF cache'[d][l] = None THEN {} ELSE {cache'[d][l]}
                        /\ news'[d][l] = IF cache'[d][l] = None THEN 0 ELSE 1
      BY DEF OneObject
    <3>1. CASE d = c /\ l = k  BY <3>1, <2>6
    <3>2. CASE ~(d = c /\ l = k)  BY <1>1, <3>2, <2>7 DEF OneObject
    <3> QED  BY <3>1, <3>2
  <2> QED  BY <2>5, <2>8 DEF IInv
<1>8. ASSUME NEW t \in Threads, Contains(t)  PROVE IInv'
  <2>1. stack[t] # <<>> /\ Top(t).at # "lock" /\ Return(t) /\ UNCHANGED <<uses, cache, given, news>>
    BY <1>8 DEF Contains, At
  <2>2. /\ cache' \in [Caches -> [Keys -> Objects \cup {None}]]
        /\ given' \in [Caches -> [Keys -> SUBSET Objects]]
        /\ news' \in [Caches -> [Keys -> Nat]]
    BY <1>1, <2>1 DEF Types
  <2>3. StackInv'  BY <1>1, <2>1, <2>2, PopKeeps
  <2> QED  BY <1>1, <2>1, <2>3 DEF IInv, OneObject
<1>9. ASSUME NEW t \in Threads, NEW keys \in SUBSET Keys, stack[t] # <<>>, Top(t).at # "lock",
             Forget(Top(t).cache, keys), Return(t), uses' = uses
      PROVE  IInv'
  <2> DEFINE c == Top(t).cache
  <2>1. c \in Caches  BY <1>1, <1>9, TopFacts
  <2>2. /\ cache' \in [Caches -> [Keys -> Objects \cup {None}]]
        /\ \A d \in Caches \ {c} : cache'[d] = cache[d]
        /\ \A l \in Keys : cache'[c][l] = IF l \in keys THEN None ELSE cache[c][l]
    BY <1>1, <1>9, <2>1 DEF Forget, Types
  <2>3. /\ given' \in [Caches -> [Keys -> SUBSET Objects]]
        /\ \A d \in Caches \ {c} : given'[d] = given[d]
        /\ \A l \in Keys : given'[c][l] = IF l \in keys THEN {} ELSE given[c][l]
    BY <1>1, <1>9, <2>1 DEF Forget, Types
  <2>4. /\ news' \in [Caches -> [Keys -> Nat]]
        /\ \A d \in Caches \ {c} : news'[d] = news[d]
        /\ \A l \in Keys : news'[c][l] = IF l \in keys THEN 0 ELSE news[c][l]
    BY <1>1, <1>9, <2>1 DEF Forget, Types
  <2>5. StackInv'  BY <1>1, <1>9, <2>2, <2>3, <2>4, PopKeeps
  <2> HIDE DEF c
  <2>6. OneObject'
    <3> SUFFICES ASSUME NEW d \in Caches, NEW l \in Keys
                 PROVE  /\ given'[d][l] = IF cache'[d][l] = None THEN {} ELSE {cache'[d][l]}
                        /\ news'[d][l] = IF cache'[d][l] = None THEN 0 ELSE 1
      BY DEF OneObject
    <3>1. /\ given[d][l] = IF cache[d][l] = None THEN {} ELSE {cache[d][l]}
          /\ news[d][l] = IF cache[d][l] = None THEN 0 ELSE 1
      BY <1>1 DEF OneObject
    <3>2. CASE d # c
      <4>1. cache'[d] = cache[d] /\ given'[d] = given[d] /\ news'[d] = news[d]
        BY <3>2, <2>2, <2>3, <2>4
      <4> QED  BY <3>1, <4>1
    <3>3. CASE d = c /\ l \in keys  BY <3>3, <2>2, <2>3, <2>4
    <3>4. CASE d = c /\ l \notin keys
      <4>1. cache'[d][l] = cache[d][l] /\ given'[d][l] = given[d][l] /\ news'[d][l] = news[d][l]
        BY <3>4, <2>2, <2>3, <2>4
      <4> QED  BY <3>1, <4>1
    <3> QED  BY <3>2, <3>3, <3>4
  <2> QED  BY <2>5, <2>6 DEF IInv
<1>10. ASSUME NEW t \in Threads, Remove(t)  PROVE IInv'
  <2>1. /\ stack[t] # <<>> /\ Top(t).at # "lock" /\ Return(t) /\ uses' = uses
        /\ Forget(Top(t).cache, {Top(t).key})
    BY <1>10 DEF Remove, At
  <2>2. {Top(t).key} \in SUBSET Keys  BY <1>1, <2>1, TopFacts
  <2> QED  BY <1>9, <2>1, <2>2
<1>11. ASSUME NEW t \in Threads, Clear(t)  PROVE IInv'
  <2>1. /\ stack[t] # <<>> /\ Top(t).at # "lock" /\ Return(t) /\ uses' = uses
        /\ Forget(Top(t).cache, Keys)
    BY <1>11 DEF Clear, At
  <2> QED  BY <1>9, <2>1
<1>12. CASE UNCHANGED vars
  <2>1. UNCHANGED <<uses, cache, holder, stack, given, news>>  BY <1>12 DEF vars
  <2>2. TypeOK'
    BY <1>1, <2>1 DEF TypeOK, Types, LocksHeld, HeldByCalls, Nested, Frames
  <2>3. Once' /\ BlockMakesNew'  BY <1>1, <2>1 DEF Once, BlockMakesNew, Frames
  <2>4. Falling'  BY <1>1, <2>1 DEF Falling, IsRank, Frames
  <2>5. OneObject'  BY <1>1, <2>1 DEF OneObject
  <2> QED  BY <2>2, <2>3, <2>4, <2>5 DEF IInv, StackInv
<1> QED  BY <1>2, <1>3, <1>4, <1>5, <1>6, <1>7, <1>8, <1>10, <1>11, <1>12 DEF Next

-----------------------------------------------------------------------------
(* The invariant above holds always. *)
LEMMA Invariance == Spec => []IInv
<1>1. Init => IInv  BY InitKeeps
<1>2. IInv /\ [Next]_vars => IInv'  BY NextKeeps
<1> QED  BY <1>1, <1>2, PTL DEF Spec

(* However many threads and caches there are, and whatever caches the blocks
   use: a thread has the locks of the calls it is in, and no others. *)
THEOREM LocksOfCalls == Spec => []TypeOK
<1>1. IInv => TypeOK  BY DEF IInv, StackInv
<1> QED  BY <1>1, Invariance, PTL

(* However calls interleave, no two objects exist for a key that nobody
   removed: everyone gets the one that is in the cache. *)
THEOREM OneObjectForAKey == Spec => []OneObject
<1>1. IInv => OneObject  BY DEF IInv
<1> QED  BY <1>1, Invariance, PTL

(* Of the ranks that threads wait for, one is the lowest. *)
LEMMA LowestRank ==
    ASSUME NEW R \in SUBSET Nat, R # {}
    PROVE  \E m \in R : \A r \in R : ~ (r < m)
<1>1. IsWellFoundedOn(OpToRel(<, Nat), Nat)  BY NatLessThanWellFounded
<1>2. PICK m \in R : \A r \in R : ~ (<<r, m>> \in OpToRel(<, Nat))  BY <1>1, WFMin
<1>3. \A r \in R : <<r, m>> \in OpToRel(<, Nat) <=> r < m  BY DEF OpToRel
<1> QED  BY <1>2, <1>3

(* If no block uses its own cache, directly or through others, threads never
   wait for one another for ever: of those that do, the one that waits for the
   lowest cache would wait for a thread that waits for a lower one still. *)
THEOREM NoThreadsStuck == Spec => []NoCircularWait
<1> SUFFICES ASSUME IInv  PROVE NoCircularWait
  BY Invariance, PTL
<1>1. Types /\ HeldByCalls /\ Falling  BY DEF IInv, StackInv, TypeOK
<1> SUFFICES ASSUME NEW rank \in [Caches -> 1..Cardinality(Caches)], IsRank(rank),
                    NEW S \in SUBSET Threads, S # {},
                    \A t \in S : \E u \in S : WaitsFor(t, u)
             PROVE  FALSE
  BY DEF NoCircularWait, Ranked
<1>2. rank \in [Caches -> Nat]  OBVIOUS
<1>3. \A t \in S : Top(t).cache \in Caches /\ stack[t] # <<>> /\ Top(t).at = "lock"
  <2> SUFFICES ASSUME NEW t \in S  PROVE Top(t).cache \in Caches /\ stack[t] # <<>> /\ Top(t).at = "lock"
    OBVIOUS
  <2>1. stack[t] # <<>> /\ Top(t).at = "lock"  BY DEF WaitsFor, At
  <2> QED  BY <1>1, <2>1, TopFacts
<1> DEFINE R == {rank[Top(t).cache] : t \in S}
<1>4. R \in SUBSET Nat /\ R # {}  BY <1>2, <1>3
<1>5. PICK m \in R : \A r \in R : ~ (r < m)  BY ONLY <1>4, LowestRank
<1>6. PICK t \in S : m = rank[Top(t).cache]  BY <1>5
<1>7. PICK u \in S : holder[Top(t).cache] = u  BY DEF WaitsFor
<1>8. PICK i \in Frames(u) : stack[u][i].cache = Top(t).cache /\ stack[u][i].at # "lock"
  BY <1>1, <1>3, <1>7 DEF HeldByCalls
<1>9. /\ Len(stack[u]) \in Frames(u) /\ Top(u) = stack[u][Len(stack[u])]
      /\ Top(u).at = "lock"
  BY <1>1, <1>3, TopFacts
<1>10. i < Len(stack[u])
  <2>1. i # Len(stack[u])  BY <1>8, <1>9
  <2>2. stack[u] \in Seq(Call)  BY <1>1 DEF Types
  <2>3. Len(stack[u]) \in Nat  BY <2>2, SeqFacts
  <2> QED  BY <2>1, <2>3 DEF Frames
<1>11. rank[stack[u][Len(stack[u])].cache] < rank[stack[u][i].cache]
  BY <1>1, <1>2, <1>9, <1>10 DEF Falling
<1>12. rank[Top(u).cache] < m  BY <1>6, <1>8, <1>9, <1>11
<1>13. rank[Top(u).cache] \in R  OBVIOUS
<1> QED  BY <1>5, <1>12, <1>13
=============================================================================
