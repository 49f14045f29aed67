-------------------------- MODULE BlockBuffer_proofs --------------------------
(***************************************************************************)
(* Theorems about buffers and the packets in them.                         *)
(*                                                                         *)
(* The memory: the type invariant of BlockBuffer is inductive as it stands; *)
(* on top of it every operation on the memory is shown to be the operation *)
(* of the same name on a string of bytes, so that BlockBuffer implements   *)
(* ByteString.                                                             *)
(*                                                                         *)
(* The counters: the sum over the blocks of all buffers changes by what a  *)
(* step changes of one buffer.  SumFunction folds over a set; what it is   *)
(* for every set is shown by a least counterexample, WFMin on the numbers, *)
(* with no operator as a parameter.                                        *)
(*                                                                         *)
(* The packets: the pops of a type take from a string that begins with an  *)
(* encoding just this encoding, and return the value; less than it they    *)
(* refuse; and what a Pack has pushed so far is always the encodings of    *)
(* its fields and a part of one.                                           *)
(***************************************************************************)
EXTENDS Packet, SequenceTheorems, FiniteSetTheorems, WellFoundedInduction, TLAPS

(* What may stand in a memory. *)
Mem == Byte \cup {Junk}

-----------------------------------------------------------------------------
(* Arithmetic of whole blocks. *)

(* A number is its quotient and its remainder. *)
LEMMA DivFacts ==
    ASSUME NEW k \in Nat \ {0}, NEW n \in Nat
    PROVE  /\ n \div k \in Nat /\ n % k \in 0..(k - 1)
           /\ n = k * (n \div k) + (n % k)
OBVIOUS

(* A product grows with its factor. *)
LEMMA TimesMonotone ==
    ASSUME NEW m \in Nat, NEW n \in Nat, NEW k \in Nat, m <= n
    PROVE  m * k <= n * k
<1>1. PICK d \in Nat : n = m + d  BY n - m \in Nat
<1>2. n * k = m * k + d * k  BY <1>1
<1>3. d * k \in Nat  OBVIOUS
<1> QED  BY <1>2, <1>3

(* BlocksFor(n) blocks hold n bytes, and one block less does not. *)
LEMMA BlocksForFacts ==
    ASSUME NEW n \in Nat \ {0}
    PROVE  /\ BlocksFor(n) \in Nat \ {0}
           /\ n <= BlocksFor(n) * BlockSize
           /\ (BlocksFor(n) - 1) * BlockSize < n
<1> DEFINE k == BlockSize  q == n \div k  r == n % k
<1>0. k \in Nat \ {0}  BY BufferAssumption
<1>1. q \in Nat /\ r \in 0..(k - 1) /\ n = k * q + r  BY <1>0, DivFacts
<1> HIDE DEF q, r
<1>2. CASE r > 0
  <2>1. BlocksFor(n) = q + 1  BY <1>2, <1>1 DEF BlocksFor, q, r
  <2>2. (q + 1) * k = k * q + k /\ q * k = k * q  BY <1>0, <1>1
  <2> QED  BY <1>0, <1>1, <1>2, <2>1, <2>2
<1>3. CASE r = 0
  <2>1. BlocksFor(n) = q  BY <1>3, <1>1 DEF BlocksFor, q, r
  <2>2. q * k = k * q /\ (q - 1) * k = k * q - k  BY <1>0, <1>1
  <2>3. q # 0  BY <1>0, <1>1, <1>3
  <2> QED  BY <1>0, <1>1, <1>3, <2>1, <2>2, <2>3
<1> QED  BY <1>0, <1>1, <1>2, <1>3

(* What a buffer allocates for n bytes behind its first used ones is enough,
   and no more blocks than it takes. *)
LEMMA NewBlockFacts ==
    ASSUME BufferTypeOK, NEW b \in Buffers, NEW used \in Nat, used <= Capacity(b), NEW n \in Nat
    PROVE  /\ NewBlock(b, used, n) \in Nat
           /\ NewBlock(b, used, n) >= block[b]
           /\ NewBlock(b, used, n) * BlockSize \in Nat
           /\ Capacity(b) <= NewBlock(b, used, n) * BlockSize
           /\ used + n <= NewBlock(b, used, n) * BlockSize
           /\ NewBlock(b, used, n) # block[b] =>
                 /\ Capacity(b) < used + n
                 /\ (NewBlock(b, used, n) - 1) * BlockSize < used + n
           /\ NewBlock(b, used, n) = block[b] => used + n <= Capacity(b)
<1> DEFINE new == NewBlock(b, used, n)  free == Capacity(b) - used
<1>1. block[b] \in Nat /\ BlockSize \in Nat \ {0}  BY BufferAssumption DEF BufferTypeOK
<1>2. Capacity(b) \in Nat /\ free \in Nat  BY <1>1 DEF Capacity
<1>3. CASE n <= free
  BY <1>1, <1>2, <1>3 DEF NewBlock, Capacity
<1>4. CASE n > free
  <2> DEFINE more == BlocksFor(n - free)
  <2>1. /\ more \in Nat \ {0}
        /\ n - free <= more * BlockSize
        /\ (more - 1) * BlockSize < n - free
    BY <1>2, <1>4, BlocksForFacts
  <2>2. new = block[b] + more  BY <1>2, <1>4 DEF NewBlock
  <2> HIDE DEF more, new
  <2>3. new * BlockSize = Capacity(b) + more * BlockSize
    BY <1>1, <2>1, <2>2 DEF Capacity
  <2>4. (new - 1) * BlockSize = Capacity(b) + (more - 1) * BlockSize
    BY <1>1, <2>1, <2>2 DEF Capacity
  <2>5. new \in Nat /\ new > block[b]  BY <1>1, <2>1, <2>2
  <2>6. more * BlockSize \in Nat /\ (more - 1) * BlockSize \in Nat
    BY <1>1, <2>1
  <2> QED  BY <1>1, <1>2, <1>4, <2>1, <2>3, <2>4, <2>5, <2>6 DEF new
<1> QED  BY <1>2, <1>3, <1>4

-----------------------------------------------------------------------------
(* Memory as sequences. *)

(* A function on 1..n is a sequence of length n. *)
LEMMA FunctionIsSeq ==
    ASSUME NEW S, NEW n \in Nat, NEW f \in [1..n -> S]
    PROVE  f \in Seq(S) /\ Len(f) = n /\ DOMAIN f = 1..n
<1>1. f \in Seq(S)  BY SeqDef
<1> QED  BY <1>1, LenProperties

(* A sequence is a function on the positions up to its length. *)
LEMMA SeqIsFunction ==
    ASSUME NEW S, NEW s \in Seq(S)
    PROVE  /\ Len(s) \in Nat /\ DOMAIN s = 1..Len(s)
           /\ \A i \in 1..Len(s) : s[i] \in S
BY LenProperties, ElementOfSeq

(* The first bytes of a memory. *)
LEMMA PrefixFacts ==
    ASSUME NEW S, NEW s \in Seq(S), NEW n \in 0..Len(s)
    PROVE  /\ SubSeq(s, 1, n) \in Seq(S)
           /\ Len(SubSeq(s, 1, n)) = n
           /\ \A i \in 1..n : SubSeq(s, 1, n)[i] = s[i]
<1>1. Len(s) \in Nat /\ \A i \in 1..n : s[i] \in S  BY SeqIsFunction
<1>2. SubSeq(s, 1, n) \in Seq(S) /\ Len(SubSeq(s, 1, n)) = (IF 1 <= n THEN n - 1 + 1 ELSE 0)
  BY <1>1, SubSeqProperties
<1>3. \A i \in 1..(n - 1 + 1) : SubSeq(s, 1, n)[i] = s[1 + i - 1]
  BY <1>1, SubSeqProperties
<1> QED  BY <1>1, <1>2, <1>3

(* Writing into memory changes neither its length nor what is beside. *)
LEMMA WrittenFacts ==
    ASSUME NEW memory \in Seq(Mem), NEW pos \in Nat, NEW s \in Seq(Mem),
           pos + Len(s) <= Len(memory)
    PROVE  /\ Written(memory, pos, s) \in Seq(Mem)
           /\ Len(Written(memory, pos, s)) = Len(memory)
           /\ \A i \in 1..Len(memory) : Written(memory, pos, s)[i] =
                 IF i \in (pos + 1)..(pos + Len(s)) THEN s[i - pos] ELSE memory[i]
<1>1. /\ Len(memory) \in Nat /\ DOMAIN memory = 1..Len(memory)
      /\ \A i \in 1..Len(memory) : memory[i] \in Mem
      /\ Len(s) \in Nat /\ \A i \in 1..Len(s) : s[i] \in Mem
  BY SeqIsFunction
<1>2. Written(memory, pos, s) \in [1..Len(memory) -> Mem]  BY <1>1 DEF Written
<1> QED  BY <1>1, <1>2, FunctionIsSeq DEF Written

(* What the type invariant says of one buffer and its bytes. *)
LEMMA BufferFacts ==
    ASSUME BufferTypeOK, NEW b \in Buffers
    PROVE  /\ data[b] \in Seq(Mem) /\ Len(data[b]) = Capacity(b) /\ Capacity(b) \in Nat
           /\ size[b] \in 0..Capacity(b) /\ block[b] \in 0..MaxBlocks
           /\ bytes[b] \in Seq(Mem) /\ Len(bytes[b]) = size[b]
           /\ \A i \in 1..size[b] : bytes[b][i] = data[b][i]
<1>1. data[b] \in Seq(Mem) /\ block[b] \in 0..MaxBlocks /\ size[b] \in Nat
  BY DEF BufferTypeOK, Mem
<1>2. Capacity(b) \in Nat  BY <1>1, BufferAssumption DEF Capacity
<1>3. Len(data[b]) = Capacity(b) /\ size[b] \in 0..Capacity(b)
  BY <1>1, <1>2 DEF BufferTypeOK
<1>4. bytes[b] = SubSeq(data[b], 1, size[b])  BY DEF bytes
<1> QED  BY <1>1, <1>2, <1>3, <1>4, PrefixFacts

(* The capacity of each buffer, as ByteString sees it. *)
Room == [b \in Buffers |-> Capacity(b)]

(* A step that gives one buffer the memory m of k blocks with n bytes in use. *)
Becomes(b, m, n, k) ==
    /\ m \in Seq(Mem) /\ n \in Nat /\ k \in 0..MaxBlocks
    /\ Len(m) = k * BlockSize /\ n <= Len(m)
    /\ data' = [data EXCEPT ![b] = m]
    /\ size' = [size EXCEPT ![b] = n]
    /\ block' = [block EXCEPT ![b] = k]
    /\ result' \in {"ok", "full", "nomem"}
    /\ m_pos' \in [Buffers -> Nat \cup {None}]
    /\ \A c \in Buffers \ {b} : m_pos'[c] = m_pos[c]
    /\ m_pos'[b] # None => m_pos'[b] <= n

(* Such a step keeps the types, and the buffer then holds the first n bytes of
   m. *)
LEMMA StepKeeps ==
    ASSUME BufferTypeOK, NEW b \in Buffers, NEW m, NEW n, NEW k, Becomes(b, m, n, k)
    PROVE  /\ BufferTypeOK'
           /\ Room' = [Room EXCEPT ![b] = k * BlockSize]
           /\ \A t \in Seq(Mem) :
                 Len(t) = n /\ (\A i \in 1..n : t[i] = m[i]) => bytes' = [bytes EXCEPT ![b] = t]
<1> USE BufferAssumption DEF Becomes
<1>1. /\ data \in [Buffers -> Seq(Mem)] /\ size \in [Buffers -> Nat]
      /\ block \in [Buffers -> 0..MaxBlocks]
  BY DEF BufferTypeOK, Mem
<1>2. /\ data' \in [Buffers -> Seq(Mem)] /\ size' \in [Buffers -> Nat]
      /\ block' \in [Buffers -> 0..MaxBlocks]
  BY <1>1
<1>3. \A c \in Buffers : Capacity(c)' = IF c = b THEN k * BlockSize ELSE Capacity(c)
  BY <1>1 DEF Capacity
<1>4. Room' = [Room EXCEPT ![b] = k * BlockSize]  BY <1>3 DEF Room
<1>5. BufferTypeOK'
  <2> SUFFICES ASSUME NEW c \in Buffers
               PROVE  /\ Len(data'[c]) = Capacity(c)'
                      /\ size'[c] <= Capacity(c)'
                      /\ m_pos'[c] # None => m_pos'[c] <= size'[c]
    BY <1>2 DEF BufferTypeOK, Mem
  <2>1. CASE c = b  BY <2>1, <1>1, <1>3
  <2>2. CASE c # b
    <3>1. data'[c] = data[c] /\ size'[c] = size[c] /\ m_pos'[c] = m_pos[c]  BY <2>2, <1>1
    <3> QED  BY <2>2, <3>1, <1>3 DEF BufferTypeOK
  <2> QED  BY <2>1, <2>2
<1>6. ASSUME NEW t \in Seq(Mem), Len(t) = n, \A i \in 1..n : t[i] = m[i]
      PROVE  bytes' = [bytes EXCEPT ![b] = t]
  <2>1. SubSeq(m, 1, n) = t
    <3>1. n \in 0..Len(m)  BY SeqIsFunction
    <3> QED  BY <3>1, <1>6, PrefixFacts, SeqEqual
  <2>2. \A c \in Buffers : SubSeq(data'[c], 1, size'[c]) =
           IF c = b THEN t ELSE SubSeq(data[c], 1, size[c])
    BY <1>1, <2>1
  <2> QED  BY <2>2 DEF bytes
<1> QED  BY <1>4, <1>5, <1>6

-----------------------------------------------------------------------------
(* Memory that grows. *)

(* No buffer holds more bytes. *)
MaxSize == MaxBlocks * BlockSize

(* When a buffer gets its room, the blocks are enough and ByteString grants it. *)
LEMMA IncreaseGrants ==
    ASSUME BufferTypeOK, NEW b \in Buffers, NEW used \in Nat, used <= size[b],
           NEW n \in Nat, NEW s, Increase(b, used, n, s),
           Room' = [Room EXCEPT ![b] = NewBlock(b, used, n) * BlockSize]
    PROVE  Promise!Granted(b, used + n)
<1> USE BufferAssumption
<1> DEFINE new == NewBlock(b, used, n)
<1>1. /\ size[b] \in 0..Capacity(b) /\ Capacity(b) \in Nat /\ block[b] \in 0..MaxBlocks
      /\ used <= Capacity(b)
  BY BufferFacts
<1>2. /\ new \in Nat /\ new >= block[b] /\ new * BlockSize \in Nat
      /\ Capacity(b) <= new * BlockSize /\ used + n <= new * BlockSize
      /\ new # block[b] => Capacity(b) < used + n
      /\ new = block[b] => used + n <= Capacity(b)
  BY <1>1, NewBlockFacts
<1>3. new <= MaxBlocks /\ result' = "ok"  BY DEF Increase
<1> HIDE DEF new
<1>4. new * BlockSize <= MaxSize /\ MaxSize \in Nat
  BY <1>2, <1>3, TimesMonotone DEF MaxSize
<1>5. Room[b] = Capacity(b)  BY DEF Room
<1>6. used + n <= MaxSize  BY <1>1, <1>2, <1>4
<1>7. IF used + n <= Room[b] THEN new * BlockSize = Room[b] ELSE used + n <= new * BlockSize
  <2>1. CASE new = block[b]  BY <2>1, <1>2, <1>5 DEF Capacity
  <2>2. CASE new # block[b]  BY <2>2, <1>1, <1>2, <1>5
  <2> QED  BY <2>1, <2>2
<1>8. Room' = [Room EXCEPT ![b] = new * BlockSize]  BY DEF new
<1>9. new * BlockSize \in 0..MaxSize  BY <1>2, <1>4
<1> QED  BY <1>3, <1>6, <1>7, <1>8, <1>9 DEF Promise!Granted, Room, MaxSize

(* When it does not, ByteString refuses it, for the same reason. *)
LEMMA CannotIncreaseRefuses ==
    ASSUME BufferTypeOK, NEW b \in Buffers, NEW used \in Nat, used <= size[b],
           NEW n \in Nat, CannotIncrease(b, used, n)
    PROVE  Promise!Refused(b, used + n)
<1> USE BufferAssumption
<1> DEFINE new == NewBlock(b, used, n)
<1>1. /\ size[b] \in 0..Capacity(b) /\ Capacity(b) \in Nat /\ block[b] \in 0..MaxBlocks
      /\ used <= Capacity(b)
  BY BufferFacts
<1>2. new # block[b] /\ result' = IF new > MaxBlocks THEN "full" ELSE "nomem"
  BY DEF CannotIncrease
<1>3. /\ new \in Nat /\ new >= block[b] /\ new * BlockSize \in Nat
      /\ used + n <= new * BlockSize
      /\ Capacity(b) < used + n
      /\ (new - 1) * BlockSize < used + n
  BY <1>1, <1>2, NewBlockFacts
<1> HIDE DEF new
<1>4. MaxSize \in Nat  BY DEF MaxSize
<1>5. new > MaxBlocks <=> used + n > MaxSize
  <2>1. CASE new > MaxBlocks
    <3>1. new - 1 \in Nat /\ MaxBlocks <= new - 1  BY <2>1, <1>3
    <3>2. MaxSize <= (new - 1) * BlockSize  BY <3>1, TimesMonotone DEF MaxSize
    <3>3. (new - 1) * BlockSize \in Nat  BY <3>1
    <3> QED  BY <2>1, <3>2, <3>3, <1>3, <1>4
  <2>2. CASE new <= MaxBlocks
    <3>1. new * BlockSize <= MaxSize  BY <2>2, <1>3, TimesMonotone DEF MaxSize
    <3> QED  BY <2>2, <3>1, <1>3, <1>4
  <2> QED  BY <2>1, <2>2, <1>3
<1>6. Room' = Room  BY DEF CannotIncrease, Room, Capacity
<1>7. used + n > Room[b]  BY <1>3 DEF Room
<1>8. result' = IF used + n > MaxSize THEN "full" ELSE "nomem"  BY <1>2, <1>5
<1> QED  BY <1>6, <1>7, <1>8 DEF Promise!Refused, Room, MaxSize

(* The memory m that increase_capacity leaves: the used bytes, then s. *)
Filled(b, used, n, s, m) ==
    /\ m \in Seq(Mem)
    /\ data' = [data EXCEPT ![b] = m]
    /\ Len(m) = NewBlock(b, used, n) * BlockSize
    /\ used + n <= Len(m)
    /\ \A i \in 1..used : m[i] = data[b][i]
    /\ \A i \in 1..Len(s) : m[used + i] = s[i]

(* Memory that was increased holds the used bytes and then the new ones. *)
LEMMA IncreaseMemory ==
    ASSUME BufferTypeOK, NEW b \in Buffers, NEW used \in Nat, used <= size[b],
           NEW n \in Nat, NEW s \in Seq(Mem), Len(s) <= n, Increase(b, used, n, s)
    PROVE  /\ NewBlock(b, used, n) \in 0..MaxBlocks
           /\ block' = [block EXCEPT ![b] = NewBlock(b, used, n)]
           /\ result' = "ok"
           /\ \E m : Filled(b, used, n, s, m)
<1> USE BufferAssumption
<1> DEFINE new == NewBlock(b, used, n)
           old == IF new = block[b] THEN data[b] ELSE Moved(b, used, new)
<1>1. /\ size[b] \in 0..Capacity(b) /\ Capacity(b) \in Nat /\ block[b] \in 0..MaxBlocks
      /\ used <= Capacity(b) /\ data[b] \in Seq(Mem) /\ Len(data[b]) = Capacity(b)
  BY BufferFacts
<1>2. /\ new \in Nat /\ new * BlockSize \in Nat
      /\ Capacity(b) <= new * BlockSize /\ used + n <= new * BlockSize
  BY <1>1, NewBlockFacts
<1>3. /\ new <= MaxBlocks /\ result' = "ok"
      /\ block' = [block EXCEPT ![b] = new]
      /\ data' = [data EXCEPT ![b] = Written(old, used, s)]
  BY DEF Increase, BufferTypeOK
<1>4. old \in Seq(Mem) /\ Len(old) = new * BlockSize /\ \A i \in 1..used : old[i] = data[b][i]
  <2>1. CASE new = block[b]  BY <2>1, <1>1 DEF Capacity
  <2>2. CASE new # block[b]
    <3>1. \A i \in 1..used : data[b][i] \in Mem  BY <1>1, SeqIsFunction
    <3>2. Moved(b, used, new) \in [1..(new * BlockSize) -> Mem]
      BY <3>1, <1>1 DEF Moved, Mem
    <3>3. /\ Moved(b, used, new) \in Seq(Mem)
          /\ Len(Moved(b, used, new)) = new * BlockSize
      BY <3>2, <1>2, FunctionIsSeq
    <3>4. \A i \in 1..used : Moved(b, used, new)[i] = data[b][i]
      BY <1>1, <1>2 DEF Moved
    <3> QED  BY <2>2, <3>3, <3>4
  <2> QED  BY <2>1, <2>2
<1> HIDE DEF new, old
<1>5. Len(s) \in Nat  BY SeqIsFunction
<1> DEFINE m == Written(old, used, s)
<1>6. /\ m \in Seq(Mem) /\ Len(m) = Len(old)
      /\ \A i \in 1..Len(old) : m[i] =
            IF i \in (used + 1)..(used + Len(s)) THEN s[i - used] ELSE old[i]
  BY <1>2, <1>4, <1>5, WrittenFacts
<1> HIDE DEF m
<1>7. \A i \in 1..used : m[i] = data[b][i]  BY <1>2, <1>4, <1>5, <1>6
<1>8. ASSUME NEW i \in 1..Len(s)  PROVE m[used + i] = s[i]
  <2>1. used + i \in 1..Len(old) /\ used + i \in (used + 1)..(used + Len(s)) /\ used + i - used = i
    BY <1>2, <1>4, <1>5
  <2> QED  BY <2>1, <1>6
<1>9. data' = [data EXCEPT ![b] = m]  BY <1>3 DEF m
<1>10. Filled(b, used, n, s, m)
  BY <1>2, <1>4, <1>6, <1>7, <1>8, <1>9 DEF Filled, new
<1>11. new \in 0..MaxBlocks  BY <1>2, <1>3
<1> QED  BY <1>3, <1>10, <1>11 DEF new

(* append: the buffer cut after its first used bytes is extended by s. *)
LEMMA AppendExtends ==
    ASSUME BufferTypeOK, NEW b \in Buffers, NEW used \in Nat, used <= size[b],
           NEW s \in Seq(Mem), AppendAt(b, used, s), m_pos' = m_pos,
           m_pos[b] # None => m_pos[b] <= used
    PROVE  BufferTypeOK' /\ Promise!Extend(b, used, s)
<1> DEFINE prefix == SubSeq(bytes[b], 1, used)
<1>1. /\ size[b] \in 0..Capacity(b) /\ Capacity(b) \in Nat /\ block[b] \in 0..MaxBlocks
      /\ data[b] \in Seq(Mem) /\ Len(data[b]) = Capacity(b)
      /\ bytes[b] \in Seq(Mem) /\ Len(bytes[b]) = size[b]
      /\ \A i \in 1..size[b] : bytes[b][i] = data[b][i]
  BY BufferFacts
<1>2. /\ prefix \in Seq(Mem) /\ Len(prefix) = used
      /\ \A i \in 1..used : prefix[i] = data[b][i]
  BY <1>1, PrefixFacts
<1>3. Len(s) \in Nat /\ Len(s) <= Len(s) /\ used + Len(s) \in Nat  BY SeqIsFunction
<1>4. m_pos \in [Buffers -> Nat \cup {None}]  BY DEF BufferTypeOK
<1> HIDE DEF prefix
<1>5. CASE Increase(b, used, Len(s), s) /\ size' = [size EXCEPT ![b] = used + Len(s)]
  <2> DEFINE new == NewBlock(b, used, Len(s))
  <2>0. PICK m : Filled(b, used, Len(s), s, m)
    BY <1>3, <1>5, IncreaseMemory
  <2>1. /\ m \in Seq(Mem) /\ data' = [data EXCEPT ![b] = m]
        /\ Len(m) = new * BlockSize
        /\ used + Len(s) <= Len(m)
        /\ \A i \in 1..used : m[i] = data[b][i]
        /\ \A i \in 1..Len(s) : m[used + i] = s[i]
    BY <2>0 DEF Filled
  <2>2. /\ new \in 0..MaxBlocks
        /\ block' = [block EXCEPT ![b] = new]
        /\ result' = "ok"
    BY <1>3, <1>5, IncreaseMemory
  <2> DEFINE t == prefix \o s
  <2>3. /\ t \in Seq(Mem) /\ Len(t) = used + Len(s)
        /\ \A i \in 1..(used + Len(s)) : t[i] = IF i <= used THEN prefix[i] ELSE s[i - used]
    BY <1>2, ConcatProperties
  <2> HIDE DEF t
  <2>7. ASSUME NEW i \in 1..(used + Len(s))  PROVE t[i] = m[i]
    <3>1. CASE i <= used
      <4>1. i \in 1..used  BY <3>1, <1>3
      <4> QED  BY <3>1, <4>1, <2>3, <2>1, <1>2
    <3>2. CASE i > used
      <4>1. i - used \in 1..Len(s) /\ used + (i - used) = i  BY <3>2, <1>3
      <4>2. m[i] = s[i - used]  BY <4>1, <2>1
      <4> QED  BY <3>2, <4>2, <2>3
    <3> QED  BY <3>1, <3>2, <1>3
  <2> HIDE DEF new
  <2>4. Becomes(b, m, used + Len(s), new)
    <3>1. m_pos'[b] # None => m_pos'[b] <= used + Len(s)  BY <1>3, <1>4
    <3> QED  BY <3>1, <1>3, <1>4, <1>5, <2>1, <2>2 DEF Becomes
  <2>5. /\ BufferTypeOK'
        /\ Room' = [Room EXCEPT ![b] = new * BlockSize]
        /\ bytes' = [bytes EXCEPT ![b] = t]
    BY <2>3, <2>4, <2>7, StepKeeps
  <2>6. Promise!Granted(b, used + Len(s))  BY <2>5, <1>3, <1>5, IncreaseGrants DEF new
  <2> QED  BY <2>5, <2>6 DEF Promise!Extend, prefix, t
<1>6. CASE CannotIncrease(b, used, Len(s)) /\ size' = [size EXCEPT ![b] = used]
  <2>1. Becomes(b, data[b], used, block[b])
    <3>1. /\ data' = [data EXCEPT ![b] = data[b]] /\ block' = [block EXCEPT ![b] = block[b]]
          /\ result' \in {"ok", "full", "nomem"}
      BY <1>6 DEF CannotIncrease, BufferTypeOK
    <3>2. Len(data[b]) = block[b] * BlockSize /\ used <= Len(data[b])
      BY <1>1 DEF Capacity
    <3> QED  BY <1>1, <1>4, <1>6, <3>1, <3>2 DEF Becomes
  <2>2. BufferTypeOK' /\ bytes' = [bytes EXCEPT ![b] = prefix]
    BY <1>2, <2>1, StepKeeps
  <2>3. Promise!Refused(b, used + Len(s))  BY <1>3, <1>6, CannotIncreaseRefuses
  <2> QED  BY <2>2, <2>3 DEF Promise!Extend, prefix
<1> QED  BY <1>5, <1>6 DEF AppendAt

-----------------------------------------------------------------------------
(* Bytes that are erased. *)

(* The string that is left when k bytes at pos are cut out of a string. *)
Cut(s, pos, k) == SubSeq(s, 1, pos) \o SubSeq(s, pos + k + 1, Len(s))

(* What is left of a string when k bytes at pos are cut out of it. *)
LEMMA CutFacts ==
    ASSUME NEW S, NEW s \in Seq(S), NEW pos \in 0..Len(s), NEW k \in 0..(Len(s) - pos)
    PROVE  /\ Cut(s, pos, k) \in Seq(S) /\ Len(Cut(s, pos, k)) = Len(s) - k
           /\ \A i \in 1..(Len(s) - k) : Cut(s, pos, k)[i] = IF i <= pos THEN s[i] ELSE s[i + k]
<1> DEFINE p == SubSeq(s, 1, pos)  q == SubSeq(s, pos + k + 1, Len(s))  t == p \o q
<1>1. Len(s) \in Nat /\ \A i \in 1..Len(s) : s[i] \in S  BY SeqIsFunction
<1>2. p \in Seq(S) /\ Len(p) = pos /\ \A i \in 1..pos : p[i] = s[i]
  BY PrefixFacts
<1>3. /\ q \in Seq(S) /\ Len(q) = Len(s) - (pos + k)
      /\ \A i \in 1..(Len(s) - (pos + k)) : q[i] = s[pos + k + i]
  <2>1. pos + k + 1 \in Int /\ Len(s) \in Int /\ \A i \in (pos + k + 1)..Len(s) : s[i] \in S
    BY <1>1
  <2>2. /\ q \in Seq(S)
        /\ Len(q) = IF pos + k + 1 <= Len(s) THEN Len(s) - (pos + k + 1) + 1 ELSE 0
        /\ \A i \in 1..(Len(s) - (pos + k + 1) + 1) : q[i] = s[pos + k + 1 + i - 1]
    BY <2>1, SubSeqProperties
  <2> HIDE DEF q
  <2>3. ASSUME NEW i \in 1..(Len(s) - (pos + k))  PROVE q[i] = s[pos + k + i]
    <3>1. i \in 1..(Len(s) - (pos + k + 1) + 1) /\ pos + k + 1 + i - 1 = pos + k + i  BY <1>1
    <3> QED  BY <3>1, <2>2
  <2> QED  BY <1>1, <2>2, <2>3
<1> HIDE DEF p, q
<1>4. /\ t \in Seq(S) /\ Len(t) = Len(p) + Len(q)
      /\ \A i \in 1..(Len(p) + Len(q)) : t[i] = IF i <= Len(p) THEN p[i] ELSE q[i - Len(p)]
  BY <1>2, <1>3, ConcatProperties
<1> HIDE DEF t
<1>5. Len(p) + Len(q) = Len(s) - k  BY <1>1, <1>2, <1>3
<1>6. ASSUME NEW i \in 1..(Len(s) - k)  PROVE t[i] = IF i <= pos THEN s[i] ELSE s[i + k]
  <2>1. t[i] = IF i <= pos THEN p[i] ELSE q[i - pos]  BY <1>2, <1>4, <1>5
  <2>2. CASE i <= pos
    <3>1. i \in 1..pos  BY <2>2
    <3> QED  BY <2>1, <2>2, <3>1, <1>2
  <2>3. CASE i > pos
    <3>1. i - pos \in 1..(Len(s) - (pos + k)) /\ pos + k + (i - pos) = i + k  BY <1>1, <2>3
    <3>2. q[i - pos] = s[pos + k + (i - pos)]  BY <3>1, <1>3
    <3> QED  BY <2>1, <2>3, <3>1, <3>2
  <2> QED  BY <1>1, <2>2, <2>3
<1>7. t \in Seq(S) /\ Len(t) = Len(s) - k  BY <1>4, <1>5
<1> QED  BY <1>6, <1>7 DEF t, p, q, Cut

(* What erasing n bytes at pos leaves in use. *)
Left(b, pos, n) == IF n >= size[b] - pos THEN pos ELSE size[b] - n

(* erase: the buffer is left with its string cut. *)
LEMMA EraseCuts ==
    ASSUME BufferTypeOK, NEW b \in Buffers, NEW pos \in Nat, pos <= size[b], NEW n \in Nat,
           NEW hold \in BOOLEAN, EraseFrom(b, pos, n, hold),
           m_pos' \in [Buffers -> Nat \cup {None}],
           \A c \in Buffers \ {b} : m_pos'[c] = m_pos[c],
           m_pos'[b] # None => m_pos'[b] <= Left(b, pos, n)
    PROVE  BufferTypeOK' /\ Promise!Cut(b, pos, n)
<1> USE BufferAssumption
<1> DEFINE k == IF n >= size[b] - pos THEN size[b] - pos ELSE n
           left == Left(b, pos, n)
           t == Cut(bytes[b], pos, k)
<1>1. /\ size[b] \in 0..Capacity(b) /\ Capacity(b) \in Nat /\ block[b] \in 0..MaxBlocks
      /\ data[b] \in Seq(Mem) /\ Len(data[b]) = Capacity(b)
      /\ bytes[b] \in Seq(Mem) /\ Len(bytes[b]) = size[b]
      /\ \A i \in 1..size[b] : bytes[b][i] = data[b][i]
  BY BufferFacts
<1>2. k \in 0..(size[b] - pos) /\ left = size[b] - k /\ left \in Nat /\ left <= size[b]
  BY <1>1 DEF Left
<1>3. left = pos => k = size[b] - pos  BY <1>1, <1>2
<1>4. left # pos => k = n  BY <1>1, <1>2 DEF Left
<1>9. Cut(bytes[b], pos, k) = Cut(bytes[b], pos, n)
  <2>1. CASE k = n  BY <2>1
  <2>2. CASE k # n
    <3>1. k = size[b] - pos /\ n >= size[b] - pos  BY <2>2
    <3>2. /\ pos + k + 1 \in Int /\ pos + n + 1 \in Int /\ Len(bytes[b]) \in Int
          /\ pos + k + 1 > Len(bytes[b]) /\ pos + n + 1 > Len(bytes[b])
      BY <3>1, <1>1
    <3> HIDE DEF k
    <3>3. /\ SubSeq(bytes[b], pos + k + 1, Len(bytes[b])) = <<>>
          /\ SubSeq(bytes[b], pos + n + 1, Len(bytes[b])) = <<>>
      BY <3>2, SubSeqEmpty
    <3> QED  BY <3>3 DEF Cut
  <2> QED  BY <2>1, <2>2
<1> HIDE DEF k
<1>5. /\ t \in Seq(Mem) /\ Len(t) = left
      /\ \A i \in 1..left : t[i] = IF i <= pos THEN bytes[b][i] ELSE bytes[b][i + k]
  <2>1. pos \in 0..Len(bytes[b]) /\ k \in 0..(Len(bytes[b]) - pos) /\ left = Len(bytes[b]) - k
    BY <1>1, <1>2
  <2> HIDE DEF left
  <2>2. /\ t \in Seq(Mem) /\ Len(t) = Len(bytes[b]) - k
        /\ \A i \in 1..(Len(bytes[b]) - k) : t[i] = IF i <= pos THEN bytes[b][i] ELSE bytes[b][i + k]
    <3>1. bytes[b] \in Seq(Mem)  BY <1>1
    <3> QED  BY ONLY <2>1, <3>1, CutFacts, Zenon DEF t
  <2> QED  BY <2>1, <2>2
<1> HIDE DEF t
<1>6. /\ size' = [size EXCEPT ![b] = left] /\ result' = "ok"
      /\ IF left = 0 /\ ~hold THEN Free(b)
         ELSE /\ data' = [data EXCEPT ![b] = IF left = pos THEN @ ELSE Closed(b, pos, n)]
              /\ UNCHANGED <<block, total, peak>>
  BY DEF EraseFrom, Left
<1> HIDE DEF left
<1>7. CASE left = 0 /\ ~hold
  <2>1. Becomes(b, <<>>, left, 0)
    <3>1. <<>> \in Seq(Mem) /\ Len(<<>>) = 0 * BlockSize  BY EmptySeq
    <3>2. data' = [data EXCEPT ![b] = <<>>] /\ block' = [block EXCEPT ![b] = 0]
      BY <1>6, <1>7 DEF Free
    <3> QED  BY <1>2, <1>6, <1>7, <3>1, <3>2 DEF Becomes, left
  <2>2. BufferTypeOK' /\ Room' = [Room EXCEPT ![b] = 0 * BlockSize]
        /\ bytes' = [bytes EXCEPT ![b] = t]
    <3>1. \A i \in 1..left : t[i] = <<>>[i]  BY <1>7
    <3> QED  BY <1>5, <2>1, <3>1, StepKeeps
  <2>3. t = <<>>  BY <1>5, <1>7, EmptySeq
  <2>4. Promise!Cut(b, pos, n)
    <3>1. 0 * BlockSize = 0  OBVIOUS
    <3>2. t = Cut(bytes[b], pos, n)  BY <1>9 DEF t
    <3> QED  BY <1>6, <2>2, <2>3, <3>1, <3>2 DEF Promise!Cut, Room, Cut
  <2> QED  BY <2>2, <2>4
<1>8. CASE ~(left = 0 /\ ~hold)
  <2> DEFINE m == IF left = pos THEN data[b] ELSE Closed(b, pos, n)
  <2>1. /\ data' = [data EXCEPT ![b] = m] /\ block' = [block EXCEPT ![b] = block[b]]
    BY <1>6, <1>8 DEF BufferTypeOK
  <2>2. m \in Seq(Mem) /\ Len(m) = Capacity(b) /\ \A i \in 1..left : t[i] = m[i]
    <3>1. CASE left = pos
      <4>1. \A i \in 1..left : t[i] = bytes[b][i]  BY <3>1, <1>1, <1>5
      <4>2. \A i \in 1..left : bytes[b][i] = data[b][i]  BY <1>1, <1>2
      <4> QED  BY <3>1, <4>1, <4>2, <1>1
    <3>2. CASE left # pos
      <4>1. k = n /\ left = size[b] - n  BY <3>2, <1>2, <1>4
      <4>2. DOMAIN data[b] = 1..Capacity(b) /\ \A i \in 1..Capacity(b) : data[b][i] \in Mem
        BY <1>1, SeqIsFunction
      <4>3. Closed(b, pos, n) \in [1..Capacity(b) -> Mem]
        BY <1>1, <4>2 DEF Closed
      <4>4. m \in Seq(Mem) /\ Len(m) = Capacity(b)
        BY <3>2, <4>3, <1>1, FunctionIsSeq
      <4>5. ASSUME NEW i \in 1..left  PROVE t[i] = m[i]
        <5>1. m[i] = IF i \in (pos + 1)..(size[b] - n) THEN data[b][i + n] ELSE data[b][i]
          BY <3>2, <4>2, <1>1, <1>2 DEF Closed
        <5>2. t[i] = IF i <= pos THEN bytes[b][i] ELSE bytes[b][i + n]  BY <1>5, <4>1
        <5>3. i \in 1..size[b] /\ i + n \in 1..size[b]  BY <4>1, <1>1, <1>2
        <5> QED  BY <1>1, <4>1, <5>1, <5>2, <5>3
      <4> QED  BY <4>4, <4>5
    <3> QED  BY <3>1, <3>2
  <2> HIDE DEF m
  <2>3. Becomes(b, m, left, block[b])
    <3>1. Len(m) = block[b] * BlockSize /\ left <= Len(m)  BY <1>1, <1>2, <2>2 DEF Capacity
    <3> QED  BY <1>1, <1>2, <1>6, <2>1, <2>2, <3>1 DEF Becomes, left
  <2>4. BufferTypeOK' /\ bytes' = [bytes EXCEPT ![b] = t]
    BY <1>5, <2>2, <2>3, StepKeeps
  <2>5. Room' = Room  BY <1>6, <1>8 DEF Room, Capacity
  <2>6. Promise!Cut(b, pos, n)
    <3>1. t = Cut(bytes[b], pos, n)  BY <1>9 DEF t
    <3> QED  BY <1>6, <2>4, <2>5, <3>1 DEF Promise!Cut, Room, Cut
  <2> QED  BY <2>4, <2>6
<1> QED  BY <1>7, <1>8

-----------------------------------------------------------------------------
(* Each operation keeps the types and is an operation on the string. *)

(* The types are kept, and the step is one of the strings. *)
Keeps == BufferTypeOK' /\ [Promise!Next]_(Promise!vars)

(* What is put into a buffer may stand in its memory. *)
LEMMA StringsAreBytes == Strings \subseteq Seq(Mem)
BY BufferAssumption, SeqMonotonic DEF Mem

(* append keeps the types and is AppendTo of the string. *)
LEMMA AppendToKeeps ==
    ASSUME BufferTypeOK, NEW b \in Buffers, NEW s \in Strings, AppendTo(b, s)
    PROVE  Keeps
<1>1. size[b] \in Nat /\ Len(bytes[b]) = size[b]  BY BufferFacts
<1>2. m_pos' = m_pos /\ (m_pos[b] # None => m_pos[b] <= size[b]) /\ AppendAt(b, size[b], s)
  BY DEF AppendTo, BufferTypeOK
<1>3. BufferTypeOK' /\ Promise!Extend(b, size[b], s)
  BY <1>1, <1>2, StringsAreBytes, AppendExtends
<1>4. Promise!AppendTo(b, s)  BY <1>1, <1>3 DEF Promise!AppendTo
<1> QED  BY <1>2, <1>3, <1>4 DEF Keeps, Promise!Next, Promise!Change

(* resize is Resize of the string, to any size. *)
LEMMA ResizeIs ==
    ASSUME BufferTypeOK, NEW b \in Buffers, NEW n \in Nat, Resize(b, n)
    PROVE  BufferTypeOK' /\ Promise!Resize(b, n)
<1> USE BufferAssumption
<1>0. m_pos' = m_pos /\ m_pos[b] = None  BY DEF Resize, Direct
<1>1. /\ size[b] \in 0..Capacity(b) /\ Capacity(b) \in Nat /\ block[b] \in 0..MaxBlocks
      /\ data[b] \in Seq(Mem) /\ Len(data[b]) = Capacity(b)
      /\ bytes[b] \in Seq(Mem) /\ Len(bytes[b]) = size[b]
      /\ \A i \in 1..size[b] : bytes[b][i] = data[b][i]
  BY BufferFacts
<1>2. CASE n > size[b]
  <2> DEFINE zeros == [i \in 1..(n - size[b]) |-> 0]
  <2>1. zeros \in Seq(Mem)
    <3>1. n - size[b] \in Nat /\ zeros \in [1..(n - size[b]) -> Mem]  BY <1>0, <1>1, <1>2 DEF Mem
    <3> QED  BY <3>1, FunctionIsSeq
  <2>2. AppendAt(b, size[b], zeros)  BY <1>2 DEF Resize
  <2> HIDE DEF zeros
  <2>3. BufferTypeOK' /\ Promise!Extend(b, size[b], zeros)
    BY <1>0, <1>1, <2>1, <2>2, AppendExtends
  <2>4. Promise!Resize(b, n)
    BY <1>1, <1>2, <2>3 DEF Promise!Resize, Promise!AppendTo, zeros
  <2> QED  BY <2>3, <2>4
<1>3. CASE ~(n > size[b])
  <2>1. size' = [size EXCEPT ![b] = n] /\ result' = "ok" /\ UNCHANGED <<data, block>>
    BY <1>3 DEF Resize
  <2>2. Becomes(b, data[b], n, block[b])
    <3>1. Len(data[b]) = block[b] * BlockSize /\ n <= Len(data[b])  BY <1>0, <1>1, <1>3 DEF Capacity
    <3> QED  BY <1>0, <1>1, <2>1, <3>1 DEF Becomes, BufferTypeOK
  <2>3. /\ SubSeq(bytes[b], 1, n) \in Seq(Mem) /\ Len(SubSeq(bytes[b], 1, n)) = n
        /\ \A i \in 1..n : SubSeq(bytes[b], 1, n)[i] = data[b][i]
    <3>1. n \in 0..Len(bytes[b]) /\ \A i \in 1..n : i \in 1..size[b]  BY <1>0, <1>1, <1>3
    <3> QED  BY <3>1, <1>1, PrefixFacts
  <2>4. BufferTypeOK' /\ bytes' = [bytes EXCEPT ![b] = SubSeq(bytes[b], 1, n)]
    BY <2>2, <2>3, StepKeeps
  <2>5. Room' = Room  BY <2>1 DEF Room, Capacity
  <2>6. Promise!Resize(b, n)  BY <1>1, <1>3, <2>1, <2>4, <2>5 DEF Promise!Resize, Room
  <2> QED  BY <2>4, <2>6
<1> QED  BY <1>2, <1>3

(* resize keeps the types and is a step of the string. *)
LEMMA ResizeKeeps ==
    ASSUME BufferTypeOK, NEW b \in Buffers, NEW n \in Lengths, Resize(b, n)
    PROVE  Keeps
<1>1. n \in Nat  BY BufferAssumption
<1>2. m_pos' = m_pos /\ m_pos[b] = None  BY DEF Resize, Direct
<1>3. BufferTypeOK' /\ Promise!Resize(b, n)  BY <1>1, ResizeIs
<1> QED  BY <1>2, <1>3 DEF Keeps, Promise!Next, Promise!Change

(* reserve keeps the types and is Reserve of the string. *)
LEMMA ReserveKeeps ==
    ASSUME BufferTypeOK, NEW b \in Buffers, NEW n \in Lengths, Reserve(b, n)
    PROVE  Keeps
<1> USE BufferAssumption
<1> DEFINE missing == IF n <= Capacity(b) THEN 0 ELSE n - Capacity(b)
<1>1. /\ size[b] \in 0..Capacity(b) /\ Capacity(b) \in Nat /\ block[b] \in 0..MaxBlocks
      /\ data[b] \in Seq(Mem) /\ Len(data[b]) = Capacity(b)
      /\ bytes[b] \in Seq(Mem) /\ Len(bytes[b]) = size[b]
      /\ \A i \in 1..size[b] : bytes[b][i] = data[b][i]
  BY BufferFacts
<1>2. missing \in Nat /\ size[b] \in Nat /\ size[b] <= size[b]  BY <1>1
<1>3. missing = IF n <= Room[b] THEN 0 ELSE n - Room[b]  BY DEF Room
<1>4. Increase(b, size[b], missing, <<>>) \/ CannotIncrease(b, size[b], missing)
  BY DEF Reserve
<1>5. size' = size /\ m_pos' = m_pos  BY DEF Reserve
<1>6. bytes \in [Buffers -> Seq(Mem)]  BY BufferFacts DEF bytes
<1> HIDE DEF missing
<1>7. CASE Increase(b, size[b], missing, <<>>)
  <2> DEFINE new == NewBlock(b, size[b], missing)
  <2>1. <<>> \in Seq(Mem) /\ Len(<<>>) = 0 /\ Len(<<>>) <= missing  BY <1>2, EmptySeq
  <2>2. /\ new \in 0..MaxBlocks /\ block' = [block EXCEPT ![b] = new] /\ result' = "ok"
        /\ \E m : Filled(b, size[b], missing, <<>>, m)
    BY <1>2, <1>7, <2>1, IncreaseMemory
  <2>3. PICK m : Filled(b, size[b], missing, <<>>, m)  BY <2>2
  <2>4. /\ m \in Seq(Mem) /\ data' = [data EXCEPT ![b] = m]
        /\ Len(m) = new * BlockSize /\ size[b] + missing <= Len(m)
        /\ \A i \in 1..size[b] : m[i] = data[b][i]
    BY <2>3 DEF Filled
  <2> HIDE DEF new
  <2>5. Becomes(b, m, size[b], new)
    <3>1. Len(m) \in Nat /\ size[b] <= Len(m)  BY <1>2, <2>4, SeqIsFunction
    <3>2. size' = [size EXCEPT ![b] = size[b]]  BY <1>5 DEF BufferTypeOK
    <3> QED  BY <1>2, <1>5, <2>2, <2>4, <3>1, <3>2 DEF Becomes, BufferTypeOK
  <2>6. /\ BufferTypeOK' /\ Room' = [Room EXCEPT ![b] = new * BlockSize]
        /\ bytes' = [bytes EXCEPT ![b] = bytes[b]]
    BY <1>1, <2>4, <2>5, StepKeeps
  <2>7. bytes' = bytes  BY <1>6, <2>6
  <2>8. Promise!Granted(b, size[b] + missing)
    BY <1>2, <1>7, <2>6, IncreaseGrants DEF new
  <2>9. Promise!Reserve(b, n)  BY <1>1, <1>3, <2>7, <2>8 DEF Promise!Reserve, Room
  <2> QED  BY <1>5, <2>6, <2>9 DEF Keeps, Promise!Next, Promise!Change
<1>8. CASE CannotIncrease(b, size[b], missing)
  <2>1. /\ result' \in {"full", "nomem"} /\ UNCHANGED <<data, block>>
    BY <1>8 DEF CannotIncrease
  <2>2. BufferTypeOK' /\ bytes' = bytes
    BY <1>5, <2>1 DEF BufferTypeOK, Capacity, bytes
  <2>3. Promise!Refused(b, size[b] + missing)  BY <1>2, <1>8, CannotIncreaseRefuses
  <2>4. Promise!Reserve(b, n)  BY <1>1, <1>3, <2>2, <2>3 DEF Promise!Reserve, Room
  <2> QED  BY <1>5, <2>2, <2>4 DEF Keeps, Promise!Next, Promise!Change
<1> QED  BY <1>4, <1>7, <1>8

(* A string put into the middle of another. *)
Splice(s, pos, u) == SubSeq(s, 1, pos) \o u \o SubSeq(s, pos + Len(u) + 1, Len(s))

(* What a string is after u was written over it at pos. *)
LEMMA SpliceFacts ==
    ASSUME NEW S, NEW s \in Seq(S), NEW u \in Seq(S), NEW pos \in Nat, pos + Len(u) <= Len(s)
    PROVE  /\ Splice(s, pos, u) \in Seq(S) /\ Len(Splice(s, pos, u)) = Len(s)
           /\ \A i \in 1..Len(s) : Splice(s, pos, u)[i] =
                 IF i \in (pos + 1)..(pos + Len(u)) THEN u[i - pos] ELSE s[i]
<1> DEFINE p == SubSeq(s, 1, pos)  q == SubSeq(s, pos + Len(u) + 1, Len(s))  pu == p \o u
           t == pu \o q
<1>1. /\ Len(s) \in Nat /\ Len(u) \in Nat /\ pos \in 0..Len(s)
      /\ \A i \in 1..Len(s) : s[i] \in S
  BY SeqIsFunction
<1>2. p \in Seq(S) /\ Len(p) = pos /\ \A i \in 1..pos : p[i] = s[i]
  BY <1>1, PrefixFacts
<1>3. /\ q \in Seq(S) /\ Len(q) = Len(s) - (pos + Len(u))
      /\ \A i \in 1..(Len(s) - (pos + Len(u))) : q[i] = s[pos + Len(u) + i]
  <2>1. /\ pos + Len(u) + 1 \in Int /\ Len(s) \in Int
        /\ \A i \in (pos + Len(u) + 1)..Len(s) : s[i] \in S
    BY <1>1
  <2>2. /\ q \in Seq(S)
        /\ Len(q) = IF pos + Len(u) + 1 <= Len(s) THEN Len(s) - (pos + Len(u) + 1) + 1 ELSE 0
        /\ \A i \in 1..(Len(s) - (pos + Len(u) + 1) + 1) : q[i] = s[pos + Len(u) + 1 + i - 1]
    BY <2>1, SubSeqProperties
  <2> HIDE DEF q
  <2>3. ASSUME NEW i \in 1..(Len(s) - (pos + Len(u)))  PROVE q[i] = s[pos + Len(u) + i]
    <3>1. i \in 1..(Len(s) - (pos + Len(u) + 1) + 1) /\ pos + Len(u) + 1 + i - 1 = pos + Len(u) + i
      BY <1>1
    <3> QED  BY <3>1, <2>2
  <2> QED  BY <1>1, <2>2, <2>3
<1> HIDE DEF p, q
<1>4. /\ pu \in Seq(S) /\ Len(pu) = pos + Len(u)
      /\ \A i \in 1..(pos + Len(u)) : pu[i] = IF i <= pos THEN p[i] ELSE u[i - pos]
  BY <1>2, ConcatProperties
<1> HIDE DEF pu
<1>5. /\ t \in Seq(S) /\ Len(t) = Len(pu) + Len(q)
      /\ \A i \in 1..(Len(pu) + Len(q)) : t[i] = IF i <= Len(pu) THEN pu[i] ELSE q[i - Len(pu)]
  <2>1. pu \in Seq(S) /\ q \in Seq(S)  BY <1>3, <1>4
  <2> QED  BY ONLY <2>1, ConcatProperties, Zenon DEF t
<1> HIDE DEF t
<1>6. Len(pu) + Len(q) = Len(s)  BY <1>1, <1>3, <1>4
<1>7. ASSUME NEW i \in 1..Len(s)
      PROVE  t[i] = IF i \in (pos + 1)..(pos + Len(u)) THEN u[i - pos] ELSE s[i]
  <2>1. t[i] = IF i <= pos + Len(u) THEN pu[i] ELSE q[i - (pos + Len(u))]
    BY <1>4, <1>5, <1>6
  <2>2. CASE i <= pos
    <3>1. i \in 1..pos /\ i \in 1..(pos + Len(u)) /\ i <= pos + Len(u) /\ i \notin (pos + 1)..(pos + Len(u))
      BY <1>1, <2>2
    <3>2. pu[i] = p[i] /\ p[i] = s[i]  BY <2>2, <3>1, <1>2, <1>4
    <3> QED  BY <2>1, <3>1, <3>2
  <2>3. CASE i > pos /\ i <= pos + Len(u)
    <3>1. i \in 1..(pos + Len(u)) /\ i \in (pos + 1)..(pos + Len(u)) /\ ~(i <= pos)
      BY <1>1, <2>3
    <3>2. pu[i] = u[i - pos]  BY <3>1, <1>4
    <3> QED  BY <2>1, <2>3, <3>1, <3>2
  <2>4. CASE i > pos + Len(u)
    <3>1. /\ i - (pos + Len(u)) \in 1..(Len(s) - (pos + Len(u)))
          /\ pos + Len(u) + (i - (pos + Len(u))) = i
          /\ i \notin (pos + 1)..(pos + Len(u)) /\ ~(i <= pos + Len(u))
      BY <1>1, <2>4
    <3>2. q[i - (pos + Len(u))] = s[pos + Len(u) + (i - (pos + Len(u)))]  BY <3>1, <1>3
    <3> QED  BY <2>1, <3>1, <3>2
  <2> QED  BY <1>1, <2>2, <2>3, <2>4
<1>8. t \in Seq(S) /\ Len(t) = Len(s)  BY <1>5, <1>6
<1> QED  BY <1>7, <1>8 DEF t, pu, p, q, Splice

(* replace is Replace of the string, at any position. *)
LEMMA ReplaceIs ==
    ASSUME BufferTypeOK, NEW b \in Buffers, NEW pos \in Nat, NEW s \in Strings, Replace(b, pos, s)
    PROVE  BufferTypeOK' /\ Promise!Replace(b, pos, s)
<1>0. m_pos' = m_pos /\ m_pos[b] = None /\ s \in Seq(Mem)
  BY StringsAreBytes DEF Replace, Direct
<1>1. /\ size[b] \in 0..Capacity(b) /\ Capacity(b) \in Nat /\ block[b] \in 0..MaxBlocks
      /\ data[b] \in Seq(Mem) /\ Len(data[b]) = Capacity(b)
      /\ bytes[b] \in Seq(Mem) /\ Len(bytes[b]) = size[b]
      /\ \A i \in 1..size[b] : bytes[b][i] = data[b][i]
  BY BufferFacts
<1>2. Len(s) \in Nat  BY <1>0, SeqIsFunction
<1>3. CASE pos >= size[b] /\ AppendAt(b, size[b], s)
  <2>1. BufferTypeOK' /\ Promise!Extend(b, size[b], s)
    BY <1>0, <1>1, <1>3, AppendExtends
  <2>2. Promise!Replace(b, pos, s)
    BY <1>1, <1>3, <2>1 DEF Promise!Replace, Promise!AppendTo
  <2> QED  BY <2>1, <2>2
<1>4. CASE pos < size[b] /\ pos + Len(s) >= size[b] /\ AppendAt(b, pos, s)
  <2>1. pos <= size[b] /\ ~(pos >= size[b])  BY <1>0, <1>1, <1>4
  <2>2. BufferTypeOK' /\ Promise!Extend(b, pos, s)
    BY <1>0, <1>4, <2>1, AppendExtends
  <2>3. Promise!Replace(b, pos, s)
    BY <1>1, <1>4, <2>1, <2>2 DEF Promise!Replace
  <2> QED  BY <2>2, <2>3
<1>5. CASE /\ pos + Len(s) < size[b]
           /\ data' = [data EXCEPT ![b] = Written(@, pos, s)]
           /\ result' = "ok"
           /\ UNCHANGED <<size, block, total, peak>>
  <2> DEFINE m == Written(data[b], pos, s)
             t == Splice(bytes[b], pos, s)
  <2>1. pos + Len(s) <= Len(data[b]) /\ pos + Len(s) <= Len(bytes[b])  BY <1>0, <1>1, <1>2, <1>5
  <2>2. /\ m \in Seq(Mem) /\ Len(m) = Len(data[b])
        /\ \A i \in 1..Len(data[b]) : m[i] =
              IF i \in (pos + 1)..(pos + Len(s)) THEN s[i - pos] ELSE data[b][i]
    BY <1>0, <1>1, <2>1, WrittenFacts
  <2>3. /\ t \in Seq(Mem) /\ Len(t) = Len(bytes[b])
        /\ \A i \in 1..Len(bytes[b]) : t[i] =
              IF i \in (pos + 1)..(pos + Len(s)) THEN s[i - pos] ELSE bytes[b][i]
    <3>1. bytes[b] \in Seq(Mem) /\ s \in Seq(Mem) /\ pos \in Nat  BY <1>0, <1>1
    <3> HIDE DEF m
    <3>2. /\ Splice(bytes[b], pos, s) \in Seq(Mem)
          /\ Len(Splice(bytes[b], pos, s)) = Len(bytes[b])
      BY ONLY <2>1, <3>1, SpliceFacts, SMTT(60)
    <3>3. \A i \in 1..Len(bytes[b]) : Splice(bytes[b], pos, s)[i] =
              IF i \in (pos + 1)..(pos + Len(s)) THEN s[i - pos] ELSE bytes[b][i]
      BY ONLY <2>1, <3>1, SpliceFacts, SMTT(60)
    <3> QED  BY <3>2, <3>3 DEF t
  <2> HIDE DEF m, t
  <2>4. Becomes(b, m, size[b], block[b])
    <3>1. /\ data' = [data EXCEPT ![b] = m] /\ size' = [size EXCEPT ![b] = size[b]]
          /\ block' = [block EXCEPT ![b] = block[b]]
      BY <1>5 DEF BufferTypeOK, m
    <3>2. Len(m) = block[b] * BlockSize /\ size[b] <= Len(m)  BY <1>1, <2>2 DEF Capacity
    <3> QED  BY <1>0, <1>1, <1>5, <2>2, <3>1, <3>2 DEF Becomes, BufferTypeOK
  <2>5. \A i \in 1..size[b] : t[i] = m[i]
    <3> SUFFICES ASSUME NEW i \in 1..size[b]  PROVE t[i] = m[i]  OBVIOUS
    <3>1. i \in 1..Len(data[b]) /\ i \in 1..Len(bytes[b]) /\ bytes[b][i] = data[b][i]  BY <1>1
    <3> QED  BY <2>2, <2>3, <3>1
  <2>6. BufferTypeOK' /\ bytes' = [bytes EXCEPT ![b] = t]
    BY <1>1, <2>3, <2>4, <2>5, StepKeeps
  <2>7. Room' = Room  BY <1>5 DEF Room, Capacity
  <2>8. ~(pos >= Len(bytes[b])) /\ ~(pos + Len(s) >= Len(bytes[b]))  BY <1>0, <1>1, <1>2, <1>5
  <2>9. Promise!Replace(b, pos, s)
    BY <1>5, <2>6, <2>7, <2>8 DEF Promise!Replace, Room, t, Splice
  <2> QED  BY <2>6, <2>9
<1> QED  BY <1>3, <1>4, <1>5 DEF Replace

(* replace keeps the types and is a step of the string. *)
LEMMA ReplaceKeeps ==
    ASSUME BufferTypeOK, NEW b \in Buffers, NEW pos \in Lengths, NEW s \in Strings, Replace(b, pos, s)
    PROVE  Keeps
<1>1. pos \in Nat  BY BufferAssumption
<1>2. m_pos' = m_pos /\ m_pos[b] = None  BY DEF Replace, Direct
<1>3. BufferTypeOK' /\ Promise!Replace(b, pos, s)  BY <1>1, ReplaceIs
<1> QED  BY <1>2, <1>3 DEF Keeps, Promise!Next, Promise!Change

(* A destroyed buffer is an empty string. *)
LEMMA DestroyKeeps ==
    ASSUME BufferTypeOK, NEW b \in Buffers, Destroy(b)
    PROVE  Keeps
<1> USE BufferAssumption
<1>1. /\ data' = [data EXCEPT ![b] = <<>>] /\ block' = [block EXCEPT ![b] = 0]
      /\ size' = [size EXCEPT ![b] = 0] /\ result' = "ok" /\ m_pos' = m_pos /\ m_pos[b] = None
  BY DEF Destroy, Free, Direct
<1>2. <<>> \in Seq(Mem) /\ Len(<<>>) = 0 /\ 0 * BlockSize = 0  BY EmptySeq
<1>3. Becomes(b, <<>>, 0, 0)  BY <1>1, <1>2 DEF Becomes, BufferTypeOK
<1>4. BufferTypeOK' /\ Room' = [Room EXCEPT ![b] = 0 * BlockSize]  BY <1>3, StepKeeps
<1>5. bytes' = [bytes EXCEPT ![b] = <<>>]
  <2>1. \A i \in 1..0 : <<>>[i] = <<>>[i]  OBVIOUS
  <2> QED  BY <1>2, <1>3, <2>1, StepKeeps
<1>6. Promise!Destroy(b)  BY <1>1, <1>2, <1>4, <1>5 DEF Promise!Destroy, Room
<1> QED  BY <1>1, <1>4, <1>6 DEF Keeps, Promise!Next, Promise!Change

(* A ForwardBuffer that only moves leaves the buffer alone. *)
LEMMA MovesKeep ==
    ASSUME BufferTypeOK, NEW b \in Buffers, NEW pos \in Nat \cup {None},
           UNCHANGED <<data, size, block, result>>, m_pos' = [m_pos EXCEPT ![b] = pos],
           pos # None => pos <= size[b]
    PROVE  BufferTypeOK' /\ Promise!Moves(b, pos)
<1>1. m_pos \in [Buffers -> Nat \cup {None}]  BY DEF BufferTypeOK
<1>2. BufferTypeOK'
  <2>1. m_pos' \in [Buffers -> Nat \cup {None}]  BY <1>1
  <2> SUFFICES ASSUME NEW c \in Buffers, m_pos'[c] # None  PROVE m_pos'[c] <= size[c]
    BY <2>1 DEF BufferTypeOK, Capacity
  <2>2. CASE c = b  BY <1>1, <2>2
  <2>3. CASE c # b  BY <1>1, <2>3 DEF BufferTypeOK
  <2> QED  BY <2>2, <2>3
<1>3. Promise!Moves(b, pos)  BY DEF Promise!Moves, bytes, Capacity
<1> QED  BY <1>2, <1>3

(* Everything a client cuts off, and everything a ForwardBuffer does, is a step
   of the string; a ForwardBuffer that goes cuts what it has passed. *)
LEMMA ConsumeKeeps ==
    ASSUME BufferTypeOK, NEW b \in Buffers, Consume(b, Lengths)
    PROVE  Keeps
<1> USE BufferAssumption
<1>1. /\ m_pos \in [Buffers -> Nat \cup {None}] /\ size[b] \in Nat /\ Len(bytes[b]) = size[b]
      /\ m_pos[b] # None => m_pos[b] \in Nat /\ m_pos[b] <= size[b]
  BY BufferFacts DEF BufferTypeOK
<1>2. ASSUME NEW pos \in Lengths, NEW n \in Lengths, NEW hold \in BOOLEAN, Erase(b, pos, n, hold)
      PROVE  Keeps
  <2>1. /\ pos \in Nat /\ n \in Nat /\ pos <= size[b] /\ EraseFrom(b, pos, n, hold)
        /\ m_pos' = m_pos /\ m_pos[b] = None
    BY <1>2 DEF Erase, Direct
  <2>2. BufferTypeOK' /\ Promise!Cut(b, pos, n)  BY <1>1, <2>1, EraseCuts
  <2>3. Promise!Change(b)  BY <1>1, <2>1, <2>2 DEF Promise!Change
  <2> QED  BY <2>2, <2>3 DEF Keeps, Promise!Next
<1>3. CASE Forward(b)
  <2>1. /\ UNCHANGED <<data, size, block, result>> /\ m_pos' = [m_pos EXCEPT ![b] = 0]
        /\ m_pos[b] = None
    BY <1>3 DEF Forward, Direct
  <2>2. 0 \in Nat \cup {None} /\ (0 # None => 0 <= size[b])  BY <1>1
  <2>3. BufferTypeOK' /\ Promise!Moves(b, 0)  BY <2>1, <2>2, MovesKeep
  <2>4. Promise!Open(b)  BY <2>1, <2>3 DEF Promise!Open
  <2> QED  BY <2>3, <2>4 DEF Keeps, Promise!Next
<1>4. CASE ForwardRelease(b)
  <2>1. /\ UNCHANGED <<data, size, block, result>> /\ m_pos' = [m_pos EXCEPT ![b] = None]
        /\ m_pos[b] # None
    BY <1>4 DEF ForwardRelease, Direct
  <2>2. BufferTypeOK' /\ Promise!Moves(b, None)  BY <2>1, MovesKeep
  <2>3. Promise!Read(b)  BY <2>1, <2>2 DEF Promise!Read, Promise!Release
  <2> QED  BY <2>2, <2>3 DEF Keeps, Promise!Next
<1>5. CASE ForwardDestroy(b)
  <2>1. EraseFrom(b, 0, m_pos[b], FALSE) /\ m_pos' = [m_pos EXCEPT ![b] = None]
        /\ m_pos[b] # None
    BY <1>5 DEF ForwardDestroy, Direct
  <2>2. m_pos' \in [Buffers -> Nat \cup {None}] /\ m_pos'[b] = None /\ m_pos[b] \in Nat /\ 0 <= size[b]
        /\ \A c \in Buffers \ {b} : m_pos'[c] = m_pos[c]
    BY <1>1, <2>1
  <2>3. PICK n \in Nat : n = m_pos[b]  BY <2>2
  <2>4. EraseFrom(b, 0, n, FALSE) /\ (m_pos'[b] # None => m_pos'[b] <= Left(b, 0, n))
    BY <2>1, <2>2, <2>3
  <2>5. BufferTypeOK' /\ Promise!Cut(b, 0, n)  BY <2>2, <2>4, EraseCuts
  <2>6. Promise!Close(b)  BY <2>1, <2>3, <2>5 DEF Promise!Close
  <2>7. Promise!Read(b)  BY <2>1, <2>6 DEF Promise!Read
  <2> QED  BY <2>5, <2>7 DEF Keeps, Promise!Next
<1>6. ASSUME NEW pos \in Lengths, NEW n \in Lengths, ForwardErase(b, pos, n)
      PROVE  Keeps
  <2>1. pos \in Nat /\ n \in Nat /\ m_pos[b] # None /\ m_pos[b] \in Nat /\ m_pos[b] + pos \in Nat
        /\ m_pos[b] + pos <= size[b]
    BY <1>1, <1>6 DEF ForwardErase, Direct
  <2>2. CASE /\ pos = 0 /\ m_pos[b] + n <= size[b]
             /\ m_pos' = [m_pos EXCEPT ![b] = @ + n]
             /\ UNCHANGED <<data, size, block, total, peak, result>>
    <3>1. PICK at \in Nat : at = m_pos[b] + n  BY <2>1
    <3>2. m_pos' = [m_pos EXCEPT ![b] = at] /\ at <= size[b]  BY <2>2, <3>1
    <3>3. BufferTypeOK' /\ Promise!Moves(b, at)  BY <2>2, <3>2, MovesKeep
    <3>4. Promise!Pass(b, n)  BY <1>1, <2>2, <3>1, <3>3 DEF Promise!Pass
    <3>5. Promise!Read(b)  BY <2>1, <3>4 DEF Promise!Read
    <3> QED  BY <3>3, <3>5 DEF Keeps, Promise!Next
  <2>3. CASE pos > 0 /\ EraseFrom(b, m_pos[b] + pos, n, FALSE) /\ UNCHANGED m_pos
    <3>1. PICK at \in Nat : at = m_pos[b] + pos  BY <2>1
    <3>2. /\ at <= size[b] /\ EraseFrom(b, at, n, FALSE) /\ m_pos' = m_pos
          /\ m_pos' \in [Buffers -> Nat \cup {None}]
          /\ \A c \in Buffers \ {b} : m_pos'[c] = m_pos[c]
      <4>1. EraseFrom(b, at, n, FALSE)  BY <2>3, <3>1
      <4> QED  BY <1>1, <2>1, <2>3, <3>1, <4>1
    <3>6. m_pos'[b] # None => m_pos'[b] <= Left(b, at, n)
      BY <1>1, <2>1, <3>1, <3>2 DEF Left
    <3>3. BufferTypeOK' /\ Promise!Cut(b, at, n)  BY <2>1, <3>2, <3>6, EraseCuts
    <3>4. Promise!CutAhead(b, pos, n)
      BY <1>1, <2>1, <2>3, <3>1, <3>3 DEF Promise!CutAhead
    <3>5. Promise!Read(b)  BY <2>1, <3>4 DEF Promise!Read
    <3> QED  BY <3>3, <3>5 DEF Keeps, Promise!Next
  <2> QED  BY <1>6, <2>2, <2>3 DEF ForwardErase
<1> QED  BY <1>2, <1>3, <1>4, <1>5, <1>6 DEF Consume

-----------------------------------------------------------------------------
(* Every step keeps the types and is a step of the string. *)
LEMMA StepKeepsAll ==
    ASSUME BufferTypeOK, [BufferNext]_bufferVars
    PROVE  Keeps
<1>1. CASE UNCHANGED bufferVars
  BY <1>1 DEF Keeps, bufferVars, BufferTypeOK, Promise!vars, bytes, Capacity
<1>2. ASSUME NEW b \in Buffers, Grow(b, Strings, Lengths)  PROVE Keeps
  BY <1>2, AppendToKeeps, ResizeKeeps, ReserveKeeps, ReplaceKeeps, DestroyKeeps DEF Grow
<1>3. ASSUME NEW b \in Buffers, Consume(b, Lengths)  PROVE Keeps
  BY <1>3, ConsumeKeeps
<1> QED  BY <1>1, <1>2, <1>3 DEF BufferNext

(* A new buffer is an empty string. *)
LEMMA InitKeeps == Init => BufferTypeOK /\ Promise!Init
<1> SUFFICES ASSUME Init  PROVE BufferTypeOK /\ Promise!Init  OBVIOUS
<1> USE BufferAssumption DEF Init
<1>1. <<>> \in Seq(Mem) /\ Len(<<>>) = 0 /\ 0 * BlockSize = 0  BY EmptySeq
<1>2. BufferTypeOK  BY <1>1 DEF BufferTypeOK, Capacity, Mem
<1>3. SubSeq(<<>>, 1, 0) = <<>>  BY SubSeqEmpty
<1>4. bytes = [b \in Buffers |-> <<>>]  BY <1>3 DEF bytes
<1>5. [b \in Buffers |-> Capacity(b)] = [b \in Buffers |-> 0]  BY <1>1 DEF Capacity
<1> QED  BY <1>2, <1>4, <1>5 DEF Promise!Init

(* Whatever is done to the buffers, sizes, blocks and memory agree: no
   operation leaves a size beyond the memory or memory beyond max_blocks. *)
THEOREM BufferTypes == BufferSpec => []BufferTypeOK
<1>1. Init => BufferTypeOK  BY InitKeeps
<1>2. BufferTypeOK /\ [BufferNext]_bufferVars => BufferTypeOK'  BY StepKeepsAll DEF Keeps
<1> QED  BY <1>1, <1>2, PTL DEF BufferSpec

(* A buffer in blocks of memory implements a string of bytes, for any size of
   the blocks and any number of them. *)
THEOREM BufferIsString == BufferSpec => KeepsBytes
<1>1. Init => Promise!Init  BY InitKeeps
<1>2. BufferTypeOK /\ [BufferNext]_bufferVars => [Promise!Next]_(Promise!vars)
  BY StepKeepsAll DEF Keeps
<1> QED  BY <1>1, <1>2, BufferTypes, PTL DEF BufferSpec, KeepsBytes, Promise!Spec

-----------------------------------------------------------------------------
(* Sums. The library's theorems on recursion take operators as parameters; here
   the same facts follow, for sums, from the least number with a property. *)

(* Any set of numbers that has an element has a least one. *)
LEMMA LeastNumber ==
    ASSUME NEW T \in SUBSET Nat, T # {}
    PROVE  \E n \in T : \A m \in T : n <= m
<1>1. PICK n \in T : \A m \in T : ~(<<m, n>> \in OpToRel(<, Nat))
  BY NatLessThanWellFounded, WFMin
<1>2. ASSUME NEW m \in T PROVE n <= m
  <2>1. ~(m < n)  BY <1>1, <1>2 DEF OpToRel
  <2> QED  BY <2>1
<1> QED  BY <1>2

(* Induction, for a property that is given as the set of numbers that have it. *)
LEMMA FromZeroUp ==
    ASSUME NEW P \in SUBSET Nat, 0 \in P, \A n \in P : n + 1 \in P
    PROVE  P = Nat
<1> SUFFICES ASSUME P # Nat PROVE FALSE  OBVIOUS
<1>1. PICK n \in Nat \ P : \A m \in Nat \ P : n <= m
  <2>1. Nat \ P \in SUBSET Nat /\ Nat \ P # {}  OBVIOUS
  <2> QED  BY <2>1, LeastNumber
<1>2. n # 0 /\ n - 1 \in Nat /\ n - 1 + 1 = n  BY <1>1
<1>3. n - 1 \in P  BY <1>1, <1>2
<1> QED  BY <1>1, <1>2, <1>3

(* The finite sets of a size are those with one element more than one of the
   size below. *)
LEMMA Smaller ==
    ASSUME NEW S, IsFiniteSet(S), NEW s \in SUBSET S, NEW x \in s
    PROVE  /\ IsFiniteSet(s) /\ s \ {x} \in SUBSET S
           /\ Cardinality(s) \in Nat \ {0}
           /\ Cardinality(s \ {x}) = Cardinality(s) - 1
<1>1. IsFiniteSet(s)  BY FS_Subset
<1>2. Cardinality(s) \in Nat  BY <1>1, FS_CardinalityType
<1>3. Cardinality(s) # 0  BY <1>1, FS_EmptySet
<1>4. Cardinality(s \ {x}) = Cardinality(s) - 1  BY <1>1, FS_RemoveElement
<1> QED  BY <1>1, <1>2, <1>3, <1>4

(* An element of a set. *)
OneOf(s) == CHOOSE x \in s : TRUE

(* What the sum over s is, given the sums over smaller sets. *)
SumRule(f, it, s) == IF s = {} THEN 0 ELSE f[OneOf(s)] + it[s \ {OneOf(s)}]

(* The recursion that a sum is defined by, down from the subsets of S. *)
SumEquation(f, S, it) == it = [s \in SUBSET S |-> SumRule(f, it, s)]

(* SumFunctionOnSet is a function that satisfies the recursion, if there is one. *)
LEMMA SumIsChosen ==
    ASSUME NEW f, NEW S
    PROVE  SumFunctionOnSet(f, S) = (CHOOSE it : SumEquation(f, S, it))[S]
BY DEF SumFunctionOnSet, FoldFunctionOnSet, MapThenFoldSet, SumEquation, SumRule, OneOf

(* There is one: built up from the empty set. *)
LEMMA SumExists ==
    ASSUME NEW f, NEW S, IsFiniteSet(S)
    PROVE  \E it : SumEquation(f, S, it)
<1> DEFINE Small(n) == {s \in SUBSET S : Cardinality(s) <= n}
           Solved(n) == \E it : it = [s \in Small(n) |-> SumRule(f, it, s)]
           P == {n \in Nat : Solved(n)}
<1>1. 0 \in P
  <2> DEFINE it == [s \in Small(0) |-> 0]
  <2>1. ASSUME NEW s \in Small(0) PROVE s = {}
    BY FS_Subset, FS_EmptySet, FS_CardinalityType
  <2>2. it = [s \in Small(0) |-> SumRule(f, it, s)]  BY <2>1 DEF SumRule
  <2> HIDE DEF it
  <2> QED  BY <2>2
<1>2. ASSUME NEW n \in P PROVE n + 1 \in P
  <2>1. PICK g : g = [s \in Small(n) |-> SumRule(f, g, s)]  OBVIOUS
  <2> DEFINE it == [s \in Small(n + 1) |-> SumRule(f, g, s)]
  <2>2. ASSUME NEW s \in Small(n + 1), s # {} PROVE s \ {OneOf(s)} \in Small(n) \cap Small(n + 1)
    <3>1. OneOf(s) \in s /\ s \in SUBSET S  BY <2>2 DEF OneOf
    <3>2. /\ s \ {OneOf(s)} \in SUBSET S /\ Cardinality(s) \in Nat
          /\ Cardinality(s \ {OneOf(s)}) = Cardinality(s) - 1
      BY <3>1, Smaller
    <3> QED  BY <3>2, <2>2
  <2>3. ASSUME NEW s \in Small(n + 1) PROVE SumRule(f, it, s) = SumRule(f, g, s)
    <3> SUFFICES ASSUME s # {} PROVE it[s \ {OneOf(s)}] = g[s \ {OneOf(s)}]  BY DEF SumRule
    <3> DEFINE r == s \ {OneOf(s)}
    <3>1. r \in Small(n) /\ r \in Small(n + 1)  BY <2>2
    <3> HIDE DEF r
    <3>2. it[r] = SumRule(f, g, r) /\ g[r] = SumRule(f, g, r)  BY <2>1, <3>1
    <3> QED  BY <3>2 DEF r
  <2>4. it = [s \in Small(n + 1) |-> SumRule(f, it, s)]
    <3> HIDE DEF Small
    <3> QED  BY <2>3
  <2> HIDE DEF it, Small
  <2> QED  BY <2>4
<1> HIDE DEF P
<1>3. P = Nat  BY <1>1, <1>2, FromZeroUp DEF P
<1>4. Cardinality(S) \in Nat  BY FS_CardinalityType
<1>5. Small(Cardinality(S)) = SUBSET S
  <2>1. ASSUME NEW s \in SUBSET S PROVE Cardinality(s) <= Cardinality(S)  BY FS_Subset
  <2> QED  BY <2>1
<1>6. PICK it : it = [s \in Small(Cardinality(S)) |-> SumRule(f, it, s)]  BY <1>3, <1>4 DEF P
<1> QED  BY <1>5, <1>6 DEF SumEquation

(* The sums of f over the subsets of S. *)
Sums(f, S) == CHOOSE it : SumEquation(f, S, it)

(* The recursion, subset by subset. *)
LEMMA SumsFacts ==
    ASSUME NEW S, IsFiniteSet(S), NEW f
    PROVE  /\ SumFunctionOnSet(f, S) = Sums(f, S)[S]
           /\ Sums(f, S)[{}] = 0
           /\ \A s \in SUBSET S : s # {} =>
                 Sums(f, S)[s] = f[OneOf(s)] + Sums(f, S)[s \ {OneOf(s)}]
<1>1. SumEquation(f, S, Sums(f, S))  BY SumExists DEF Sums
<1>2. \A s \in SUBSET S : Sums(f, S)[s] = SumRule(f, Sums(f, S), s)  BY <1>1 DEF SumEquation
<1> QED  BY <1>2, SumIsChosen DEF Sums, SumRule

(* On a part of S the functions have the same values, which are numbers. *)
Agree(f, g, U, S) == U \subseteq S /\ \A x \in U : f[x] \in Nat /\ f[x] = g[x]

(* Sums of numbers are numbers, and functions that agree have the same sum. *)
LEMMA SumsAgree ==
    ASSUME NEW S, IsFiniteSet(S), NEW f, NEW g, NEW U, Agree(f, g, U, S)
    PROVE  \A s \in SUBSET U : Sums(f, S)[s] \in Nat /\ Sums(f, S)[s] = Sums(g, S)[s]
<1> DEFINE Good(s) == Sums(f, S)[s] \in Nat /\ Sums(f, S)[s] = Sums(g, S)[s]
           P == {n \in Nat : \A s \in SUBSET U : Cardinality(s) = n => Good(s)}
<1>0. U \subseteq S /\ \A x \in U : f[x] \in Nat /\ f[x] = g[x]  BY DEF Agree
<1>1. ASSUME NEW s \in SUBSET U, s # {}, Good(s \ {OneOf(s)}) PROVE Good(s)
  <2>1. OneOf(s) \in U /\ s \in SUBSET S  BY <1>0, <1>1 DEF OneOf
  <2>2. ASSUME NEW h PROVE Sums(h, S)[s] = h[OneOf(s)] + Sums(h, S)[s \ {OneOf(s)}]
    <3>1. \A t \in SUBSET S : t # {} => Sums(h, S)[t] = h[OneOf(t)] + Sums(h, S)[t \ {OneOf(t)}]
      BY SumsFacts
    <3> QED  BY <1>1, <2>1, <3>1
  <2>4. /\ Sums(f, S)[s] = f[OneOf(s)] + Sums(f, S)[s \ {OneOf(s)}]
        /\ Sums(g, S)[s] = g[OneOf(s)] + Sums(g, S)[s \ {OneOf(s)}]
    BY <2>2
  <2>3. f[OneOf(s)] \in Nat /\ f[OneOf(s)] = g[OneOf(s)]  BY <1>0, <2>1
  <2> QED  BY <1>1, <2>4, <2>3
<1>2. Good({})  BY SumsFacts
<1> HIDE DEF Good
<1>3. 0 \in P
  <2>1. ASSUME NEW s \in SUBSET U, Cardinality(s) = 0 PROVE s = {}
    BY <1>0, <2>1, FS_Subset, FS_EmptySet
  <2> QED  BY <1>2, <2>1
<1>4. ASSUME NEW n \in P PROVE n + 1 \in P
  <2>1. ASSUME NEW s \in SUBSET U, Cardinality(s) = n + 1 PROVE Good(s)
    <3>1. s # {}  BY <2>1, FS_EmptySet
    <3>2. OneOf(s) \in s /\ s \in SUBSET S  BY <1>0, <3>1 DEF OneOf
    <3>3. Cardinality(s \ {OneOf(s)}) = n  BY <2>1, <3>2, Smaller
    <3> QED  BY <1>1, <3>1, <3>3
  <2> QED  BY <2>1
<1> HIDE DEF P
<1>5. P = Nat  BY <1>3, <1>4, FromZeroUp DEF P
<1>6. ASSUME NEW s \in SUBSET U PROVE Good(s)
  <2>1. IsFiniteSet(s)  BY <1>0, FS_Subset
  <2>2. Cardinality(s) \in P  BY <1>5, <2>1, FS_CardinalityType
  <2> QED  BY <2>2 DEF P
<1> QED  BY <1>6 DEF Good

(* It does not matter which element is taken first. *)
LEMMA SumsTake ==
    ASSUME NEW S, IsFiniteSet(S), NEW f \in [S -> Nat]
    PROVE  \A s \in SUBSET S : \A x \in s : Sums(f, S)[s] = f[x] + Sums(f, S)[s \ {x}]
<1> DEFINE F == Sums(f, S)
           Good(s) == \A x \in s : F[s] = f[x] + F[s \ {x}]
           P == {n \in Nat : \A s \in SUBSET S : Cardinality(s) = n => Good(s)}
<1>1. \A s \in SUBSET S : F[s] \in Nat
  <2>1. Agree(f, f, S, S)  BY DEF Agree
  <2> QED  BY <2>1, SumsAgree
<1>2. \A s \in SUBSET S : s # {} => F[s] = f[OneOf(s)] + F[s \ {OneOf(s)}]  BY SumsFacts
<1> HIDE DEF F
<1>3. 0 \in P
  <2>1. ASSUME NEW s \in SUBSET S, Cardinality(s) = 0 PROVE s = {}
    BY <2>1, FS_Subset, FS_EmptySet
  <2> QED  BY <2>1
<1>4. ASSUME NEW n \in P PROVE n + 1 \in P
  <2> SUFFICES ASSUME NEW s \in SUBSET S, Cardinality(s) = n + 1, NEW x \in s
               PROVE  F[s] = f[x] + F[s \ {x}]
    OBVIOUS
  <2> DEFINE y == OneOf(s)
  <2>1. y \in s  BY DEF OneOf
  <2>2. F[s] = f[y] + F[s \ {y}]  BY <1>2
  <2> HIDE DEF y
  <2>3. CASE x = y  BY <2>2, <2>3
  <2>4. CASE x # y
    <3>1. Cardinality(s \ {x}) = n /\ Cardinality(s \ {y}) = n
          /\ s \ {x} \in SUBSET S /\ s \ {y} \in SUBSET S
      BY <2>1, Smaller
    <3>2. x \in s \ {y} /\ y \in s \ {x}  BY <2>1, <2>4
    <3>3. F[s \ {y}] = f[x] + F[(s \ {y}) \ {x}] /\ F[s \ {x}] = f[y] + F[(s \ {x}) \ {y}]
      BY <3>1, <3>2
    <3> DEFINE r == (s \ {x}) \ {y}
    <3>4. (s \ {y}) \ {x} = r /\ r \in SUBSET S  OBVIOUS
    <3>5. F[s \ {y}] = f[x] + F[r] /\ F[s \ {x}] = f[y] + F[r]  BY <3>3, <3>4
    <3> HIDE DEF r
    <3>6. F[r] \in Nat /\ f[x] \in Nat /\ f[y] \in Nat  BY <1>1, <2>1, <3>4
    <3> QED  BY <2>2, <3>5, <3>6
  <2> QED  BY <2>3, <2>4
<1> HIDE DEF P, Good
<1>5. P = Nat  BY <1>3, <1>4, FromZeroUp DEF P
<1>6. ASSUME NEW s \in SUBSET S PROVE Good(s)
  <2>1. IsFiniteSet(s)  BY FS_Subset
  <2>2. Cardinality(s) \in P  BY <1>5, <2>1, FS_CardinalityType
  <2> QED  BY <2>2 DEF P
<1> QED  BY <1>6 DEF Good, F

(* One summand that changes changes the sum by as much. *)
LEMMA SumExcept ==
    ASSUME NEW S, IsFiniteSet(S), NEW f \in [S -> Nat], NEW b \in S, NEW v \in Nat
    PROVE  /\ SumFunction(f) \in Nat /\ f[b] <= SumFunction(f)
           /\ SumFunction([f EXCEPT ![b] = v]) = SumFunction(f) - f[b] + v
<1> DEFINE g == [f EXCEPT ![b] = v]
<1>1. g \in [S -> Nat] /\ g[b] = v /\ \A x \in S \ {b} : f[x] \in Nat /\ f[x] = g[x]  OBVIOUS
<1>2. DOMAIN f = S /\ DOMAIN g = S  OBVIOUS
<1> HIDE DEF g
<1>3. SumFunction(f) = Sums(f, S)[S] /\ SumFunction(g) = Sums(g, S)[S]
  BY <1>2, SumsFacts DEF SumFunction
<1>4. Sums(f, S)[S] = f[b] + Sums(f, S)[S \ {b}] /\ Sums(g, S)[S] = v + Sums(g, S)[S \ {b}]
  BY <1>1, SumsTake
<1>5. Sums(f, S)[S \ {b}] \in Nat /\ Sums(f, S)[S \ {b}] = Sums(g, S)[S \ {b}]
  <2> DEFINE U == S \ {b}
  <2>1. U \subseteq S /\ U \in SUBSET U /\ \A x \in U : f[x] \in Nat /\ f[x] = g[x]  BY <1>1
  <2> HIDE DEF U
  <2>2. Agree(f, g, U, S)  BY <2>1 DEF Agree
  <2>3. \A s \in SUBSET U : Sums(f, S)[s] \in Nat /\ Sums(f, S)[s] = Sums(g, S)[s]
    BY <2>2, SumsAgree
  <2> QED  BY <2>1, <2>3 DEF U
<1>6. f[b] \in Nat  OBVIOUS
<1> QED  BY <1>3, <1>4, <1>5, <1>6 DEF g

(* Nothing but zeros sums up to zero. *)
LEMMA SumOfZeros ==
    ASSUME NEW S, IsFiniteSet(S)
    PROVE  SumFunction([x \in S |-> 0]) = 0
<1> DEFINE f == [x \in S |-> 0]  F == Sums(f, S)
           P == {n \in Nat : \A s \in SUBSET S : Cardinality(s) = n => F[s] = 0}
<1>0. \A x \in S : f[x] = 0  OBVIOUS
<1>1. DOMAIN f = S  OBVIOUS
<1> HIDE DEF f
<1>2. SumFunction(f) = F[S]  BY <1>1, SumsFacts DEF SumFunction
<1>b. F[{}] = 0 /\ \A s \in SUBSET S : s # {} => F[s] = f[OneOf(s)] + F[s \ {OneOf(s)}]
  BY SumsFacts
<1> HIDE DEF F
<1>3. 0 \in P
  <2>1. ASSUME NEW s \in SUBSET S, Cardinality(s) = 0 PROVE s = {}
    BY <2>1, FS_Subset, FS_EmptySet
  <2> QED  BY <1>b, <2>1
<1>4. ASSUME NEW n \in P PROVE n + 1 \in P
  <2>1. ASSUME NEW s \in SUBSET S, Cardinality(s) = n + 1 PROVE F[s] = 0
    <3>1. s # {}  BY <2>1, FS_EmptySet
    <3>2. OneOf(s) \in s /\ s \in SUBSET S /\ OneOf(s) \in S  BY <3>1 DEF OneOf
    <3>3. Cardinality(s \ {OneOf(s)}) = n /\ s \ {OneOf(s)} \in SUBSET S  BY <2>1, <3>2, Smaller
    <3>4. F[s] = f[OneOf(s)] + F[s \ {OneOf(s)}]  BY <1>b, <3>1
    <3> QED  BY <1>0, <3>2, <3>3, <3>4
  <2> QED  BY <2>1
<1> HIDE DEF P
<1>5. P = Nat  BY <1>3, <1>4, FromZeroUp DEF P
<1>6. Cardinality(S) \in P  BY <1>5, FS_CardinalityType
<1> QED  BY <1>2, <1>6 DEF P, f
-----------------------------------------------------------------------------
(* The counters that the buffers share. *)

(* The peak is a number, too; that is all TotalIsExact lacks to be inductive. *)
CountInv == TotalIsExact /\ peak \in Nat

(* A step that counts what one buffer has more or less keeps the count exact. *)
LEMMA RecountKeeps ==
    ASSUME BufferTypeOK, CountInv, NEW b \in Buffers, NEW k \in Nat,
           block' = [block EXCEPT ![b] = k], total' = total + k - block[b],
           peak' \in Nat, total' <= peak'
    PROVE  CountInv'
<1>1. block \in [Buffers -> Nat] /\ IsFiniteSet(Buffers)  BY BufferAssumption DEF BufferTypeOK
<1>2. /\ SumFunction(block) \in Nat /\ block[b] <= SumFunction(block)
      /\ SumFunction(block') = SumFunction(block) - block[b] + k
  BY <1>1, SumExcept
<1>3. total' = SumFunction(block')  BY <1>1, <1>2 DEF CountInv, TotalIsExact
<1> QED  BY <1>3 DEF CountInv, TotalIsExact

(* increase_capacity counts the new blocks and no longer the old. *)
LEMMA IncreaseCounts ==
    ASSUME BufferTypeOK, CountInv, NEW b \in Buffers, NEW used \in Nat, used <= size[b],
           NEW n \in Nat, NEW s, Increase(b, used, n, s) \/ CannotIncrease(b, used, n)
    PROVE  CountInv'
<1> DEFINE new == NewBlock(b, used, n)
<1>1. /\ block[b] \in Nat /\ size[b] \in 0..Capacity(b) /\ Capacity(b) \in Nat
      /\ used <= Capacity(b)
  BY BufferFacts
<1>2. new \in Nat /\ new >= block[b]  BY <1>1, NewBlockFacts
<1>3. CASE UNCHANGED <<block, total, peak>>  BY <1>3 DEF CountInv, TotalIsExact
<1>4. CASE block' = [block EXCEPT ![b] = new] /\ Count(b, new)
  <2>1. total' = total + new - block[b] /\ peak' = IF total' > peak THEN total' ELSE peak
    BY <1>4 DEF Count
  <2>2. total \in Nat /\ total <= peak /\ peak \in Nat
    <3>1. block \in [Buffers -> Nat] /\ IsFiniteSet(Buffers)  BY BufferAssumption DEF BufferTypeOK
    <3>2. SumFunction(block) \in Nat  BY <1>1, <3>1, SumExcept
    <3> QED  BY <3>2 DEF CountInv, TotalIsExact
  <2> HIDE DEF new
  <2>3. total' \in Nat /\ peak' \in Nat /\ total' <= peak'  BY <1>1, <1>2, <2>1, <2>2
  <2> QED  BY <1>2, <1>4, <2>1, <2>3, RecountKeeps
<1>5. CASE Increase(b, used, n, s)
  <2>1. block' = [block EXCEPT ![b] = new]
        /\ (IF new = block[b] THEN UNCHANGED <<total, peak>> ELSE Count(b, new))
    BY <1>5 DEF Increase
  <2>2. CASE new = block[b]
    <3>1. block' = block  BY <2>1, <2>2 DEF BufferTypeOK
    <3> QED  BY <1>3, <2>1, <2>2, <3>1
  <2>3. CASE new # block[b]  BY <1>4, <2>1, <2>3
  <2> QED  BY <2>2, <2>3
<1>6. CASE CannotIncrease(b, used, n)  BY <1>3, <1>6 DEF CannotIncrease
<1> QED  BY <1>5, <1>6

(* Blocks that go back to the allocator are counted off. *)
LEMMA FreeCounts ==
    ASSUME BufferTypeOK, CountInv, NEW b \in Buffers, Free(b)
    PROVE  CountInv'
<1>1. block' = [block EXCEPT ![b] = 0] /\ total' = total - block[b] /\ peak' = peak
  BY DEF Free
<1>2. /\ block \in [Buffers -> Nat] /\ IsFiniteSet(Buffers) /\ block[b] \in Nat
  BY BufferAssumption DEF BufferTypeOK
<1>3. SumFunction(block) \in Nat  BY <1>2, SumExcept
<1>4. total \in Nat /\ total <= peak /\ peak \in Nat  BY <1>3 DEF CountInv, TotalIsExact
<1>5. total' = total + 0 - block[b] /\ peak' \in Nat /\ total' <= peak'  BY <1>1, <1>2, <1>4
<1> QED  BY <1>1, <1>5, RecountKeeps

(* Every step counts what it allocates and frees. *)
LEMMA StepCounts ==
    ASSUME BufferTypeOK, CountInv, [BufferNext]_bufferVars
    PROVE  CountInv'
<1> USE BufferAssumption
<1>1. CASE UNCHANGED <<block, total, peak>>  BY <1>1 DEF CountInv, TotalIsExact
<1>2. ASSUME NEW b \in Buffers, NEW used \in Nat, used <= size[b], NEW s \in Seq(Mem),
             AppendAt(b, used, s)
      PROVE  CountInv'
  <2>1. Len(s) \in Nat  BY SeqIsFunction
  <2>2. Increase(b, used, Len(s), s) \/ CannotIncrease(b, used, Len(s))  BY <1>2 DEF AppendAt
  <2> QED  BY <1>2, <2>1, <2>2, IncreaseCounts
<1>3. ASSUME NEW b \in Buffers, NEW pos, NEW n, NEW hold, EraseFrom(b, pos, n, hold)
      PROVE  CountInv'
  BY <1>1, <1>3, FreeCounts DEF EraseFrom
<1>4. ASSUME NEW b \in Buffers, Grow(b, Strings, Lengths)  PROVE CountInv'
  <2>1. size[b] \in Nat /\ size[b] <= size[b]  BY DEF BufferTypeOK
  <2>2. ASSUME NEW s \in Strings, AppendTo(b, s)  PROVE CountInv'
    BY <1>2, <2>1, <2>2, StringsAreBytes DEF AppendTo
  <2>3. ASSUME NEW n \in Lengths, Resize(b, n)  PROVE CountInv'
    <3>1. CASE n > size[b]
      <4> DEFINE zeros == [i \in 1..(n - size[b]) |-> 0]
      <4>1. n - size[b] \in Nat  BY <2>1, <3>1
      <4>2. zeros \in Seq(Mem)
        <5>1. zeros \in [1..(n - size[b]) -> Mem]  BY DEF Mem
        <5> QED  BY <4>1, <5>1, FunctionIsSeq
      <4>3. AppendAt(b, size[b], zeros)  BY <2>3, <3>1 DEF Resize
      <4> HIDE DEF zeros
      <4> QED  BY <1>2, <2>1, <4>2, <4>3
    <3>2. CASE ~(n > size[b])  BY <1>1, <2>3, <3>2 DEF Resize
    <3> QED  BY <3>1, <3>2
  <2>4. ASSUME NEW n \in Lengths, Reserve(b, n)  PROVE CountInv'
    <3> DEFINE missing == IF n <= Capacity(b) THEN 0 ELSE n - Capacity(b)
    <3>1. missing \in Nat  BY BufferFacts
    <3>2. Increase(b, size[b], missing, <<>>) \/ CannotIncrease(b, size[b], missing)
      BY <2>4 DEF Reserve
    <3> HIDE DEF missing
    <3> QED  BY <2>1, <3>1, <3>2, IncreaseCounts
  <2>5. ASSUME NEW pos \in Lengths, NEW s \in Strings, Replace(b, pos, s)  PROVE CountInv'
    <3>1. s \in Seq(Mem) /\ pos \in Nat  BY StringsAreBytes
    <3>2. CASE AppendAt(b, size[b], s)  BY <1>2, <2>1, <3>1, <3>2
    <3>3. CASE pos < size[b] /\ AppendAt(b, pos, s)
      <4>1. pos <= size[b]  BY <2>1, <3>1, <3>3
      <4> QED  BY <1>2, <3>1, <3>3, <4>1
    <3>4. CASE UNCHANGED <<block, total, peak>>  BY <1>1, <3>4
    <3> QED  BY <2>5, <3>2, <3>3, <3>4 DEF Replace
  <2>6. CASE Destroy(b)  BY <2>6, FreeCounts DEF Destroy
  <2> QED  BY <1>4, <2>2, <2>3, <2>4, <2>5, <2>6 DEF Grow
<1>5. ASSUME NEW b \in Buffers, Consume(b, Lengths)  PROVE CountInv'
  <2>1. ASSUME NEW pos \in Lengths, NEW n \in Lengths, NEW hold \in BOOLEAN, Erase(b, pos, n, hold)
        PROVE  CountInv'
    BY <1>3, <2>1 DEF Erase
  <2>2. CASE Forward(b) \/ ForwardRelease(b)
    BY <1>1, <2>2 DEF Forward, ForwardRelease
  <2>3. CASE ForwardDestroy(b)  BY <1>3, <2>3 DEF ForwardDestroy
  <2>4. ASSUME NEW pos \in Lengths, NEW n \in Lengths, ForwardErase(b, pos, n)  PROVE CountInv'
    BY <1>1, <1>3, <2>4 DEF ForwardErase
  <2> QED  BY <1>5, <2>1, <2>2, <2>3, <2>4 DEF Consume
<1>6. CASE UNCHANGED bufferVars  BY <1>1, <1>6 DEF bufferVars
<1> QED  BY <1>4, <1>5, <1>6 DEF BufferNext

(* At first there is nothing to count. *)
LEMMA InitCounts == Init => CountInv
<1>1. IsFiniteSet(Buffers)  BY BufferAssumption
<1>2. SumFunction([b \in Buffers |-> 0]) = 0  BY <1>1, SumOfZeros
<1> QED  BY <1>2 DEF Init, CountInv, TotalIsExact

(* The counters are exact on every path: blocks that are allocated, moved, given
   back or refused for want of memory are counted once, for any buffers. *)
THEOREM CountersExact == BufferSpec => []TotalIsExact
<1>1. Init => CountInv  BY InitCounts
<1>2. BufferTypeOK /\ CountInv /\ [BufferNext]_bufferVars => CountInv'  BY StepCounts
<1>3. CountInv => TotalIsExact  BY DEF CountInv
<1> QED  BY <1>1, <1>2, <1>3, BufferTypes, PTL DEF BufferSpec

-----------------------------------------------------------------------------
(* What a reader does with a packet, pop by pop. *)

(* A part of 1..n that is not empty has a largest element. *)
LEMMA MaxOf ==
    ASSUME NEW n \in Nat, NEW s \in SUBSET (1..n), s # {}
    PROVE  Max(s) \in s /\ \A x \in s : Max(s) >= x
<1> DEFINE T == {n - x : x \in s}
<1>1. T \in SUBSET Nat /\ T # {}
  <2>1. \A x \in s : x \in 1..n /\ n - x \in Nat  OBVIOUS
  <2>2. PICK x \in s : TRUE  OBVIOUS
  <2> QED  BY <2>1, <2>2
<1>2. PICK k \in T : \A m \in T : k <= m
  <2> HIDE DEF T
  <2> QED  BY <1>1, LeastNumber
<1>3. PICK y \in s : k = n - y  OBVIOUS
<1>4. \A x \in s : n - y <= n - x  BY <1>2, <1>3
<1>5. y \in s /\ \A x \in s : y >= x  BY <1>4
<1> QED  BY <1>5 DEF Max

(* What the pops of the types at s yield, given the pops before. *)
ReadRule(types, begin, it, s) ==
    IF s = {} THEN begin ELSE Pop(it[s \ {Max(s)}], types[Max(s)])

(* The recursion that Unpack is defined by. *)
ReadEquation(types, begin, S, it) == it = [s \in SUBSET S |-> ReadRule(types, begin, it, s)]

(* Before the first pop from s. *)
Begin(s) == [ok |-> TRUE, values |-> <<>>, rest |-> s]

(* Unpack is a function that satisfies the recursion, if there is one. *)
LEMMA ReadIsChosen ==
    ASSUME NEW types, NEW s
    PROVE  Unpack(types, s) =
               (CHOOSE it : ReadEquation(types, Begin(s), DOMAIN types, it))[DOMAIN types]
BY DEF Unpack, FoldLeft, MapThenFoldSet, ReadEquation, ReadRule, Begin

(* There is one. *)
LEMMA ReadExists ==
    ASSUME NEW types, NEW begin, NEW k \in Nat
    PROVE  \E it : ReadEquation(types, begin, 1..k, it)
<1> DEFINE S == 1..k
           Small(n) == {s \in SUBSET S : Cardinality(s) <= n}
           Solved(n) == \E it : it = [s \in Small(n) |-> ReadRule(types, begin, it, s)]
           P == {n \in Nat : Solved(n)}
<1>0. IsFiniteSet(S)  BY FS_Interval
<1>1. 0 \in P
  <2> DEFINE it == [s \in Small(0) |-> begin]
  <2>1. ASSUME NEW s \in Small(0) PROVE s = {}
    <3>1. s \in SUBSET S /\ Cardinality(s) <= 0  OBVIOUS
    <3> HIDE DEF S
    <3>2. IsFiniteSet(s) /\ Cardinality(s) \in Nat  BY <1>0, <3>1, FS_Subset, FS_CardinalityType
    <3> QED  BY <3>1, <3>2, FS_EmptySet
  <2>2. it = [s \in Small(0) |-> ReadRule(types, begin, it, s)]  BY <2>1 DEF ReadRule
  <2> HIDE DEF it
  <2> QED  BY <2>2
<1>2. ASSUME NEW n \in P PROVE n + 1 \in P
  <2>1. PICK g : g = [s \in Small(n) |-> ReadRule(types, begin, g, s)]  OBVIOUS
  <2> DEFINE it == [s \in Small(n + 1) |-> ReadRule(types, begin, g, s)]
  <2>2. ASSUME NEW s \in Small(n + 1), s # {} PROVE s \ {Max(s)} \in Small(n) \cap Small(n + 1)
    <3>1. s \in SUBSET S /\ Max(s) \in s  BY <2>2, MaxOf
    <3> HIDE DEF S
    <3>2. /\ s \ {Max(s)} \in SUBSET S /\ Cardinality(s) \in Nat
          /\ Cardinality(s \ {Max(s)}) = Cardinality(s) - 1
      BY <1>0, <3>1, Smaller
    <3> QED  BY <3>2, <2>2
  <2>3. ASSUME NEW s \in Small(n + 1)
        PROVE  ReadRule(types, begin, it, s) = ReadRule(types, begin, g, s)
    <3> SUFFICES ASSUME s # {} PROVE it[s \ {Max(s)}] = g[s \ {Max(s)}]  BY DEF ReadRule
    <3> DEFINE r == s \ {Max(s)}
    <3>1. r \in Small(n) /\ r \in Small(n + 1)  BY <2>2
    <3> HIDE DEF r, Small
    <3>2. it[r] = ReadRule(types, begin, g, r) /\ g[r] = ReadRule(types, begin, g, r)  BY <2>1, <3>1
    <3> QED  BY <3>2 DEF r
  <2>4. it = [s \in Small(n + 1) |-> ReadRule(types, begin, it, s)]
    <3> HIDE DEF Small
    <3> QED  BY <2>3
  <2> HIDE DEF it, Small
  <2> QED  BY <2>4
<1> HIDE DEF P, S
<1>3. P = Nat  BY <1>1, <1>2, FromZeroUp DEF P
<1>4. Cardinality(S) \in Nat  BY <1>0, FS_CardinalityType
<1>5. Small(Cardinality(S)) = SUBSET S
  <2>1. ASSUME NEW s \in SUBSET S PROVE Cardinality(s) <= Cardinality(S)  BY <1>0, FS_Subset
  <2> QED  BY <2>1
<1>6. PICK it : it = [s \in Small(Cardinality(S)) |-> ReadRule(types, begin, it, s)]
  BY <1>3, <1>4 DEF P
<1> QED  BY <1>5, <1>6 DEF ReadEquation, S

(* What is read of s by the pops of the first k types. *)
Reading(types, s, k) ==
    (CHOOSE it : ReadEquation(types, Begin(s), DOMAIN types, it))[1..k]

(* It is read from left to right. *)
LEMMA ReadingFacts ==
    ASSUME NEW types, NEW n \in Nat, DOMAIN types = 1..n, NEW s
    PROVE  /\ Reading(types, s, 0) = Begin(s)
           /\ \A k \in 1..n : Reading(types, s, k) = Pop(Reading(types, s, k - 1), types[k])
           /\ Unpack(types, s) = Reading(types, s, n)
<1> DEFINE it == CHOOSE it : ReadEquation(types, Begin(s), DOMAIN types, it)
<1>1. ReadEquation(types, Begin(s), 1..n, it)  BY ReadExists
<1>2. \A t \in SUBSET (1..n) : it[t] = ReadRule(types, Begin(s), it, t)
  BY <1>1 DEF ReadEquation
<1>3. \A k : Reading(types, s, k) = it[1..k]  BY DEF Reading
<1>4. Unpack(types, s) = it[1..n]  BY ReadIsChosen
<1> HIDE DEF it
<1>5. 1..0 = {} /\ it[{}] = Begin(s)  BY <1>2 DEF ReadRule
<1>6. ASSUME NEW k \in 1..n
      PROVE  Reading(types, s, k) = Pop(Reading(types, s, k - 1), types[k])
  <2>1. 1..k \in SUBSET (1..n) /\ 1..k # {} /\ (1..k) \ {k} = 1..(k - 1)  OBVIOUS
  <2>2. Max(1..k) = k
    <3>1. \E m \in 1..k : TRUE  BY <2>1
    <3>2. Max(1..k) \in 1..k /\ \A x \in 1..k : Max(1..k) >= x  BY <2>1, MaxOf
    <3> QED  BY <3>2
  <2>3. it[1..k] = Pop(it[1..(k - 1)], types[k])  BY <1>2, <2>1, <2>2 DEF ReadRule
  <2> QED  BY <1>3, <2>3
<1> QED  BY <1>3, <1>4, <1>5, <1>6

(* Nothing is popped for no types. *)
LEMMA UnpackNothing ==
    ASSUME NEW types, DOMAIN types = {}, NEW s
    PROVE  Unpack(types, s) = Begin(s)
<1>1. DOMAIN types = 1..0  OBVIOUS
<1> QED  BY <1>1, ReadingFacts

(* One type more is one pop more. *)
LEMMA UnpackMore ==
    ASSUME NEW T, NEW types \in Seq(T), NEW type \in T, NEW s
    PROVE  Unpack(Append(types, type), s) = Pop(Unpack(types, s), type)
<1> DEFINE more == Append(types, type)
           n == Len(types)
           P == {k \in Nat : k <= n => Reading(more, s, k) = Reading(types, s, k)}
<1>1. n \in Nat /\ DOMAIN types = 1..n  BY SeqIsFunction
<1>2. DOMAIN more = 1..(n + 1) /\ more[n + 1] = type /\ \A k \in 1..n : more[k] = types[k]
  BY <1>1, AppendProperties
<1> HIDE DEF more, n
<1>a. /\ Reading(more, s, 0) = Begin(s) /\ Unpack(more, s) = Reading(more, s, n + 1)
      /\ \A k \in 1..(n + 1) : Reading(more, s, k) = Pop(Reading(more, s, k - 1), more[k])
  <2>1. n + 1 \in Nat  BY <1>1
  <2> QED  BY <1>2, <2>1, ReadingFacts
<1>b. /\ Reading(types, s, 0) = Begin(s) /\ Unpack(types, s) = Reading(types, s, n)
      /\ \A k \in 1..n : Reading(types, s, k) = Pop(Reading(types, s, k - 1), types[k])
  BY <1>1, ReadingFacts
<1>3. 0 \in P  BY <1>a, <1>b
<1>4. ASSUME NEW k \in P PROVE k + 1 \in P
  <2>1. ASSUME k + 1 <= n PROVE Reading(more, s, k + 1) = Reading(types, s, k + 1)
    <3>1. k + 1 \in 1..n /\ k + 1 \in 1..(n + 1) /\ k + 1 - 1 = k /\ k <= n  BY <1>1, <2>1
    <3>2. Reading(more, s, k + 1) = Pop(Reading(more, s, k), more[k + 1])  BY <1>a, <3>1
    <3>3. Reading(types, s, k + 1) = Pop(Reading(types, s, k), types[k + 1])  BY <1>b, <3>1
    <3> QED  BY <1>2, <3>1, <3>2, <3>3
  <2> QED  BY <2>1
<1> HIDE DEF P
<1>5. n \in P  BY <1>1, <1>3, <1>4, FromZeroUp DEF P
<1>6. Reading(more, s, n) = Unpack(types, s)  BY <1>1, <1>5, <1>b DEF P
<1>7. Unpack(more, s) = Pop(Reading(more, s, n), type)
  <2>1. PICK m \in Nat : m = n + 1  BY <1>1
  <2>2. m \in 1..(n + 1) /\ m - 1 = n  BY <1>1, <2>1
  <2>3. Reading(more, s, m) = Pop(Reading(more, s, n), more[m])  BY <1>a, <2>2
  <2> QED  BY <1>2, <1>a, <2>1, <2>3
<1> QED  BY <1>6, <1>7 DEF more

-----------------------------------------------------------------------------
(* Strings behind strings. *)

(* A part of a sequence, from behind m up to n. *)
LEMMA PartFacts ==
    ASSUME NEW S, NEW s \in Seq(S), NEW m \in Nat, NEW n \in m..Len(s)
    PROVE  /\ SubSeq(s, m + 1, n) \in Seq(S) /\ Len(SubSeq(s, m + 1, n)) = n - m
           /\ \A i \in 1..(n - m) : SubSeq(s, m + 1, n)[i] = s[m + i]
<1> DEFINE q == SubSeq(s, m + 1, n)
<1>1. Len(s) \in Nat /\ \A i \in 1..Len(s) : s[i] \in S  BY SeqIsFunction
<1>2. m + 1 \in Int /\ n \in Int /\ \A i \in (m + 1)..n : s[i] \in S  BY <1>1
<1>3. /\ q \in Seq(S) /\ Len(q) = IF m + 1 <= n THEN n - (m + 1) + 1 ELSE 0
      /\ \A i \in 1..(n - (m + 1) + 1) : q[i] = s[m + 1 + i - 1]
  BY <1>2, SubSeqProperties
<1> HIDE DEF q
<1>4. ASSUME NEW i \in 1..(n - m) PROVE q[i] = s[m + i]
  <2>1. i \in 1..(n - (m + 1) + 1) /\ m + 1 + i - 1 = m + i  BY <1>1
  <2> QED  BY <1>3, <2>1
<1>5. q \in Seq(S) /\ Len(q) = n - m  BY <1>1, <1>3
<1> QED  BY <1>4, <1>5 DEF q

(* Two strings behind each other are found where they were put. *)
LEMMA Behind ==
    ASSUME NEW S, NEW s \in Seq(S), NEW t \in Seq(S)
    PROVE  /\ s \o t \in Seq(S) /\ Len(s \o t) = Len(s) + Len(t)
           /\ Len(s) \in Nat /\ Len(t) \in Nat
           /\ \A i \in 1..Len(s) : (s \o t)[i] = s[i]
           /\ \A i \in 1..Len(t) : (s \o t)[Len(s) + i] = t[i]
<1> DEFINE st == s \o t
<1>1. Len(s) \in Nat /\ Len(t) \in Nat  BY SeqIsFunction
<1>2. /\ st \in Seq(S) /\ Len(st) = Len(s) + Len(t)
      /\ \A i \in 1..(Len(s) + Len(t)) : st[i] = IF i <= Len(s) THEN s[i] ELSE t[i - Len(s)]
  BY ConcatProperties
<1> HIDE DEF st
<1>3. \A i \in 1..Len(s) : st[i] = s[i]  BY <1>1, <1>2
<1>4. ASSUME NEW i \in 1..Len(t) PROVE st[Len(s) + i] = t[i]
  <2>1. /\ Len(s) + i \in 1..(Len(s) + Len(t)) /\ ~(Len(s) + i <= Len(s))
        /\ Len(s) + i - Len(s) = i
    BY <1>1
  <2>2. st[Len(s) + i] = t[Len(s) + i - Len(s)]  BY <1>2, <2>1
  <2> QED  BY <2>1, <2>2
<1> QED  BY <1>1, <1>2, <1>3, <1>4 DEF st

(* The first of two strings is what they begin with. *)
LEMMA TakeFirst ==
    ASSUME NEW S, NEW s \in Seq(S), NEW t \in Seq(S), NEW n \in 0..Len(s)
    PROVE  SubSeq(s \o t, 1, n) = SubSeq(s, 1, n)
<1> DEFINE st == s \o t
<1>1. /\ st \in Seq(S) /\ Len(st) = Len(s) + Len(t)
      /\ Len(s) \in Nat /\ Len(t) \in Nat
      /\ \A i \in 1..Len(s) : st[i] = s[i]
  BY Behind
<1> HIDE DEF st
<1>2. n \in 0..Len(st)  BY <1>1
<1>3. /\ SubSeq(s, 1, n) \in Seq(S) /\ Len(SubSeq(s, 1, n)) = n
      /\ \A i \in 1..n : SubSeq(s, 1, n)[i] = s[i]
  BY PrefixFacts
<1>4. /\ SubSeq(st, 1, n) \in Seq(S) /\ Len(SubSeq(st, 1, n)) = n
      /\ \A i \in 1..n : SubSeq(st, 1, n)[i] = st[i]
  BY <1>1, <1>2, PrefixFacts
<1>5. \A i \in 1..n : SubSeq(st, 1, n)[i] = SubSeq(s, 1, n)[i]  BY <1>1, <1>3, <1>4
<1>6. SubSeq(st, 1, n) = SubSeq(s, 1, n)  BY <1>3, <1>4, <1>5, SeqEqual
<1> QED  BY <1>6 DEF st

(* What is behind m of the first string ends in the second. *)
LEMMA DropFirst ==
    ASSUME NEW S, NEW s \in Seq(S), NEW t \in Seq(S), NEW m \in 0..Len(s)
    PROVE  SubSeq(s \o t, m + 1, Len(s \o t)) = SubSeq(s, m + 1, Len(s)) \o t
<1> DEFINE st == s \o t  p == SubSeq(s, m + 1, Len(s))  l == SubSeq(st, m + 1, Len(st))  r == p \o t
<1>1. /\ st \in Seq(S) /\ Len(st) = Len(s) + Len(t)
      /\ Len(s) \in Nat /\ Len(t) \in Nat
      /\ \A i \in 1..Len(s) : st[i] = s[i]
      /\ \A i \in 1..Len(t) : st[Len(s) + i] = t[i]
  BY Behind
<1> HIDE DEF st
<1>2. /\ p \in Seq(S) /\ Len(p) = Len(s) - m
      /\ \A i \in 1..(Len(s) - m) : p[i] = s[m + i]
  <2>1. m \in Nat /\ Len(s) \in m..Len(s)  BY <1>1
  <2> QED  BY <2>1, PartFacts
<1>3. /\ l \in Seq(S) /\ Len(l) = Len(st) - m
      /\ \A i \in 1..(Len(st) - m) : l[i] = st[m + i]
  <2>1. m \in Nat /\ Len(st) \in m..Len(st)  BY <1>1
  <2> QED  BY <1>1, <2>1, PartFacts
<1> HIDE DEF p, l
<1>4. /\ r \in Seq(S) /\ Len(r) = Len(p) + Len(t)
      /\ \A i \in 1..Len(p) : r[i] = p[i]
      /\ \A i \in 1..Len(t) : r[Len(p) + i] = t[i]
  BY <1>2, Behind
<1> HIDE DEF r
<1>5. ASSUME NEW i \in 1..Len(l) PROVE l[i] = r[i]
  <2>1. CASE i <= Len(p)
    <3>1. i \in 1..(Len(s) - m) /\ m + i \in 1..Len(s) /\ i \in 1..Len(p) /\ i \in 1..(Len(st) - m)
      BY <1>1, <1>2, <1>3, <2>1
    <3> QED  BY <1>1, <1>2, <1>3, <1>4, <3>1
  <2>2. CASE i > Len(p)
    <3>1. PICK j \in 1..Len(t) : i = Len(p) + j
      <4>1. i - Len(p) \in 1..Len(t) /\ i = Len(p) + (i - Len(p))  BY <1>1, <1>2, <1>3, <2>2
      <4> QED  BY <4>1
    <3>2. m + i = Len(s) + j /\ i \in 1..(Len(st) - m)  BY <1>1, <1>2, <1>3, <3>1
    <3>3. l[i] = st[Len(s) + j]  BY <1>3, <3>2
    <3> QED  BY <1>1, <1>4, <3>1, <3>3
  <2> QED  BY <1>1, <1>2, <1>3, <2>1, <2>2
<1>6. Len(l) = Len(r)  BY <1>1, <1>2, <1>3, <1>4
<1>7. l = r  BY <1>3, <1>4, <1>5, <1>6, SeqEqual
<1> QED  BY <1>7 DEF l, r, p, st

(* So the second string is what is behind the first. *)
LEMMA Second ==
    ASSUME NEW S, NEW s \in Seq(S), NEW t \in Seq(S)
    PROVE  /\ SubSeq(s \o t, 1, Len(s)) = s
           /\ SubSeq(s \o t, Len(s) + 1, Len(s \o t)) = t
<1>1. Len(s) \in 0..Len(s) /\ Len(s) < Len(s) + 1 /\ Len(s) + 1 \in Int /\ Len(s) \in Int
  BY SeqIsFunction
<1>2. SubSeq(s \o t, 1, Len(s)) = SubSeq(s, 1, Len(s))  BY <1>1, TakeFirst
<1>3. SubSeq(s \o t, Len(s) + 1, Len(s \o t)) = SubSeq(s, Len(s) + 1, Len(s)) \o t
  BY <1>1, DropFirst
<1>4. SubSeq(s, Len(s) + 1, Len(s)) = <<>>  BY <1>1, SubSeqEmpty
<1>5. <<>> \o t = t  BY ConcatEmptySeq
<1> QED  BY <1>2, <1>3, <1>4, <1>5, SubSeqFull

(* Two strings cut within the second are the first and a part of the second. *)
LEMMA TakeMore ==
    ASSUME NEW S, NEW s \in Seq(S), NEW t \in Seq(S), NEW n \in 0..Len(t)
    PROVE  SubSeq(s \o t, 1, Len(s) + n) = s \o SubSeq(t, 1, n)
<1> DEFINE st == s \o t  p == SubSeq(t, 1, n)  l == SubSeq(st, 1, Len(s) + n)  r == s \o p
<1>1. /\ st \in Seq(S) /\ Len(st) = Len(s) + Len(t)
      /\ Len(s) \in Nat /\ Len(t) \in Nat
      /\ \A i \in 1..Len(s) : st[i] = s[i]
      /\ \A i \in 1..Len(t) : st[Len(s) + i] = t[i]
  BY Behind
<1> HIDE DEF st
<1>2. p \in Seq(S) /\ Len(p) = n /\ \A i \in 1..n : p[i] = t[i]  BY PrefixFacts
<1>3. /\ l \in Seq(S) /\ Len(l) = Len(s) + n
      /\ \A i \in 1..(Len(s) + n) : l[i] = st[i]
  <2>1. Len(s) + n \in 0..Len(st)  BY <1>1
  <2> QED  BY <1>1, <2>1, PrefixFacts
<1> HIDE DEF p, l
<1>4. /\ r \in Seq(S) /\ Len(r) = Len(s) + n
      /\ \A i \in 1..Len(s) : r[i] = s[i]
      /\ \A i \in 1..Len(p) : r[Len(s) + i] = p[i]
  <2>1. p \in Seq(S)  BY <1>2
  <2>2. /\ s \o p \in Seq(S) /\ Len(s \o p) = Len(s) + Len(p)
        /\ \A i \in 1..Len(s) : (s \o p)[i] = s[i]
        /\ \A i \in 1..Len(p) : (s \o p)[Len(s) + i] = p[i]
    BY <2>1, Behind
  <2> QED  BY <1>2, <2>2
<1> HIDE DEF r
<1>5. ASSUME NEW i \in 1..Len(l) PROVE l[i] = r[i]
  <2>1. CASE i <= Len(s)
    <3>1. i \in 1..Len(s) /\ i \in 1..(Len(s) + n)  BY <1>1, <1>3, <2>1
    <3> QED  BY <1>1, <1>3, <1>4, <3>1
  <2>2. CASE i > Len(s)
    <3>1. PICK j \in 1..n : i = Len(s) + j
      <4>1. i - Len(s) \in 1..n /\ i = Len(s) + (i - Len(s))  BY <1>1, <1>3, <2>2
      <4> QED  BY <4>1
    <3>2. j \in 1..Len(t) /\ j \in 1..Len(p) /\ i \in 1..(Len(s) + n)  BY <1>1, <1>2, <1>3
    <3>3. l[i] = st[Len(s) + j] /\ st[Len(s) + j] = t[j]  BY <1>1, <1>3, <3>1, <3>2
    <3>4. r[i] = p[j] /\ p[j] = t[j]  BY <1>2, <1>4, <3>1, <3>2
    <3> QED  BY <3>3, <3>4
  <2> QED  BY <1>1, <1>3, <2>1, <2>2
<1>6. l = r  BY <1>3, <1>4, <1>5, SeqEqual
<1> QED  BY <1>6 DEF l, r, p, st

-----------------------------------------------------------------------------
(* Numbers in bytes. *)

(* A sum over the positions of a short string, position by position. *)
LEMMA SumOfFew ==
    ASSUME NEW n \in Nat, NEW f \in [1..n -> Nat]
    PROVE  /\ n = 1 => SumFunction(f) = f[1]
           /\ n = 2 => SumFunction(f) = f[1] + f[2]
           /\ n = 4 => SumFunction(f) = f[1] + f[2] + f[3] + f[4]
<1> DEFINE S == 1..n
<1>1. IsFiniteSet(S)  BY FS_Interval
<1>2. DOMAIN f = S  OBVIOUS
<1>3. SumFunction(f) = Sums(f, S)[S] /\ Sums(f, S)[{}] = 0  BY <1>1, <1>2, SumsFacts DEF SumFunction
<1>4. \A s \in SUBSET S : \A x \in s : Sums(f, S)[s] = f[x] + Sums(f, S)[s \ {x}]
  BY <1>1, SumsTake
<1> DEFINE F == Sums(f, S)
<1>5. ASSUME NEW k \in 1..n PROVE F[1..k] = f[k] + F[1..(k - 1)]
  <2>1. 1..k \in SUBSET S /\ k \in 1..k /\ (1..k) \ {k} = 1..(k - 1)  OBVIOUS
  <2> QED  BY <1>4, <2>1
<1> HIDE DEF F
<1>6. F[1..0] = 0
  <2>1. 1..0 = {}  OBVIOUS
  <2> QED  BY <1>3, <2>1 DEF F
<1>7. SumFunction(f) = F[1..n]  BY <1>3 DEF F
<1>8. \A k \in 1..n : f[k] \in Nat  OBVIOUS
<1>9. CASE n = 1
  <2>1. 1 \in 1..n /\ 1 - 1 = 0  BY <1>9
  <2>2. F[1..1] = f[1] + F[1..0]  BY <1>5, <2>1
  <2> QED  BY <1>6, <1>7, <1>8, <1>9, <2>1, <2>2
<1>10. CASE n = 2
  <2>1. 1 \in 1..n /\ 2 \in 1..n /\ 1 - 1 = 0 /\ 2 - 1 = 1  BY <1>10
  <2>2. F[1..1] = f[1] + F[1..0]  BY <1>5, <2>1
  <2>3. F[1..2] = f[2] + F[1..1]  BY <1>5, <2>1
  <2> QED  BY <1>6, <1>7, <1>8, <1>10, <2>1, <2>2, <2>3
<1>11. CASE n = 4
  <2>1. 1 \in 1..n /\ 2 \in 1..n /\ 3 \in 1..n /\ 4 \in 1..n  BY <1>11
  <2>2. F[1..1] = f[1] + F[1..0]
    <3>1. 1 - 1 = 0  OBVIOUS
    <3> QED  BY <1>5, <2>1, <3>1
  <2>3. F[1..2] = f[2] + F[1..1]
    <3>1. 2 - 1 = 1  OBVIOUS
    <3> QED  BY <1>5, <2>1, <3>1
  <2>4. F[1..3] = f[3] + F[1..2]
    <3>1. 3 - 1 = 2  OBVIOUS
    <3> QED  BY <1>5, <2>1, <3>1
  <2>5. F[1..4] = f[4] + F[1..3]
    <3>1. 4 - 1 = 3  OBVIOUS
    <3> QED  BY <1>5, <2>1, <3>1
  <2> QED  BY <1>6, <1>7, <1>8, <1>11, <2>1, <2>2, <2>3, <2>4, <2>5
<1> QED  BY <1>9, <1>10, <1>11

(* A number is its lowest byte and what is above it, byte by byte. *)
LEMMA ByteByByte ==
    ASSUME NEW n \in Nat
    PROVE  /\ n \div 1 = n
           /\ n \div 256 \in Nat /\ n % 256 \in 0..255 /\ n = 256 * (n \div 256) + (n % 256)
           /\ n \div 65536 = (n \div 256) \div 256
           /\ n \div 16777216 = (n \div 65536) \div 256
BY SMT

(* An integer that fits is read as what was written, wherever its bytes are
   found. *)
LEMMA RoundTrip ==
    ASSUME NEW n, NEW width \in {1, 2, 4}, Fits(n, width), NEW s,
           \A i \in 1..width : s[i] = Bytes(n, width)[i]
    PROVE  Number(s, width) = n
<1> DEFINE f == [i \in 1..width |-> s[i] * Place[i]]
<1>1. n \in Nat /\ n \div Place[width] < 256  BY SMT DEF Fits
<1>2. /\ Place[1] = 1 /\ Place[2] = 256 /\ Place[3] = 65536 /\ Place[4] = 16777216
  BY SMT DEF Place
<1>3. \A i \in 1..width : s[i] = (n \div Place[i]) % 256  BY SMT DEF Bytes
<1>4. \A i \in 1..width : s[i] \in Nat /\ Place[i] \in Nat /\ s[i] * Place[i] \in Nat
  <2> SUFFICES ASSUME NEW i \in 1..width PROVE s[i] \in Nat /\ Place[i] \in Nat /\ s[i] * Place[i] \in Nat
    BY SMT
  <2>1. Place[i] \in Nat \ {0}  BY <1>2, SMT
  <2>2. (n \div Place[i]) \in Nat  BY <1>1, <2>1, DivFacts
  <2>3. s[i] \in Nat  BY <1>3, <2>2, SMT
  <2> QED  BY <2>1, <2>3, SMT
<1>5. f \in [1..width -> Nat]  BY <1>4, SMT
<1>6. \A i \in 1..width : f[i] = s[i] * Place[i]  BY SMT
<1>7. Number(s, width) = SumFunction(f)  BY SMT DEF Number
<1> HIDE DEF f
<1>8. CASE width = 1
  <2>1. SumFunction(f) = f[1]  BY <1>5, <1>8, SumOfFew
  <2>2. f[1] = ((n \div 1) % 256) * 1  BY <1>2, <1>3, <1>6, <1>8, SMT
  <2>3. n \div 1 = n /\ n < 256  BY <1>1, <1>2, <1>8, SMT
  <2> QED  BY <1>1, <1>7, <2>1, <2>2, <2>3, SMT
<1>9. CASE width = 2
  <2>1. SumFunction(f) = f[1] + f[2]  BY <1>5, <1>9, SumOfFew
  <2>2. 1 \in 1..width /\ 2 \in 1..width  BY <1>9, SMT
  <2>3. f[1] = ((n \div 1) % 256) * 1 /\ f[2] = ((n \div 256) % 256) * 256
    BY <1>2, <1>3, <1>6, <2>2, SMT
  <2> DEFINE a == n \div 256  r == n % 256
  <2>4. a < 256  BY <1>1, <1>2, <1>9, SMT
  <2>5. n \div 1 = n /\ a \in Nat /\ r \in 0..255 /\ n = 256 * a + r  BY <1>1, ByteByByte, SMT
  <2>6. f[1] = r * 1 /\ f[2] = (a % 256) * 256  BY <2>3, <2>5, SMT
  <2> HIDE DEF a, r
  <2>7. a % 256 = a  BY <2>4, <2>5, SMT
  <2> QED  BY <1>7, <2>1, <2>5, <2>6, <2>7, SMT
<1>10. CASE width = 4
  <2>1. SumFunction(f) = f[1] + f[2] + f[3] + f[4]  BY <1>5, <1>10, SumOfFew
  <2>2. 1 \in 1..width /\ 2 \in 1..width /\ 3 \in 1..width /\ 4 \in 1..width  BY <1>10, SMT
  <2>3. /\ f[1] = ((n \div 1) % 256) * 1 /\ f[2] = ((n \div 256) % 256) * 256
        /\ f[3] = ((n \div 65536) % 256) * 65536 /\ f[4] = ((n \div 16777216) % 256) * 16777216
    BY <1>2, <1>3, <1>6, <2>2, SMT
  <2> DEFINE a == n \div 256  b == n \div 65536  c == n \div 16777216
             r == n % 256  q == a % 256  p == b % 256
  <2>4. c < 256  BY <1>1, <1>2, <1>10, SMT
  <2>5. /\ n \div 1 = n /\ a \in Nat /\ r \in 0..255 /\ n = 256 * a + r
        /\ b \in Nat /\ q \in 0..255 /\ a = 256 * b + q
        /\ c \in Nat /\ p \in 0..255 /\ b = 256 * c + p
    <3>1. n \div 1 = n /\ a \in Nat /\ r \in 0..255 /\ n = 256 * a + r  BY <1>1, ByteByByte, SMT
    <3>2. b = a \div 256 /\ c = b \div 256  BY <1>1, ByteByByte, SMT
    <3> HIDE DEF a, b, c, r
    <3>3. b \in Nat /\ q \in 0..255 /\ a = 256 * b + q  BY <3>1, <3>2, ByteByByte, SMT
    <3>4. b \in Nat  BY <3>3
    <3>5. /\ b \div 256 \in Nat /\ b % 256 \in 0..255 /\ b = 256 * (b \div 256) + (b % 256)
      BY <3>4, ByteByByte, SMT
    <3> QED  BY <3>1, <3>2, <3>3, <3>5
  <2>6. f[1] = r * 1 /\ f[2] = q * 256 /\ f[3] = p * 65536 /\ f[4] = (c % 256) * 16777216
    BY <2>3, <2>5, SMT
  <2> HIDE DEF a, b, c, p, q, r
  <2>7. c % 256 = c  BY <2>4, <2>5, SMT
  <2> QED  BY <1>7, <2>1, <2>5, <2>6, <2>7, SMT
<1> QED  BY <1>8, <1>9, <1>10, SMT

-----------------------------------------------------------------------------
(* What a field is in bytes. *)

(* A field without a length, and the number it is packed as. *)
Simple(f) == f.type \in {"u8", "u16", "u32", "bool"}

Value(f) == IF f.type = "bool" THEN Flag(f.value) ELSE f.value

(* The bytes behind the length of a field that has one. *)
Payload(f) == IF f.type = "wstr" THEN Narrow(f.value) ELSE f.value

(* The integer a field begins with, and its bytes. *)
Leads(f) == IF Simple(f) THEN Value(f) ELSE Len(Payload(f))

(* The bytes of the number, or of the length, that a field begins with. *)
Wide(f) == IF Simple(f) THEN Width[f.type] ELSE Prefix[f.type]

Lead(f) == Bytes(Leads(f), Wide(f))

(* All the bytes of a field. *)
Encoding(f) == IF Simple(f) THEN Lead(f) ELSE Lead(f) \o Payload(f)

(* The integers and the strings among the types, and their widths. *)
LEMMA Widths ==
    /\ DOMAIN Width = {"u8", "u16", "u32", "bool"}
    /\ Width["u8"] = 1 /\ Width["u16"] = 2 /\ Width["u32"] = 4 /\ Width["bool"] = 1
    /\ DOMAIN Prefix = {"str", "str32", "wstr", "vec"}
    /\ Prefix["str"] = 2 /\ Prefix["str32"] = 4 /\ Prefix["wstr"] = 4 /\ Prefix["vec"] = 4
BY DEF Width, Prefix

(* A field is of one of the types and has its value. *)
LEMMA FieldCases ==
    ASSUME NEW f \in Fields
    PROVE  \/ Simple(f) /\ f.type = "bool" /\ f.value \in BOOLEAN
           \/ Simple(f) /\ f.type # "bool" /\ Fits(f.value, Width[f.type])
           \/ /\ ~Simple(f) /\ f.type \in {"str", "str32", "vec"}
              /\ f.value \in Seq(Byte) /\ Len(f.value) < MaxLength
           \/ /\ ~Simple(f) /\ f.type = "wstr"
              /\ f.value \in Seq(Nat) /\ Len(f.value) < MaxLength
<1>1. \/ f.type = "bool" /\ f.value \in BOOLEAN
      \/ f.type \in {"u8", "u16", "u32"} /\ Fits(f.value, Width[f.type])
      \/ /\ \/ f.type \in {"str", "str32", "vec"} /\ f.value \in Seq(Byte)
            \/ f.type = "wstr" /\ f.value \in Seq(Nat)
         /\ Len(f.value) < MaxLength
  BY FieldAssumption
<1>2. Simple(f) <=> f.type \in {"u8", "u16", "u32", "bool"}  BY DEF Simple
<1>3. CASE f.type \in {"u8", "u16", "u32"} /\ Fits(f.value, Width[f.type])
  <2>1. Simple(f) /\ f.type # "bool"  BY <1>2, <1>3
  <2> QED  BY <1>3, <2>1, SMT
<1>4. CASE f.type = "bool" /\ f.value \in BOOLEAN
  BY <1>2, <1>4, SMT
<1>5. CASE /\ f.type \in {"str", "str32", "vec"} /\ f.value \in Seq(Byte)
           /\ Len(f.value) < MaxLength
  BY <1>2, <1>5, SMT
<1>6. CASE f.type = "wstr" /\ f.value \in Seq(Nat) /\ Len(f.value) < MaxLength
  BY <1>2, <1>6, SMT
<1> QED  BY <1>1, <1>3, <1>4, <1>5, <1>6, SMT

(* The pieces of a field are the integer it begins with and what follows. *)
LEMMA PiecesAre ==
    ASSUME NEW f \in Fields
    PROVE  /\ Simple(f) => Pieces(f) = <<Lead(f)>>
           /\ f.type \in {"str", "str32", "wstr"} => Pieces(f) = <<Lead(f), Payload(f)>>
           /\ f.type = "vec" =>
                 Pieces(f) = <<Lead(f)>> \o [i \in 1..Len(f.value) |-> <<f.value[i]>>]
<1>1. CASE Simple(f) /\ f.type = "bool"
  <2>1. Wide(f) = 1 /\ Leads(f) = Flag(f.value)  BY <1>1, Widths DEF Wide, Leads, Value
  <2>2. Pieces(f) = <<Bytes(Flag(f.value), 1)>>  BY <1>1 DEF Pieces
  <2> QED  BY <1>1, <2>1, <2>2 DEF Lead
<1>2. CASE Simple(f) /\ f.type # "bool"
  <2>1. Wide(f) = Width[f.type] /\ Leads(f) = f.value  BY <1>2 DEF Wide, Leads, Value
  <2>2. Pieces(f) = <<Bytes(f.value, Width[f.type])>>  BY <1>2 DEF Pieces, Simple
  <2>3. f.type \notin {"str", "str32", "wstr", "vec"}  BY <1>2 DEF Simple
  <2> QED  BY <2>1, <2>2, <2>3 DEF Lead
<1>3. CASE f.type \in {"str", "str32"}
  <2>1. ~Simple(f) /\ f.type # "wstr" /\ f.type # "vec"  BY <1>3 DEF Simple
  <2>2. Wide(f) = Prefix[f.type] /\ Leads(f) = Len(f.value) /\ Payload(f) = f.value
    BY <2>1 DEF Wide, Leads, Payload
  <2>3. Pieces(f) = <<Bytes(Len(f.value), Prefix[f.type]), f.value>>  BY <1>3 DEF Pieces
  <2> QED  BY <2>1, <2>2, <2>3 DEF Lead
<1>4. CASE f.type = "wstr"
  <2>1. ~Simple(f) /\ f.type # "vec"  BY <1>4 DEF Simple
  <2>2. Wide(f) = 4 /\ Leads(f) = Len(Narrow(f.value)) /\ Payload(f) = Narrow(f.value)
    BY <1>4, <2>1, Widths DEF Wide, Leads, Payload
  <2>3. Pieces(f) = <<Bytes(2 * Len(f.value), 4), Narrow(f.value)>>  BY <1>4 DEF Pieces
  <2>4. Len(Narrow(f.value)) = 2 * Len(f.value)
    <3>1. f.value \in Seq(Nat)
      <4>1. f.type \notin {"str", "str32", "vec", "bool"}  BY <1>4
      <4> QED  BY <1>4, <2>1, <4>1, FieldCases, SMT
    <3>2. Len(f.value) \in Nat /\ 2 * Len(f.value) \in Nat  BY <3>1, SeqIsFunction
    <3>3. Narrow(f.value) \in Strings
      <4>1. DOMAIN Pieces(f) = 1..2 /\ 2 \in 1..2 /\ Pieces(f)[2] = Narrow(f.value)  BY <2>3
      <4> QED  BY <4>1, PieceAssumption
    <3>4. Narrow(f.value) \in Seq(Mem)  BY <3>3, StringsAreBytes
    <3>5. DOMAIN Narrow(f.value) = 1..(2 * Len(f.value))  BY DEF Narrow
    <3>6. /\ Len(Narrow(f.value)) \in Nat
          /\ DOMAIN Narrow(f.value) = 1..Len(Narrow(f.value))
      BY <3>4, SeqIsFunction
    <3> QED  BY <3>2, <3>5, <3>6
  <2> QED  BY <2>1, <2>2, <2>3, <2>4 DEF Lead
<1>5. CASE f.type = "vec"
  <2>1. ~Simple(f) /\ f.type \notin {"str", "str32", "wstr"}  BY <1>5 DEF Simple
  <2>2. Wide(f) = 4 /\ Leads(f) = Len(f.value)
    BY <1>5, <2>1, Widths DEF Wide, Leads, Payload
  <2>3. Pieces(f) = <<Bytes(Len(f.value), 4)>> \o [i \in 1..Len(f.value) |-> <<f.value[i]>>]
    BY <1>5 DEF Pieces
  <2> QED  BY <2>1, <2>2, <2>3 DEF Lead
<1>6. Simple(f) \/ f.type \in {"str", "str32", "wstr", "vec"}  BY FieldCases, SMT
<1> QED  BY <1>1, <1>2, <1>3, <1>4, <1>5, <1>6

(* The elements of a vector, one by one. *)
Singles(v) == [i \in 1..Len(v) |-> <<v[i]>>]

(* The pieces of a vector are found behind its count. *)
LEMMA VectorPieces ==
    ASSUME NEW v \in Seq(Byte), NEW lead
    PROVE  /\ Len(<<lead>> \o Singles(v)) = 1 + Len(v)
           /\ (<<lead>> \o Singles(v))[1] = lead
           /\ \A i \in 1..Len(v) : (<<lead>> \o Singles(v))[1 + i] = <<v[i]>>
           /\ <<lead>> \o Singles(v) \in Seq({lead} \cup {<<x>> : x \in Byte})
<1> DEFINE S == {lead} \cup {<<x>> : x \in Byte}
<1>1. Len(v) \in Nat /\ \A i \in 1..Len(v) : v[i] \in Byte  BY SeqIsFunction
<1>2. Singles(v) \in [1..Len(v) -> S]  BY <1>1 DEF Singles
<1>3. \A i \in 1..Len(v) : Singles(v)[i] = <<v[i]>>  BY DEF Singles
<1>4. <<lead>> \in Seq(S) /\ Len(<<lead>>) = 1 /\ <<lead>>[1] = lead  OBVIOUS
<1> HIDE DEF S
<1>5. Singles(v) \in Seq(S) /\ Len(Singles(v)) = Len(v)  BY <1>1, <1>2, FunctionIsSeq
<1>6. /\ <<lead>> \o Singles(v) \in Seq(S)
      /\ Len(<<lead>> \o Singles(v)) = Len(<<lead>>) + Len(Singles(v))
      /\ \A i \in 1..Len(<<lead>>) : (<<lead>> \o Singles(v))[i] = <<lead>>[i]
      /\ \A i \in 1..Len(Singles(v)) : (<<lead>> \o Singles(v))[Len(<<lead>>) + i] = Singles(v)[i]
  BY <1>4, <1>5, Behind
<1> QED  BY <1>3, <1>4, <1>5, <1>6 DEF S

(* The bytes of a field: the integer it begins with fits its width, and a string
   follows the integer that is its length. *)
LEMMA EncodingFacts ==
    ASSUME NEW f \in Fields
    PROVE  /\ Wide(f) \in {1, 2, 4}
           /\ ~TooBig(f) => Fits(Leads(f), Wide(f))
           /\ Lead(f) \in Seq(Mem) /\ Len(Lead(f)) = Wide(f)
           /\ Encoding(f) \in Seq(Mem)
           /\ Simple(f) => Encoding(f) = Lead(f)
           /\ ~Simple(f) => /\ Payload(f) \in Seq(Mem) /\ Encoding(f) = Lead(f) \o Payload(f)
                            /\ Len(Encoding(f)) = Wide(f) + Len(Payload(f))
                            /\ Leads(f) = Len(Payload(f))
<1>1. Wide(f) \in {1, 2, 4}
  <2>1. CASE Simple(f)  BY <2>1, Widths DEF Wide, Simple
  <2>2. CASE ~Simple(f)
    <3>1. f.type \in {"str", "str32", "wstr", "vec"}  BY <2>2, FieldCases, SMT
    <3> QED  BY <2>2, <3>1, Widths DEF Wide
  <2> QED  BY <2>1, <2>2
<1>2. Lead(f) \in Strings
  <2>1. Pieces(f)[1] = Lead(f) /\ 1 \in DOMAIN Pieces(f)
    <3>1. CASE Simple(f)
      <4>1. Pieces(f) = <<Lead(f)>>  BY <3>1, PiecesAre
      <4> QED  BY <4>1
    <3>3. CASE f.type \in {"str", "str32", "wstr"}
      <4>1. Pieces(f) = <<Lead(f), Payload(f)>>  BY <3>3, PiecesAre
      <4> QED  BY <4>1
    <3>2. CASE ~Simple(f) /\ f.type = "vec"
      <4>1. f.value \in Seq(Byte)
        <5>1. f.type \notin {"wstr", "bool"}  BY <3>2
        <5> QED  BY <3>2, <5>1, FieldCases, SMT
      <4>2. Pieces(f) = <<Lead(f)>> \o Singles(f.value)  BY <3>2, PiecesAre DEF Singles
      <4>3. Len(f.value) \in Nat  BY <4>1, SeqIsFunction
      <4>4. /\ Len(Pieces(f)) = 1 + Len(f.value) /\ Pieces(f)[1] = Lead(f)
            /\ Pieces(f) \in Seq({Lead(f)} \cup {<<x>> : x \in Byte})
        BY <4>1, <4>2, VectorPieces
      <4>5. DOMAIN Pieces(f) = 1..(1 + Len(f.value))  BY <4>4, SeqIsFunction
      <4> QED  BY <4>3, <4>4, <4>5
    <3> QED  BY <3>1, <3>2, <3>3, FieldCases, SMT
  <2> QED  BY <2>1, PieceAssumption
<1>3. Lead(f) \in Seq(Mem)  BY <1>2, StringsAreBytes
<1>4. Len(Lead(f)) = Wide(f)
  <2>1. DOMAIN Lead(f) = 1..Wide(f)  BY DEF Lead, Bytes
  <2>2. Len(Lead(f)) \in Nat /\ DOMAIN Lead(f) = 1..Len(Lead(f))  BY <1>3, SeqIsFunction
  <2> QED  BY <1>1, <2>1, <2>2
<1>5. ~Simple(f) => Payload(f) \in Seq(Mem)
  <2>1. CASE ~Simple(f) /\ f.type = "wstr"
    <3>1. Pieces(f) = <<Lead(f), Payload(f)>>  BY <2>1, PiecesAre
    <3>2. DOMAIN Pieces(f) = 1..2 /\ 2 \in 1..2 /\ Pieces(f)[2] = Payload(f)  BY <3>1
    <3>3. Payload(f) \in Strings  BY <3>2, PieceAssumption
    <3> QED  BY <3>3, StringsAreBytes
  <2>2. CASE ~Simple(f) /\ f.type # "wstr"
    <3>1. f.value \in Seq(Byte)  BY <2>2, FieldCases, SMT
    <3>2. Payload(f) = f.value  BY <2>2 DEF Payload
    <3>3. Byte \subseteq Mem  BY DEF Mem
    <3> QED  BY <3>1, <3>2, <3>3, SeqMonotonic
  <2> QED  BY <2>1, <2>2
<1>6. ~Simple(f) => /\ Encoding(f) = Lead(f) \o Payload(f) /\ Encoding(f) \in Seq(Mem)
                    /\ Len(Encoding(f)) = Wide(f) + Len(Payload(f))
                    /\ Leads(f) = Len(Payload(f))
  BY <1>3, <1>4, <1>5, Behind DEF Encoding, Leads
<1>7. Simple(f) => Encoding(f) = Lead(f)  BY DEF Encoding
<1>8. ~TooBig(f) => Fits(Leads(f), Wide(f))
  <2>0. Place[1] = 1 /\ Place[2] = 256 /\ Place[4] = 16777216  BY SMT DEF Place
  <2>1. CASE Simple(f) /\ f.type = "bool" /\ f.value \in BOOLEAN
    <3>1. Leads(f) \in {0, 1} /\ Wide(f) = 1  BY <2>1, Widths DEF Leads, Wide, Value, Flag
    <3> QED  BY <2>0, <3>1, SMT DEF Fits
  <2>2. CASE Simple(f) /\ f.type # "bool" /\ Fits(f.value, Width[f.type])
    <3>1. Leads(f) = f.value /\ Wide(f) = Width[f.type]  BY <2>2 DEF Leads, Wide, Value
    <3> QED  BY <2>2, <3>1
  <2>3. CASE ~Simple(f) /\ f.type = "str" /\ f.value \in Seq(Byte)
    <3>1. Leads(f) = Len(f.value) /\ Wide(f) = 2 /\ Len(f.value) \in Nat
      <4>1. Len(f.value) \in Nat  BY <2>3, SeqIsFunction
      <4>2. Leads(f) = Len(f.value)  BY <2>3 DEF Leads, Payload
      <4>3. Wide(f) = 2  BY <2>3, Widths DEF Wide
      <4> QED  BY <4>1, <4>2, <4>3
    <3>2. Fits(MaxVarstr, 2)  BY FieldAssumption DEF Prefix
    <3>3. ~TooBig(f) => Len(f.value) <= MaxVarstr  BY <2>3, <3>1, <3>2, SMT DEF TooBig, Fits
    <3> QED  BY <2>0, <3>1, <3>2, <3>3, SMT DEF Fits
  <2>4. CASE /\ ~Simple(f) /\ f.type \in {"str32", "vec"}
             /\ f.value \in Seq(Byte) /\ Len(f.value) < MaxLength
    <3>1. Leads(f) = Len(f.value) /\ Wide(f) = 4 /\ Len(f.value) \in Nat
      BY <2>4, Widths, SeqIsFunction, SMT DEF Leads, Wide, Payload
    <3> QED  BY <2>0, <2>4, <3>1, SMT DEF Fits, MaxLength
  <2>5. CASE /\ ~Simple(f) /\ f.type = "wstr"
             /\ f.value \in Seq(Nat) /\ Len(f.value) < MaxLength
    <3>1. Leads(f) = Len(Payload(f)) /\ Wide(f) = 4 /\ Len(f.value) \in Nat
      BY <2>5, Widths, SeqIsFunction, SMT DEF Leads, Wide
    <3>2. Len(Payload(f)) = 2 * Len(f.value)
      <4>1. DOMAIN Payload(f) = 1..(2 * Len(f.value))  BY <2>5, SMT DEF Payload, Narrow
      <4>2. Payload(f) \in Seq(Mem)  BY <1>5, <2>5, SMT
      <4>3. Len(Payload(f)) \in Nat /\ DOMAIN Payload(f) = 1..Len(Payload(f))  BY <4>2, SeqIsFunction
      <4> QED  BY <3>1, <4>1, <4>3
    <3> QED  BY <2>0, <2>5, <3>1, <3>2, SMT DEF Fits, MaxLength
  <2>6. f.type \in {"str", "str32", "vec"} <=> f.type = "str" \/ f.type \in {"str32", "vec"}  OBVIOUS
  <2> QED  BY <2>1, <2>2, <2>3, <2>4, <2>5, <2>6, FieldCases, SMT
<1> QED  BY <1>1, <1>3, <1>4, <1>5, <1>6, <1>7, <1>8

-----------------------------------------------------------------------------
(* A field that is appended piece by piece. *)

(* Where the first k pieces end in the bytes of the field. *)
Offset(f, k) ==
    IF k = 0 THEN 0
    ELSE IF k = Len(Pieces(f)) THEN Len(Encoding(f)) ELSE Wide(f) + k - 1

(* What the first k pieces are. *)
Upto(f, k) == SubSeq(Encoding(f), 1, Offset(f, k))

(* The pieces of a field are strings, at least one. *)
LEMMA PiecesAreStrings ==
    ASSUME NEW f \in Fields
    PROVE  /\ Pieces(f) \in Seq(Strings) /\ Len(Pieces(f)) \in Nat \ {0}
           /\ Simple(f) => Len(Pieces(f)) = 1
           /\ f.type \in {"str", "str32", "wstr"} => Len(Pieces(f)) = 2
           /\ f.type = "vec" => Len(Pieces(f)) = 1 + Len(f.value) /\ f.value \in Seq(Byte)
<1>1. ASSUME NEW S, NEW n \in Nat \ {0}, Pieces(f) \in Seq(S), Len(Pieces(f)) = n
      PROVE  Pieces(f) \in Seq(Strings)
  <2>1. Pieces(f) \in [1..n -> S] /\ DOMAIN Pieces(f) = 1..n  BY <1>1, LenProperties
  <2>2. \A i \in 1..n : Pieces(f)[i] \in Strings  BY <2>1, PieceAssumption
  <2>3. Pieces(f) \in [1..n -> Strings]  BY <2>1, <2>2
  <2> QED  BY <2>3, FunctionIsSeq
<1>2. CASE Simple(f)
  <2>1. Pieces(f) = <<Lead(f)>>  BY <1>2, PiecesAre
  <2>2. Pieces(f) \in Seq({Lead(f)}) /\ Len(Pieces(f)) = 1  BY <2>1
  <2>3. f.type \notin {"str", "str32", "wstr", "vec"}  BY <1>2 DEF Simple
  <2> QED  BY <1>1, <2>2, <2>3
<1>3. CASE f.type \in {"str", "str32", "wstr"}
  <2>1. Pieces(f) = <<Lead(f), Payload(f)>>  BY <1>3, PiecesAre
  <2>2. Pieces(f) \in Seq({Lead(f), Payload(f)}) /\ Len(Pieces(f)) = 2  BY <2>1
  <2>3. ~Simple(f) /\ f.type # "vec"  BY <1>3 DEF Simple
  <2> QED  BY <1>1, <2>2, <2>3
<1>4. CASE f.type = "vec"
  <2>1. ~Simple(f) /\ f.type \notin {"str", "str32", "wstr"}  BY <1>4 DEF Simple
  <2>2. f.value \in Seq(Byte)  BY <1>4, <2>1, FieldCases
  <2>3. Pieces(f) = <<Lead(f)>> \o Singles(f.value)  BY <1>4, PiecesAre DEF Singles
  <2>4. /\ Len(Pieces(f)) = 1 + Len(f.value)
        /\ Pieces(f) \in Seq({Lead(f)} \cup {<<x>> : x \in Byte})
    BY <2>2, <2>3, VectorPieces
  <2>5. Len(f.value) \in Nat  BY <2>2, SeqIsFunction
  <2>6. 1 + Len(f.value) \in Nat \ {0}  BY <2>5
  <2> QED  BY <1>1, <2>1, <2>2, <2>4, <2>6
<1>5. Simple(f) \/ f.type \in {"str", "str32", "wstr"} \/ f.type = "vec"  BY FieldCases
<1> QED  BY <1>2, <1>3, <1>4, <1>5

(* Each piece has its place in the bytes of the field, where those before it
   end. *)
LEMMA PieceInPlace ==
    ASSUME NEW f \in Fields, NEW k \in 0..(Len(Pieces(f)) - 1)
    PROVE  /\ Offset(f, k) \in Nat
           /\ Offset(f, k + 1) = Offset(f, k) + Len(Pieces(f)[k + 1])
           /\ Offset(f, k + 1) <= Len(Encoding(f))
           /\ \A i \in 1..Len(Pieces(f)[k + 1]) : Encoding(f)[Offset(f, k) + i] = Pieces(f)[k + 1][i]
<1>0. /\ Wide(f) \in Nat /\ Lead(f) \in Seq(Mem) /\ Len(Lead(f)) = Wide(f)
      /\ Simple(f) => Encoding(f) = Lead(f)
      /\ ~Simple(f) => /\ Payload(f) \in Seq(Mem) /\ Encoding(f) = Lead(f) \o Payload(f)
                       /\ Len(Encoding(f)) = Wide(f) + Len(Payload(f))
  BY EncodingFacts
<1>1. Len(Pieces(f)) \in Nat \ {0}  BY PiecesAreStrings
<1>2. CASE Simple(f)
  <2>1. Pieces(f) = <<Lead(f)>> /\ Len(Pieces(f)) = 1  BY <1>2, PiecesAre, PiecesAreStrings
  <2>2. k = 0 /\ k + 1 = 1 /\ Pieces(f)[1] = Lead(f)  BY <2>1
  <2>3. Offset(f, k) = 0 /\ Offset(f, k + 1) = Wide(f)  BY <1>0, <1>2, <2>1, <2>2 DEF Offset
  <2> QED  BY <1>0, <1>2, <2>2, <2>3
<1>3. ASSUME ~Simple(f)
      PROVE  /\ Len(Payload(f)) \in Nat
             /\ \A i \in 1..Wide(f) : Encoding(f)[i] = Lead(f)[i]
             /\ \A i \in 1..Len(Payload(f)) : Encoding(f)[Wide(f) + i] = Payload(f)[i]
  BY <1>0, <1>3, Behind
<1>4. CASE f.type \in {"str", "str32", "wstr"}
  <2>0. ~Simple(f)  BY <1>4 DEF Simple
  <2>1. Pieces(f) = <<Lead(f), Payload(f)>> /\ Len(Pieces(f)) = 2  BY <1>4, PiecesAre, PiecesAreStrings
  <2>2. Pieces(f)[1] = Lead(f) /\ Pieces(f)[2] = Payload(f)  BY <2>1
  <2>3. CASE k = 0
    <3>1. Offset(f, k) = 0 /\ Offset(f, k + 1) = Wide(f) /\ k + 1 = 1  BY <1>0, <2>1, <2>3 DEF Offset
    <3> QED  BY <1>0, <1>3, <2>0, <2>2, <3>1
  <2>4. CASE k = 1
    <3>1. /\ Offset(f, k) = Wide(f) /\ Offset(f, k + 1) = Wide(f) + Len(Payload(f)) /\ k + 1 = 2
      BY <1>0, <2>0, <2>1, <2>4 DEF Offset
    <3> QED  BY <1>0, <1>3, <2>0, <2>2, <3>1
  <2> QED  BY <2>1, <2>3, <2>4
<1>5. CASE f.type = "vec"
  <2>0. ~Simple(f) /\ f.type \notin {"str", "str32", "wstr"}  BY <1>5 DEF Simple
  <2>1. f.value \in Seq(Byte) /\ Len(Pieces(f)) = 1 + Len(f.value)  BY <1>5, PiecesAreStrings
  <2>2. Payload(f) = f.value  BY <1>5 DEF Payload
  <2>3. Pieces(f) = <<Lead(f)>> \o Singles(f.value)  BY <1>5, PiecesAre DEF Singles
  <2>4. Pieces(f)[1] = Lead(f) /\ \A i \in 1..Len(f.value) : Pieces(f)[1 + i] = <<f.value[i]>>
    <3>1. f.value \in Seq(Byte)  BY <2>1
    <3> DEFINE v == f.value  lead == Lead(f)
    <3>2. /\ (<<lead>> \o Singles(v))[1] = lead
          /\ \A i \in 1..Len(v) : (<<lead>> \o Singles(v))[1 + i] = <<v[i]>>
      <4> HIDE DEF v, lead
      <4>1. v \in Seq(Byte)  BY <3>1 DEF v
      <4> QED  BY <4>1, VectorPieces
    <3> QED  BY <2>3, <3>2
  <2>5. ASSUME NEW i \in 1..Len(Pieces(f)) PROVE Offset(f, i) = Wide(f) + (i - 1)
    BY <1>0, <1>3, <2>0, <2>1, <2>2, <2>5 DEF Offset
  <2>6. Len(f.value) \in Nat  BY <2>1, SeqIsFunction
  <2>7. CASE k = 0
    <3>1. 1 \in 1..Len(Pieces(f)) /\ k + 1 = 1  BY <2>1, <2>6, <2>7
    <3>2. Offset(f, k) = 0 /\ Offset(f, k + 1) = Wide(f)
      <4>1. Offset(f, 1) = Wide(f) + (1 - 1)  BY <2>5, <3>1
      <4>2. Offset(f, 0) = 0  BY DEF Offset
      <4> QED  BY <1>0, <2>7, <3>1, <4>1, <4>2
    <3> QED  BY <1>0, <1>3, <2>0, <2>4, <3>1, <3>2
  <2>8. CASE k # 0
    <3>1. k \in 1..Len(f.value) /\ k \in 1..Len(Pieces(f)) /\ k + 1 \in 1..Len(Pieces(f)) /\ k + 1 = 1 + k
      BY <2>1, <2>6, <2>8
    <3>2. Offset(f, k) = Wide(f) + (k - 1) /\ Offset(f, k + 1) = Wide(f) + k  BY <2>5, <3>1
    <3>3. Pieces(f)[k + 1] = <<f.value[k]>>  BY <2>4, <3>1
    <3>4. Len(<<f.value[k]>>) = 1 /\ <<f.value[k]>>[1] = f.value[k]  OBVIOUS
    <3>5. Encoding(f)[Wide(f) + k] = f.value[k]  BY <1>3, <2>0, <2>2, <3>1
    <3>6. Wide(f) + (k - 1) + 1 = Wide(f) + k /\ Wide(f) + (k - 1) \in Nat /\ k <= Len(f.value)  BY <1>0, <3>1
    <3>7. \A i \in 1..1 : i = 1  OBVIOUS
    <3> QED  BY <1>0, <2>0, <2>2, <3>1, <3>2, <3>3, <3>4, <3>5, <3>6, <3>7
  <2> QED  BY <2>7, <2>8
<1>6. Simple(f) \/ f.type \in {"str", "str32", "wstr"} \/ f.type = "vec"  BY FieldCases
<1> QED  BY <1>2, <1>4, <1>5, <1>6

(* A string cut behind t is what it is cut to before t, and t. *)
LEMMA PrefixGrows ==
    ASSUME NEW S, NEW s \in Seq(S), NEW n \in Nat, NEW t \in Seq(S), n + Len(t) <= Len(s),
           \A i \in 1..Len(t) : s[n + i] = t[i]
    PROVE  SubSeq(s, 1, n + Len(t)) = SubSeq(s, 1, n) \o t
<1> DEFINE p == SubSeq(s, 1, n)  l == SubSeq(s, 1, n + Len(t))
<1>1. Len(s) \in Nat /\ Len(t) \in Nat  BY SeqIsFunction
<1>2. n \in 0..Len(s) /\ n + Len(t) \in 0..Len(s)  BY <1>1
<1>3. p \in Seq(S) /\ Len(p) = n /\ \A i \in 1..n : p[i] = s[i]  BY <1>2, PrefixFacts
<1>4. l \in Seq(S) /\ Len(l) = n + Len(t) /\ \A i \in 1..(n + Len(t)) : l[i] = s[i]
  BY <1>2, PrefixFacts
<1> HIDE DEF p, l
<1>5. /\ p \o t \in Seq(S) /\ Len(p \o t) = Len(p) + Len(t)
      /\ \A i \in 1..Len(p) : (p \o t)[i] = p[i]
      /\ \A i \in 1..Len(t) : (p \o t)[Len(p) + i] = t[i]
  <2>1. p \in Seq(S)  BY <1>3
  <2> QED  BY <2>1, Behind
<1>6. ASSUME NEW i \in 1..Len(l) PROVE l[i] = (p \o t)[i]
  <2>1. CASE i <= n
    <3>1. i \in 1..n /\ i \in 1..Len(p) /\ i \in 1..(n + Len(t))  BY <1>1, <1>3, <2>1
    <3> QED  BY <1>3, <1>4, <1>5, <3>1
  <2>2. CASE i > n
    <3>1. PICK j \in 1..Len(t) : i = n + j
      <4>1. i - n \in 1..Len(t) /\ i = n + (i - n)  BY <1>1, <1>4, <2>2
      <4> QED  BY <4>1
    <3>2. l[i] = s[n + j]  BY <1>4, <3>1
    <3>3. (p \o t)[n + j] = t[j]  BY <1>3, <1>5
    <3> QED  BY <3>1, <3>2, <3>3
  <2>3. i \in Int /\ n \in Int  OBVIOUS
  <2>4. i <= n \/ i > n  BY <2>3
  <2> QED  BY <2>1, <2>2, <2>4
<1>7. Len(l) = Len(p \o t)  BY <1>3, <1>4, <1>5
<1>8. l = p \o t  BY <1>4, <1>5, <1>6, <1>7, SeqEqual
<1> QED  BY <1>8 DEF l, p

(* Piece by piece, the bytes of a field are complete. *)
LEMMA UptoFacts ==
    ASSUME NEW f \in Fields
    PROVE  /\ Upto(f, 0) = <<>>
           /\ Upto(f, Len(Pieces(f))) = Encoding(f)
           /\ \A k \in 0..(Len(Pieces(f)) - 1) : Upto(f, k + 1) = Upto(f, k) \o Pieces(f)[k + 1]
<1>1. Encoding(f) \in Seq(Mem)  BY EncodingFacts
<1>2. Pieces(f) \in Seq(Strings) /\ Len(Pieces(f)) \in Nat \ {0}  BY PiecesAreStrings
<1>3. Upto(f, 0) = <<>>
  <2>1. Offset(f, 0) = 0  BY DEF Offset
  <2>2. SubSeq(Encoding(f), 1, 0) = <<>>  BY SubSeqEmpty
  <2> QED  BY <2>1, <2>2 DEF Upto
<1>4. Upto(f, Len(Pieces(f))) = Encoding(f)
  <2>1. Offset(f, Len(Pieces(f))) = Len(Encoding(f))  BY <1>2 DEF Offset
  <2>2. SubSeq(Encoding(f), 1, Len(Encoding(f))) = Encoding(f)  BY <1>1, SubSeqFull
  <2> QED  BY <2>1, <2>2 DEF Upto
<1>5. ASSUME NEW k \in 0..(Len(Pieces(f)) - 1) PROVE Upto(f, k + 1) = Upto(f, k) \o Pieces(f)[k + 1]
  <2> DEFINE t == Pieces(f)[k + 1]  n == Offset(f, k)
  <2>1. /\ n \in Nat /\ Offset(f, k + 1) = n + Len(t) /\ Offset(f, k + 1) <= Len(Encoding(f))
        /\ \A i \in 1..Len(t) : Encoding(f)[n + i] = t[i]
    BY PieceInPlace
  <2>2. t \in Strings
    <3>1. k + 1 \in 1..Len(Pieces(f))  BY <1>2
    <3> QED  BY <1>2, <3>1, ElementOfSeq
  <2>3. t \in Seq(Mem)  BY <2>2, StringsAreBytes
  <2> HIDE DEF t, n
  <2>4. SubSeq(Encoding(f), 1, n + Len(t)) = SubSeq(Encoding(f), 1, n) \o t
    BY <1>1, <2>1, <2>3, PrefixGrows
  <2> QED  BY <2>1, <2>4 DEF Upto, t, n
<1> QED  BY <1>3, <1>4, <1>5

-----------------------------------------------------------------------------
(* What a pop makes of the bytes of a field. *)

(* The integer that leads a field is read back, if its bytes are there. *)
LEMMA LeadIsRead ==
    ASSUME NEW f \in Fields, ~TooBig(f), NEW s, \A i \in 1..Wide(f) : s[i] = Lead(f)[i]
    PROVE  Number(s, Wide(f)) = Leads(f)
<1>1. Wide(f) \in {1, 2, 4} /\ Fits(Leads(f), Wide(f))  BY EncodingFacts
<1>2. \A i \in 1..Wide(f) : s[i] = Bytes(Leads(f), Wide(f))[i]  BY DEF Lead
<1> HIDE DEF Wide, Leads
<1> QED  BY <1>1, <1>2, RoundTrip

(* A pop of a type takes what a field of the type begins with. *)
LEMMA PoppedAs ==
    ASSUME NEW f \in Fields, NEW s
    PROVE  LET p == Popped(f.type, s)  used == Wide(f) + Number(s, Wide(f))
           IN  /\ Simple(f) => (p.ok <=> Len(s) >= Wide(f)) /\ p.used = Wide(f)
               /\ ~Simple(f) /\ Len(s) < Wide(f) => (p.ok => Len(s) >= Wide(f))
               /\ ~Simple(f) /\ ~(Len(s) < Wide(f)) =>
                     (p.ok <=> Len(s) >= Wide(f) /\ Len(s) >= used) /\ p.used = used
<1>1. Simple(f) <=> f.type \in DOMAIN Width  BY Widths DEF Simple
<1>2. CASE Simple(f)
  <2>1. Wide(f) = Width[f.type]  BY <1>2 DEF Wide
  <2> QED  BY <1>1, <1>2, <2>1 DEF Popped
<1>3. CASE ~Simple(f)
  <2>1. Wide(f) = Prefix[f.type]  BY <1>3 DEF Wide
  <2> QED  BY <1>1, <1>3, <2>1 DEF Popped
<1> QED  BY <1>2, <1>3

(* s is a part of the bytes of a field that lacks the end; of a string too long
   for its length, nothing is there. *)
Short(f, s) ==
    IF TooBig(f) THEN s = <<>>
    ELSE Len(s) < Len(Encoding(f)) /\ \A i \in 1..Len(s) : s[i] = Encoding(f)[i]

(* A pop of a field that lacks its end throws. *)
LEMMA PopShort ==
    ASSUME NEW f \in Fields, NEW s \in Seq(Mem), Short(f, s)
    PROVE  ~Popped(f.type, s).ok
<1>0. /\ Wide(f) \in {1, 2, 4} /\ Lead(f) \in Seq(Mem) /\ Len(Lead(f)) = Wide(f)
      /\ Simple(f) => Encoding(f) = Lead(f)
      /\ ~Simple(f) => /\ Payload(f) \in Seq(Mem) /\ Encoding(f) = Lead(f) \o Payload(f)
                       /\ Len(Encoding(f)) = Wide(f) + Len(Payload(f))
                       /\ Leads(f) = Len(Payload(f))
  BY EncodingFacts
<1>1. Len(s) \in Nat  BY SeqIsFunction
<1>2. CASE TooBig(f)
  <2>1. s = <<>> /\ Len(s) = 0  BY <1>2, EmptySeq DEF Short
  <2>2. ~Simple(f)  BY <1>2 DEF TooBig, Simple
  <2>3. Len(s) < Wide(f)  BY <1>0, <2>1
  <2>4. ~(Len(s) >= Wide(f))  BY <1>0, <2>1
  <2> QED  BY <2>2, <2>3, <2>4, PoppedAs
<1>3. CASE ~TooBig(f) /\ Simple(f)
  <2>1. ~(Len(s) >= Wide(f))  BY <1>0, <1>1, <1>3 DEF Short
  <2> QED  BY <1>3, <2>1, PoppedAs
<1>4. CASE ~TooBig(f) /\ ~Simple(f) /\ Len(s) < Wide(f)
  <2>1. ~(Len(s) >= Wide(f))  BY <1>0, <1>1, <1>4
  <2> QED  BY <1>4, <2>1, PoppedAs
<1>5. CASE ~TooBig(f) /\ ~Simple(f) /\ ~(Len(s) < Wide(f))
  <2>1. /\ Len(s) < Wide(f) + Len(Payload(f)) /\ Len(Payload(f)) \in Nat
        /\ \A i \in 1..Len(s) : s[i] = Encoding(f)[i]
    BY <1>0, <1>5, SeqIsFunction DEF Short
  <2>2. \A i \in 1..Wide(f) : Encoding(f)[i] = Lead(f)[i]  BY <1>0, <1>5, Behind
  <2>3. \A i \in 1..Wide(f) : s[i] = Lead(f)[i]
    <3>1. \A i \in 1..Wide(f) : i \in 1..Len(s)  BY <1>0, <1>1, <1>5
    <3> QED  BY <2>1, <2>2, <3>1
  <2>4. Number(s, Wide(f)) = Len(Payload(f))  BY <1>0, <1>5, <2>3, LeadIsRead
  <2>5. ~(Len(s) >= Wide(f) + Len(Payload(f)))  BY <1>0, <1>1, <2>1
  <2>6. Popped(f.type, s).ok => Len(s) >= Wide(f) + Number(s, Wide(f))  BY <1>5, PoppedAs
  <2> QED  BY <2>4, <2>5, <2>6
<1> QED  BY <1>2, <1>3, <1>4, <1>5

(* The value of the bytes of a field is what is delivered of it. *)
LEMMA EncodingIsRead ==
    ASSUME NEW f \in Fields, ~TooBig(f)
    PROVE  ValueOf(f.type, Encoding(f)) = Delivered(f)
<1>0. /\ Wide(f) \in {1, 2, 4} /\ Lead(f) \in Seq(Mem) /\ Len(Lead(f)) = Wide(f)
      /\ Simple(f) => Encoding(f) = Lead(f)
      /\ ~Simple(f) => /\ Payload(f) \in Seq(Mem) /\ Encoding(f) = Lead(f) \o Payload(f)
                       /\ Len(Encoding(f)) = Wide(f) + Len(Payload(f))
                       /\ Leads(f) = Len(Payload(f))
  BY EncodingFacts
<1>1. Simple(f) <=> f.type \in DOMAIN Width  BY Widths DEF Simple
<1>2. CASE Simple(f) /\ f.type = "bool" /\ f.value \in BOOLEAN
  <2>1. Encoding(f) = Bytes(Flag(f.value), 1)  BY <1>0, <1>2, Widths DEF Lead, Leads, Wide, Value
  <2>2. Encoding(f)[1] = (Flag(f.value) \div Place[1]) % 256  BY <2>1 DEF Bytes
  <2>3. Place[1] = 1  BY DEF Place
  <2>4. (Encoding(f)[1] # 0) = f.value
    <3>1. CASE f.value = TRUE
      <4>1. Flag(f.value) = 1  BY <3>1 DEF Flag
      <4>2. (1 \div 1) % 256 = 1  BY SMT
      <4>3. Encoding(f)[1] # 0  BY <2>2, <2>3, <4>1, <4>2
      <4>4. (Encoding(f)[1] # 0) = TRUE  BY <4>3, Zenon
      <4> QED  BY <3>1, <4>4, Zenon
    <3>2. CASE f.value = FALSE
      <4>1. Flag(f.value) = 0  BY <3>2 DEF Flag
      <4>2. (0 \div 1) % 256 = 0  BY SMT
      <4>3. Encoding(f)[1] = 0  BY <2>2, <2>3, <4>1, <4>2
      <4>4. (Encoding(f)[1] # 0) = FALSE  BY <4>3, Zenon
      <4> QED  BY <3>2, <4>4, Zenon
    <3> QED  BY <1>2, <3>1, <3>2, Zenon
  <2>5. ValueOf(f.type, Encoding(f)) = (Encoding(f)[1] # 0)  BY <1>2 DEF ValueOf
  <2>6. Delivered(f) = f.value  BY <1>2 DEF Delivered
  <2> QED  BY <2>4, <2>5, <2>6
<1>3. CASE Simple(f) /\ f.type # "bool"
  <2>1. Number(Encoding(f), Wide(f)) = Leads(f)  BY <1>0, <1>3, LeadIsRead
  <2>2. Leads(f) = f.value /\ Wide(f) = Width[f.type]  BY <1>3 DEF Leads, Value, Wide
  <2>3. ValueOf(f.type, Encoding(f)) = Number(Encoding(f), Width[f.type])
    <3>1. f.type \in {"u8", "u16", "u32"}  BY <1>3 DEF Simple
    <3> QED  BY <3>1 DEF ValueOf
  <2>4. Delivered(f) = f.value  BY <1>3 DEF Delivered, Simple
  <2> QED  BY <2>1, <2>2, <2>3, <2>4
<1>4. CASE ~Simple(f) /\ f.type # "wstr"
  <2>1. Prefix[f.type] = Wide(f)  BY <1>4 DEF Wide
  <2>2. ValueOf(f.type, Encoding(f)) = SubSeq(Encoding(f), Wide(f) + 1, Len(Encoding(f)))
    <3>1. f.type \notin {"bool", "u8", "u16", "u32", "wstr"}  BY <1>4 DEF Simple
    <3> QED  BY <2>1, <3>1 DEF ValueOf
  <2>3. SubSeq(Encoding(f), Wide(f) + 1, Len(Encoding(f))) = Payload(f)  BY <1>0, <1>4, Second
  <2>4. Delivered(f) = Payload(f)  BY <1>4 DEF Delivered, Payload
  <2> QED  BY <2>2, <2>3, <2>4
<1>5. CASE ~Simple(f) /\ f.type = "wstr"
  <2> DEFINE v == f.value  e == Encoding(f)
  <2>1. v \in Seq(Nat) /\ Len(v) \in Nat
    <3>1. v \in Seq(Nat)  BY <1>5, FieldCases
    <3> QED  BY <3>1, SeqIsFunction
  <2>2. Wide(f) = 4 /\ Payload(f) = Narrow(v)  BY <1>5, Widths DEF Wide, Payload
  <2>3. Len(Payload(f)) = 2 * Len(v)
    <3>1. DOMAIN Payload(f) = 1..(2 * Len(v))  BY <2>2 DEF Narrow
    <3>2. Len(Payload(f)) \in Nat /\ DOMAIN Payload(f) = 1..Len(Payload(f))  BY <1>0, <1>5, SeqIsFunction
    <3> QED  BY <2>1, <3>1, <3>2
  <2>4. \A i \in 1..Len(Payload(f)) : e[4 + i] = Payload(f)[i]
    <3>1. /\ Lead(f) \in Seq(Mem) /\ Len(Lead(f)) = 4 /\ Payload(f) \in Seq(Mem)
          /\ Encoding(f) = Lead(f) \o Payload(f)
      BY <1>0, <1>5, <2>2
    <3>2. \A i \in 1..Len(Payload(f)) : (Lead(f) \o Payload(f))[Len(Lead(f)) + i] = Payload(f)[i]
      <4> DEFINE l == Lead(f)  p == Payload(f)
      <4>1. l \in Seq(Mem) /\ p \in Seq(Mem)  BY <3>1
      <4> HIDE DEF l, p
      <4>2. \A i \in 1..Len(p) : (l \o p)[Len(l) + i] = p[i]  BY <4>1, Behind
      <4> QED  BY <4>2 DEF l, p
    <3> QED  BY <3>1, <3>2
  <2>5. Len(e) = 4 + 2 * Len(v) /\ (Len(e) - 4) \div 2 = Len(v)
    <3>1. Len(e) = 4 + 2 * Len(v)  BY <1>0, <1>5, <2>2, <2>3
    <3> HIDE DEF v, e
    <3>2. (4 + 2 * Len(v) - 4) \div 2 = Len(v)  BY <2>1, SMT
    <3> QED  BY <3>1, <3>2
  <2>6. ValueOf(f.type, e) = [i \in 1..((Len(e) - 4) \div 2) |-> e[3 + 2 * i] + 256 * e[4 + 2 * i]]
    <3>1. "wstr" \notin {"bool", "u8", "u16", "u32"}  OBVIOUS
    <3> QED  BY <1>5, <3>1 DEF ValueOf
  <2>7. Delivered(f) = [i \in 1..Len(v) |-> v[i] % 256]  BY <1>5 DEF Delivered
  <2>8. \A i \in 1..(2 * Len(v)) : Payload(f)[i] = IF i % 2 = 1 THEN v[(i + 1) \div 2] % 256 ELSE 0
    BY <2>2 DEF Narrow
  <2> HIDE DEF v, e
  <2>9. ASSUME NEW i \in 1..Len(v) PROVE e[3 + 2 * i] + 256 * e[4 + 2 * i] = v[i] % 256
    <3>1. /\ 2 * i - 1 \in 1..(2 * Len(v)) /\ 2 * i \in 1..(2 * Len(v))
          /\ (2 * i - 1) % 2 = 1 /\ (2 * i - 1 + 1) \div 2 = i /\ (2 * i) % 2 = 0
          /\ 4 + (2 * i - 1) = 3 + 2 * i
      BY <2>1, SMT
    <3>2. Payload(f)[2 * i - 1] = v[i] % 256
      <4>1. Payload(f)[2 * i - 1] = v[(2 * i - 1 + 1) \div 2] % 256  BY <2>8, <3>1
      <4> QED  BY <3>1, <4>1
    <3>3. Payload(f)[2 * i] = 0
      <4>1. ~((2 * i) % 2 = 1)  BY <3>1
      <4> QED  BY <2>8, <3>1, <4>1
    <3>4. e[4 + (2 * i - 1)] = Payload(f)[2 * i - 1] /\ e[4 + 2 * i] = Payload(f)[2 * i]
      BY <2>3, <2>4, <3>1
    <3>5. v[i] \in Nat  BY <2>1, ElementOfSeq
    <3>6. v[i] % 256 \in Nat  BY <3>5, SMT
    <3>7. e[3 + 2 * i] = v[i] % 256 /\ e[4 + 2 * i] = 0  BY <3>1, <3>2, <3>3, <3>4
    <3> QED  BY <3>6, <3>7
  <2>10. [i \in 1..Len(v) |-> e[3 + 2 * i] + 256 * e[4 + 2 * i]] = [i \in 1..Len(v) |-> v[i] % 256]
    BY <2>9
  <2>11. ValueOf(f.type, e) = Delivered(f)  BY <2>5, <2>6, <2>7, <2>10
  <2> QED  BY <2>11 DEF e
<1> QED  BY <1>2, <1>3, <1>4, <1>5, FieldCases

(* A pop of a field that is there delivers it and leaves what is behind it. *)
LEMMA PopWhole ==
    ASSUME NEW f \in Fields, ~TooBig(f), NEW e \in Seq(Mem), NEW v
    PROVE  Pop([ok |-> TRUE, values |-> v, rest |-> Encoding(f) \o e], f.type) =
               [ok |-> TRUE, values |-> Append(v, Delivered(f)), rest |-> e]
<1> DEFINE s == Encoding(f) \o e
<1>0. /\ Wide(f) \in {1, 2, 4} /\ Lead(f) \in Seq(Mem) /\ Len(Lead(f)) = Wide(f)
      /\ Encoding(f) \in Seq(Mem)
      /\ Simple(f) => Encoding(f) = Lead(f)
      /\ ~Simple(f) => /\ Payload(f) \in Seq(Mem) /\ Encoding(f) = Lead(f) \o Payload(f)
                       /\ Len(Encoding(f)) = Wide(f) + Len(Payload(f))
                       /\ Leads(f) = Len(Payload(f))
  BY EncodingFacts
<1>1. /\ s \in Seq(Mem) /\ Len(s) = Len(Encoding(f)) + Len(e)
      /\ Len(Encoding(f)) \in Nat /\ Len(e) \in Nat
      /\ \A i \in 1..Len(Encoding(f)) : s[i] = Encoding(f)[i]
  BY <1>0, Behind
<1>2. SubSeq(s, 1, Len(Encoding(f))) = Encoding(f) /\ SubSeq(s, Len(Encoding(f)) + 1, Len(s)) = e
  BY <1>0, Second
<1> HIDE DEF s
<1>3. Popped(f.type, s).ok /\ Popped(f.type, s).used = Len(Encoding(f))
  <2>1. CASE Simple(f)
    <3>1. Len(s) >= Wide(f) /\ Len(Encoding(f)) = Wide(f)  BY <1>0, <1>1, <2>1
    <3> QED  BY <2>1, <3>1, PoppedAs
  <2>2. CASE ~Simple(f)
    <3>1. Len(Payload(f)) \in Nat  BY <1>0, <2>2, SeqIsFunction
    <3>2. ~(Len(s) < Wide(f)) /\ Len(s) >= Wide(f) /\ Len(s) >= Wide(f) + Len(Payload(f))
      BY <1>0, <1>1, <2>2, <3>1
    <3>3. \A i \in 1..Wide(f) : Encoding(f)[i] = Lead(f)[i]  BY <1>0, <2>2, Behind
    <3>4. \A i \in 1..Wide(f) : s[i] = Lead(f)[i]
      <4>1. \A i \in 1..Wide(f) : i \in 1..Len(Encoding(f))  BY <1>0, <1>1, <2>2, <3>1
      <4> QED  BY <1>1, <3>3, <4>1
    <3>5. Number(s, Wide(f)) = Len(Payload(f))  BY <1>0, <2>2, <3>4, LeadIsRead
    <3>6. /\ Popped(f.type, s).ok <=>
                Len(s) >= Wide(f) /\ Len(s) >= Wide(f) + Number(s, Wide(f))
          /\ Popped(f.type, s).used = Wide(f) + Number(s, Wide(f))
      BY <2>2, <3>2, PoppedAs
    <3> QED  BY <1>0, <2>2, <3>2, <3>5, <3>6
  <2> QED  BY <2>1, <2>2
<1>4. ValueOf(f.type, Encoding(f)) = Delivered(f)  BY EncodingIsRead
<1> DEFINE read == [ok |-> TRUE, values |-> v, rest |-> s]
<1>5. read.ok /\ read.values = v /\ read.rest = s  OBVIOUS
<1> HIDE DEF read
<1>6. Pop(read, f.type) = [ok |-> TRUE, values |-> Append(v, Delivered(f)), rest |-> e]
  BY <1>2, <1>3, <1>4, <1>5 DEF Pop
<1> QED  BY <1>6 DEF read, s

-----------------------------------------------------------------------------
(* Fields behind each other. *)

(* What arrives of fields. *)
Deliveries(fields) == [i \in DOMAIN fields |-> Delivered(fields[i])]

(* The types of fields with one field more. *)
LEMMA TypesMore ==
    ASSUME NEW fields \in Seq(Fields), NEW f \in Fields
    PROVE  /\ Types(fields) \in Seq({x.type : x \in Fields})
           /\ Types(Append(fields, f)) = Append(Types(fields), f.type)
<1> DEFINE S == {x.type : x \in Fields}  n == Len(fields)  more == Append(fields, f)
           t == Types(fields)  tm == Types(more)
<1>1. n \in Nat /\ \A i \in 1..n : fields[i] \in Fields  BY SeqIsFunction
<1>2. Len(more) = n + 1 /\ (\A i \in 1..n : more[i] = fields[i]) /\ more[n + 1] = f
  BY AppendProperties
<1>3. f.type \in S /\ \A i \in 1..n : fields[i].type \in S  BY <1>1
<1>4. t = [i \in 1..n |-> fields[i].type] /\ tm = [i \in 1..Len(more) |-> more[i].type]
  BY DEF Types
<1> HIDE DEF S, n, more, t, tm
<1>5. t \in [1..n -> S] /\ tm \in [1..(n + 1) -> S]
  <2>1. \A i \in 1..(n + 1) : more[i].type \in S
    <3> SUFFICES ASSUME NEW i \in 1..(n + 1) PROVE more[i].type \in S  OBVIOUS
    <3>1. i \in 1..n \/ i = n + 1  BY <1>1
    <3> QED  BY <1>2, <1>3, <3>1
  <2> QED  BY <1>2, <1>3, <1>4, <2>1
<1>6. t \in Seq(S) /\ Len(t) = n  BY <1>1, <1>5, FunctionIsSeq
<1>7. tm \in Seq(S) /\ Len(tm) = n + 1
  <2>1. n + 1 \in Nat  BY <1>1
  <2> QED  BY <1>5, <2>1, FunctionIsSeq
<1>8. /\ Append(t, f.type) \in Seq(S) /\ Len(Append(t, f.type)) = n + 1
      /\ \A i \in 1..n : Append(t, f.type)[i] = t[i]
      /\ Append(t, f.type)[n + 1] = f.type
  BY <1>3, <1>6, AppendProperties
<1>9. ASSUME NEW i \in 1..(n + 1) PROVE tm[i] = Append(t, f.type)[i]
  <2>1. tm[i] = more[i].type  BY <1>2, <1>4
  <2>2. CASE i \in 1..n  BY <1>2, <1>4, <1>8, <2>1, <2>2
  <2>3. CASE i = n + 1  BY <1>2, <1>8, <2>1, <2>3
  <2>4. i \in 1..n \/ i = n + 1  BY <1>1
  <2> QED  BY <2>2, <2>3, <2>4
<1>10. tm = Append(t, f.type)  BY <1>7, <1>8, <1>9, SeqEqual
<1> QED  BY <1>6, <1>10 DEF S, t, tm, more

(* What is delivered of fields with one field more. *)
LEMMA DeliveriesMore ==
    ASSUME NEW fields \in Seq(Fields), NEW f \in Fields
    PROVE  Deliveries(Append(fields, f)) = Append(Deliveries(fields), Delivered(f))
<1> DEFINE S == {Delivered(x) : x \in Fields}  n == Len(fields)  more == Append(fields, f)
           t == Deliveries(fields)  tm == Deliveries(more)  d == Delivered(f)
<1>1. n \in Nat /\ DOMAIN fields = 1..n /\ \A i \in 1..n : fields[i] \in Fields  BY SeqIsFunction
<1>2. /\ Len(more) = n + 1 /\ (\A i \in 1..n : more[i] = fields[i]) /\ more[n + 1] = f
      /\ more \in Seq(Fields)
  BY AppendProperties
<1>a. DOMAIN more = 1..(n + 1)  BY <1>2, SeqIsFunction
<1>3. d \in S /\ \A i \in 1..n : Delivered(fields[i]) \in S  BY <1>1
<1>4. t = [i \in 1..n |-> Delivered(fields[i])] /\ tm = [i \in 1..(n + 1) |-> Delivered(more[i])]
  BY <1>1, <1>a DEF Deliveries
<1>b. Delivered(more[n + 1]) = d /\ \A i \in 1..n : Delivered(more[i]) = Delivered(fields[i])
  BY <1>2
<1> HIDE DEF S, n, more, t, tm, d
<1>5. t \in [1..n -> S] /\ tm \in [1..(n + 1) -> S]
  <2>1. \A i \in 1..(n + 1) : Delivered(more[i]) \in S
    <3> SUFFICES ASSUME NEW i \in 1..(n + 1) PROVE Delivered(more[i]) \in S  OBVIOUS
    <3>1. i \in 1..n \/ i = n + 1  BY <1>1
    <3> QED  BY <1>b, <1>3, <3>1
  <2> QED  BY <1>3, <1>4, <2>1
<1>6. t \in Seq(S) /\ Len(t) = n  BY <1>1, <1>5, FunctionIsSeq
<1>7. tm \in Seq(S) /\ Len(tm) = n + 1
  <2>1. n + 1 \in Nat  BY <1>1
  <2> QED  BY <1>5, <2>1, FunctionIsSeq
<1>8. /\ Append(t, d) \in Seq(S) /\ Len(Append(t, d)) = n + 1
      /\ \A i \in 1..n : Append(t, d)[i] = t[i]
      /\ Append(t, d)[n + 1] = d
  BY <1>3, <1>6, AppendProperties
<1>9. ASSUME NEW i \in 1..(n + 1) PROVE tm[i] = Append(t, d)[i]
  <2>1. tm[i] = Delivered(more[i])  BY <1>4
  <2>2. CASE i \in 1..n  BY <1>b, <1>4, <1>8, <2>1, <2>2
  <2>3. CASE i = n + 1  BY <1>b, <1>8, <2>1, <2>3
  <2>4. i \in 1..n \/ i = n + 1  BY <1>1
  <2> QED  BY <2>2, <2>3, <2>4
<1>10. tm = Append(t, d)  BY <1>7, <1>8, <1>9, SeqEqual
<1> QED  BY <1>10 DEF t, tm, more, d

(* The pops of the types of fields read these fields from core and leave what
   is behind it; cut short, core is refused. *)
ReadBack(fields, core) ==
    /\ \A e \in Seq(Mem) : Unpack(Types(fields), core \o e) =
           [ok |-> TRUE, values |-> Deliveries(fields), rest |-> e]
    /\ \A n \in 0..(Len(core) - 1) : ~Unpack(Types(fields), SubSeq(core, 1, n)).ok

(* No fields are read from nothing. *)
LEMMA ReadNothing == ReadBack(<<>>, <<>>)
<1>1. Len(<<>>) = 0 /\ DOMAIN <<>> = {}  BY EmptySeq
<1>2. DOMAIN Types(<<>>) = {}  BY <1>1 DEF Types
<1>3. Deliveries(<<>>) = <<>>
  <2>1. Deliveries(<<>>) \in [1..0 -> {}]  BY <1>1 DEF Deliveries
  <2>2. Deliveries(<<>>) \in Seq({}) /\ Len(Deliveries(<<>>)) = 0  BY <2>1, FunctionIsSeq
  <2> QED  BY <2>2, EmptySeq
<1>4. ASSUME NEW e \in Seq(Mem)
      PROVE  Unpack(Types(<<>>), <<>> \o e) = [ok |-> TRUE, values |-> Deliveries(<<>>), rest |-> e]
  <2>1. <<>> \o e = e  BY ConcatEmptySeq
  <2>2. Unpack(Types(<<>>), e) = Begin(e)  BY <1>2, UnpackNothing
  <2> QED  BY <1>3, <2>1, <2>2 DEF Begin
<1>5. 0..(Len(<<>>) - 1) = {}  BY <1>1
<1> QED  BY <1>4, <1>5 DEF ReadBack

(* A pop that throws, and one behind it. *)
LEMMA PopRefuses ==
    ASSUME NEW type, NEW v, NEW s
    PROVE  /\ \A read : ~read.ok => ~Pop(read, type).ok
           /\ ~Popped(type, s).ok => ~Pop([ok |-> TRUE, values |-> v, rest |-> s], type).ok
BY DEF Pop

(* Fields that are read back, and behind them less than a field of a type, are
   refused by who asks for that type too. *)
LEMMA ReadShort ==
    ASSUME NEW fields \in Seq(Fields), NEW core \in Seq(Mem), ReadBack(fields, core),
           NEW f \in Fields, NEW part \in Seq(Mem), ~Popped(f.type, part).ok
    PROVE  ~Unpack(Append(Types(fields), f.type), core \o part).ok
<1> DEFINE S == {x.type : x \in Fields}
<1>1. Types(fields) \in Seq(S) /\ f.type \in S  BY TypesMore
<1> HIDE DEF S
<1>2. Unpack(Append(Types(fields), f.type), core \o part) = Pop(Unpack(Types(fields), core \o part), f.type)
  BY <1>1, UnpackMore
<1>3. Unpack(Types(fields), core \o part) = [ok |-> TRUE, values |-> Deliveries(fields), rest |-> part]
  BY DEF ReadBack
<1> QED  BY <1>2, <1>3, PopRefuses

(* Fields that are read back, and a field behind them, are read back. *)
LEMMA ReadMore ==
    ASSUME NEW fields \in Seq(Fields), NEW core \in Seq(Mem), ReadBack(fields, core),
           NEW f \in Fields, ~TooBig(f)
    PROVE  ReadBack(Append(fields, f), core \o Encoding(f))
<1> DEFINE S == {x.type : x \in Fields}  E == Encoding(f)  types == Types(fields)
           more == Types(Append(fields, f))
<1>1. types \in Seq(S) /\ f.type \in S /\ more = Append(types, f.type)  BY TypesMore
<1>2. E \in Seq(Mem)  BY EncodingFacts
<1>3. \A s : Unpack(more, s) = Pop(Unpack(types, s), f.type)
  <2> HIDE DEF S, types, more
  <2> QED  BY <1>1, UnpackMore
<1>4. /\ \A e \in Seq(Mem) : Unpack(types, core \o e) =
             [ok |-> TRUE, values |-> Deliveries(fields), rest |-> e]
      /\ \A n \in 0..(Len(core) - 1) : ~Unpack(types, SubSeq(core, 1, n)).ok
  BY DEF ReadBack
<1> HIDE DEF S, types, more
<1>5. ASSUME NEW e \in Seq(Mem)
      PROVE  Unpack(more, (core \o E) \o e) =
                 [ok |-> TRUE, values |-> Deliveries(Append(fields, f)), rest |-> e]
  <2>1. (core \o E) \o e = core \o (E \o e) /\ E \o e \in Seq(Mem)
    BY <1>2, ConcatAssociative, ConcatProperties
  <2>2. Unpack(types, core \o (E \o e)) =
            [ok |-> TRUE, values |-> Deliveries(fields), rest |-> E \o e]
    BY <1>4, <2>1
  <2>3. Pop([ok |-> TRUE, values |-> Deliveries(fields), rest |-> E \o e], f.type) =
            [ok |-> TRUE, values |-> Append(Deliveries(fields), Delivered(f)), rest |-> e]
    BY PopWhole
  <2> QED  BY <1>3, <2>1, <2>2, <2>3, DeliveriesMore
<1>6. /\ Len(core) \in Nat /\ Len(E) \in Nat /\ Len(core \o E) = Len(core) + Len(E)
  BY <1>2, Behind
<1>7. ASSUME NEW n \in 0..(Len(core \o E) - 1)
      PROVE  ~Unpack(more, SubSeq(core \o E, 1, n)).ok
  <2>1. CASE n < Len(core)
    <3>1. n \in 0..Len(core) /\ n \in 0..(Len(core) - 1)  BY <1>6, <2>1
    <3>2. SubSeq(core \o E, 1, n) = SubSeq(core, 1, n)  BY <1>2, <3>1, TakeFirst
    <3>3. ~Unpack(types, SubSeq(core, 1, n)).ok  BY <1>4, <3>1
    <3>4. ~Pop(Unpack(types, SubSeq(core, 1, n)), f.type).ok  BY <3>3, PopRefuses
    <3> QED  BY <1>3, <3>2, <3>4
  <2>2. CASE n >= Len(core)
    <3>1. PICK k \in 0..(Len(E) - 1) : n = Len(core) + k
      <4>1. n - Len(core) \in 0..(Len(E) - 1) /\ n = Len(core) + (n - Len(core))  BY <1>6, <2>2
      <4> QED  BY <4>1
    <3>2. k \in 0..Len(E) /\ k < Len(E)  BY <1>6
    <3>3. SubSeq(core \o E, 1, n) = core \o SubSeq(E, 1, k)  BY <1>2, <3>1, <3>2, TakeMore
    <3> DEFINE part == SubSeq(E, 1, k)
    <3>4. part \in Seq(Mem) /\ Len(part) = k /\ \A i \in 1..k : part[i] = E[i]
      BY <1>2, <3>2, PrefixFacts
    <3> HIDE DEF part
    <3>5. Short(f, part)  BY <3>2, <3>4 DEF Short
    <3>6. ~Popped(f.type, part).ok  BY <3>4, <3>5, PopShort
    <3>7. ~Unpack(Append(Types(fields), f.type), core \o part).ok  BY <3>4, <3>6, ReadShort
    <3> QED  BY <1>1, <3>3, <3>7 DEF part, types
  <2> QED  BY <1>6, <2>1, <2>2
<1> QED  BY <1>5, <1>7 DEF ReadBack, more, E

-----------------------------------------------------------------------------
(* What a Pack knows of the string in its buffer. *)

(* The types of a Pack. *)
Packs == [start: Nat, offset: Nat, header: Seq(Mem), fields: Seq(Fields), todo: Seq(Strings),
          current: Fields \cup {None}, thrown: BOOLEAN]

(* The part of a field that is behind the complete ones. *)
Partial(p, part) ==
    /\ p.todo = <<>> /\ ~p.thrown => part = <<>>
    /\ p.thrown => p.current \in Fields /\ ~Popped(p.current.type, part).ok
    /\ p.todo # <<>> =>
          /\ p.current \in Fields /\ ~TooBig(p.current)
          /\ \E k \in 0..(Len(Pieces(p.current)) - 1) :
                /\ p.todo = SubSeq(Pieces(p.current), k + 1, Len(Pieces(p.current)))
                /\ part = Upto(p.current, k)

(* The body of a packet: fields that are read back, and a part of one. *)
Complete(p, body) ==
    \E core, part \in Seq(Mem) :
        body = core \o part /\ ReadBack(p.fields, core) /\ Partial(p, part)

(* The string s holds the packet p. *)
Holds(p, s) ==
    /\ p.start <= p.offset /\ p.offset <= Len(s)
    /\ SubSeq(s, p.start + 1, p.offset) = p.header
    /\ Complete(p, SubSeq(s, p.offset + 1, Len(s)))

(* What it takes to hold a packet. *)
LEMMA HoldsIf ==
    ASSUME NEW p, NEW s, NEW m \in Nat, NEW o \in m..Len(s), NEW l \in Nat, NEW body,
           p.start = m, p.offset = o, Len(s) = l, SubSeq(s, m + 1, o) = p.header,
           SubSeq(s, o + 1, l) = body, Complete(p, body)
    PROVE  Holds(p, s)
<1>1. p.start <= p.offset /\ p.offset <= Len(s)  OBVIOUS
<1>2. SubSeq(s, p.start + 1, p.offset) = p.header  OBVIOUS
<1>3. SubSeq(s, p.offset + 1, Len(s)) = body  OBVIOUS
<1> QED  BY <1>1, <1>2, <1>3 DEF Holds

(* A new packet is its header. *)
LEMMA NewHolds ==
    ASSUME NEW s \in Seq(Mem), NEW z \in Seq(Mem), NEW p \in Packs,
           p.start = Len(s), p.offset = Len(s) + Len(z), p.header = z, p.fields = <<>>,
           p.todo = <<>>, ~p.thrown
    PROVE  Holds(p, s \o z)
<1>1. /\ s \o z \in Seq(Mem) /\ Len(s \o z) = Len(s) + Len(z)
      /\ Len(s) \in Nat /\ Len(z) \in Nat
  BY Behind
<1>2. SubSeq(s \o z, Len(s) + 1, Len(s \o z)) = z  BY Second
<1>3. SubSeq(s \o z, p.offset + 1, Len(s \o z)) = <<>>
  <2>1. p.offset + 1 \in Int /\ Len(s \o z) \in Int /\ Len(s \o z) < p.offset + 1  BY <1>1
  <2> QED  BY <2>1, SubSeqEmpty
<1>4. Complete(p, <<>>)
  <2>1. <<>> \in Seq(Mem) /\ <<>> \o <<>> = <<>>  BY EmptySeq, ConcatEmptySeq
  <2>2. ReadBack(p.fields, <<>>)  BY ReadNothing
  <2>3. Partial(p, <<>>)  BY DEF Partial
  <2> QED  BY <2>1, <2>2, <2>3 DEF Complete
<1>5. Len(s) \in Nat /\ p.offset \in Len(s)..Len(s \o z) /\ Len(s \o z) \in Nat
      /\ p.offset = Len(s \o z)
  BY <1>1
<1>6. SubSeq(s \o z, Len(s) + 1, p.offset) = p.header  BY <1>2, <1>5
<1> QED  BY <1>3, <1>4, <1>5, <1>6, HoldsIf

(* A packet whose body is as it was is held, whatever it expects next. *)
LEMMA SameBytes ==
    ASSUME NEW p \in Packs, NEW q \in Packs, NEW s, Holds(p, s),
           q.start = p.start, q.offset = p.offset, q.header = p.header, q.fields = p.fields,
           \A part \in Seq(Mem) : Partial(p, part) => Partial(q, part)
    PROVE  Holds(q, s)
<1>1. Complete(p, SubSeq(s, p.offset + 1, Len(s)))  BY DEF Holds
<1>2. Complete(q, SubSeq(s, p.offset + 1, Len(s)))  BY <1>1 DEF Complete
<1> QED  BY <1>2 DEF Holds

(* A field is begun: nothing of it is there, or nothing ever will be. *)
LEMMA PushHolds ==
    ASSUME NEW p \in Packs, NEW q \in Packs, NEW s, Holds(p, s), p.todo = <<>>, ~p.thrown,
           NEW f \in Fields,
           q.start = p.start, q.offset = p.offset, q.header = p.header, q.fields = p.fields,
           q.current = f, q.todo = IF TooBig(f) THEN <<>> ELSE Pieces(f), q.thrown = TooBig(f)
    PROVE  Holds(q, s)
<1>1. ASSUME NEW part \in Seq(Mem), Partial(p, part) PROVE Partial(q, part)
  <2>1. part = <<>>  BY <1>1 DEF Partial
  <2>2. CASE TooBig(f)
    <3>1. Short(f, part)  BY <2>1, <2>2 DEF Short
    <3>2. ~Popped(f.type, part).ok  BY <3>1, PopShort
    <3> QED  BY <2>2, <3>2 DEF Partial
  <2>3. CASE ~TooBig(f)
    <3>1. q.todo = Pieces(f) /\ ~q.thrown  BY <2>3
    <3>2. /\ Pieces(f) \in Seq(Strings) /\ Len(Pieces(f)) \in Nat \ {0}  BY PiecesAreStrings
    <3>3. 0 \in 0..(Len(Pieces(f)) - 1) /\ 0 + 1 = 1  BY <3>2
    <3>4. SubSeq(Pieces(f), 1, Len(Pieces(f))) = Pieces(f)  BY <3>2, SubSeqFull
    <3>5. Upto(f, 0) = <<>>  BY UptoFacts
    <3>6. q.todo # <<>>  BY <3>1, <3>2, EmptySeq
    <3>7. \E k \in 0..(Len(Pieces(f)) - 1) :
             q.todo = SubSeq(Pieces(f), k + 1, Len(Pieces(f))) /\ part = Upto(f, k)
      BY <2>1, <3>1, <3>3, <3>4, <3>5
    <3> QED  BY <2>3, <3>1, <3>6, <3>7 DEF Partial
  <2> QED  BY <2>2, <2>3
<1> QED  BY <1>1, SameBytes

(* The next piece of a field is appended. *)
LEMMA PieceHolds ==
    ASSUME NEW p \in Packs, NEW q \in Packs, NEW s \in Seq(Mem), Holds(p, s), p.todo # <<>>,
           ~p.thrown, p.current \in Fields, ~q.thrown,
           q.start = p.start, q.offset = p.offset, q.header = p.header,
           q.todo = Tail(p.todo),
           IF Tail(p.todo) = <<>> THEN q.fields = Append(p.fields, p.current)
           ELSE q.fields = p.fields /\ q.current = p.current
    PROVE  Holds(q, s \o Head(p.todo))
<1> DEFINE f == p.current  n == Len(Pieces(f))  t == Head(p.todo)
           body == SubSeq(s, p.offset + 1, Len(s))
<1>0. p.start \in Nat /\ p.offset \in Nat /\ p.todo \in Seq(Strings) /\ p.fields \in Seq(Fields)
  BY DEF Packs
<1>1. PICK core \in Seq(Mem), part \in Seq(Mem) :
          body = core \o part /\ ReadBack(p.fields, core) /\ Partial(p, part)
  BY DEF Holds, Complete
<1>2. f \in Fields /\ ~TooBig(f)  BY <1>1 DEF Partial
<1>3. PICK k \in 0..(n - 1) : p.todo = SubSeq(Pieces(f), k + 1, n) /\ part = Upto(f, k)
  BY <1>1 DEF Partial
<1>4. Pieces(f) \in Seq(Strings) /\ n \in Nat \ {0}  BY <1>2, PiecesAreStrings
<1>5. t \in Seq(Mem)
  <2>1. t \in Strings  BY <1>0, HeadTailProperties
  <2> QED  BY <2>1, StringsAreBytes
<1>6. t = Pieces(f)[k + 1] /\ Tail(p.todo) = SubSeq(Pieces(f), k + 2, n)
  <2>1. k + 1 \in 1..n /\ n \in (k + 1)..n /\ k + 1 + 1 = k + 2  BY <1>4
  <2> QED  BY <1>3, <1>4, <2>1, HeadTailOfSubSeq
<1>7. Upto(f, k + 1) = part \o t  BY <1>2, <1>3, <1>6, UptoFacts
<1>8. p.offset \in 0..Len(s) /\ p.start <= p.offset /\ Len(s) \in Nat
      /\ SubSeq(s, p.start + 1, p.offset) = p.header
  BY <1>0, SeqIsFunction DEF Holds
<1>9. core \in Seq(Mem) /\ part \in Seq(Mem)  OBVIOUS
<1> HIDE DEF f, n, t, body
<1>10. s \o t \in Seq(Mem) /\ Len(s \o t) = Len(s) + Len(t) /\ Len(t) \in Nat  BY <1>5, Behind
<1>11. SubSeq(s \o t, p.start + 1, p.offset) = p.header
  <2>1. CASE p.start = p.offset
    <3>1. p.start + 1 \in Int /\ p.offset \in Int /\ p.offset < p.start + 1  BY <1>0, <2>1
    <3>2. SubSeq(s \o t, p.start + 1, p.offset) = <<>> /\ SubSeq(s, p.start + 1, p.offset) = <<>>
      BY <3>1, SubSeqEmpty
    <3> QED  BY <1>8, <3>2
  <2>2. CASE p.start < p.offset
    <3>1. p.start + 1 \in 1..Len(s) /\ p.offset \in 1..Len(s)  BY <1>0, <1>8, <2>2
    <3>2. SubSeq(s \o t, p.start + 1, p.offset) = SubSeq(s, p.start + 1, p.offset)
      BY <1>5, <3>1, SubSeqOfConcat1
    <3> QED  BY <1>8, <3>2
  <2> QED  BY <1>0, <1>8, <2>1, <2>2
<1>12. SubSeq(s \o t, p.offset + 1, Len(s \o t)) = core \o (part \o t)
  <2>1. SubSeq(s \o t, p.offset + 1, Len(s \o t)) = body \o t  BY <1>5, <1>8, DropFirst DEF body
  <2>2. (core \o part) \o t = core \o (part \o t)  BY <1>5, <1>9, ConcatAssociative
  <2> QED  BY <1>1, <2>1, <2>2
<1>13. part \o t \in Seq(Mem)  BY <1>5, <1>9, Behind
<1>16. p.offset \in p.start..Len(s \o t) /\ Len(s \o t) \in Nat  BY <1>0, <1>8, <1>10
<1>14. CASE Tail(p.todo) = <<>>
  <2>1. k + 1 = n
    <3>1. CASE k + 1 < n
      <4>1. k + 2 \in Int /\ n \in Int /\ k + 2 <= n /\ \A i \in (k + 2)..n : Pieces(f)[i] \in Strings
        BY <1>4, <3>1, ElementOfSeq DEF n
      <4>2. Len(SubSeq(Pieces(f), k + 2, n)) = n - (k + 2) + 1  BY <4>1, SubSeqProperties
      <4>3. Len(<<>>) = 0 /\ n - (k + 2) + 1 # 0  BY <4>1, EmptySeq
      <4> QED  BY <1>6, <1>14, <4>2, <4>3
    <3> QED  BY <1>4, <3>1
  <2>2. part \o t = Encoding(f)  BY <1>2, <1>7, <2>1, UptoFacts DEF n
  <2>3. q.fields = Append(p.fields, f)  BY <1>14 DEF f
  <2>4. ReadBack(q.fields, core \o Encoding(f))  BY <1>0, <1>1, <1>2, <2>3, ReadMore
  <2>5. <<>> \in Seq(Mem) /\ core \o Encoding(f) \in Seq(Mem)
        /\ (core \o Encoding(f)) \o <<>> = core \o Encoding(f)
    <3>1. core \o Encoding(f) \in Seq(Mem)  BY <1>9, <1>13, <2>2, Behind
    <3> QED  BY <3>1, EmptySeq, ConcatEmptySeq
  <2>6. Partial(q, <<>>)  BY <1>14 DEF Partial
  <2>7. Complete(q, core \o Encoding(f))  BY <2>4, <2>5, <2>6 DEF Complete
  <2>8. SubSeq(s \o t, p.offset + 1, Len(s \o t)) = core \o Encoding(f)  BY <1>12, <2>2
  <2> QED  BY <1>0, <1>16, <1>11, <2>7, <2>8, HoldsIf DEF t
<1>15. CASE Tail(p.todo) # <<>>
  <2>1. k + 1 \in 0..(n - 1)
    <3>1. CASE k + 1 = n
      <4>1. k + 2 \in Int /\ n \in Int /\ n < k + 2  BY <1>4, <3>1
      <4>2. SubSeq(Pieces(f), k + 2, n) = <<>>  BY <4>1, SubSeqEmpty
      <4> QED  BY <1>6, <1>15, <4>2
    <3> QED  BY <1>4, <3>1
  <2>2. q.fields = p.fields /\ q.current = f  BY <1>15 DEF f
  <2>3. q.todo = SubSeq(Pieces(f), k + 1 + 1, n) /\ part \o t = Upto(f, k + 1)
    <3>1. k + 1 + 1 = k + 2  OBVIOUS
    <3> QED  BY <1>6, <1>7, <3>1
  <2>4. Partial(q, part \o t)  BY <1>2, <1>15, <2>1, <2>2, <2>3 DEF Partial, n
  <2>5. Complete(q, core \o (part \o t))  BY <1>1, <1>9, <1>13, <2>2, <2>4 DEF Complete
  <2> QED  BY <1>0, <1>16, <1>11, <1>12, <2>5, HoldsIf DEF t
<1> QED  BY <1>14, <1>15

(* The next piece cannot be appended: what is there is less than the field. *)
LEMMA ThrowHolds ==
    ASSUME NEW p \in Packs, NEW q \in Packs, NEW s, Holds(p, s), p.todo # <<>>,
           Head(p.todo) # <<>>,
           q.start = p.start, q.offset = p.offset, q.header = p.header, q.fields = p.fields,
           q.current = p.current, q.todo = <<>>, q.thrown
    PROVE  Holds(q, s)
<1>1. ASSUME NEW part \in Seq(Mem), Partial(p, part) PROVE Partial(q, part)
  <2> DEFINE f == p.current  n == Len(Pieces(f))  E == Encoding(f)
  <2>1. f \in Fields /\ ~TooBig(f)  BY <1>1 DEF Partial
  <2>2. PICK k \in 0..(n - 1) : p.todo = SubSeq(Pieces(f), k + 1, n) /\ part = Upto(f, k)
    BY <1>1 DEF Partial
  <2>3. Pieces(f) \in Seq(Strings) /\ n \in Nat \ {0} /\ E \in Seq(Mem)
    BY <2>1, PiecesAreStrings, EncodingFacts
  <2> HIDE DEF f
  <2>4. Pieces(f)[k + 1] # <<>>
    <3>1. k + 1 \in 1..n /\ n \in (k + 1)..n  BY <2>3
    <3>2. Head(SubSeq(Pieces(f), k + 1, n)) = Pieces(f)[k + 1]  BY <2>3, <3>1, HeadTailOfSubSeq
    <3> QED  BY <2>2, <3>2
  <2>5. Len(Pieces(f)[k + 1]) \in Nat \ {0}
    <3>1. k + 1 \in 1..n  BY <2>3
    <3>2. Pieces(f)[k + 1] \in Seq(Mem)  BY <2>3, <3>1, ElementOfSeq, StringsAreBytes
    <3> QED  BY <2>4, <3>2, EmptySeq
  <2>6. Offset(f, k) \in Nat /\ Offset(f, k) < Len(E)
    <3>1. /\ Offset(f, k) \in Nat /\ Offset(f, k + 1) = Offset(f, k) + Len(Pieces(f)[k + 1])
          /\ Offset(f, k + 1) <= Len(E)
      BY <2>1, PieceInPlace
    <3>2. Len(E) \in Nat  BY <2>3, SeqIsFunction
    <3> QED  BY <2>5, <3>1, <3>2
  <2>7. Short(f, part)
    <3>1. Offset(f, k) \in 0..Len(E)  BY <2>3, <2>6, SeqIsFunction
    <3> DEFINE m == Offset(f, k)
    <3> HIDE DEF m, E
    <3>2. /\ SubSeq(E, 1, m) \in Seq(Mem) /\ Len(SubSeq(E, 1, m)) = m
          /\ \A i \in 1..m : SubSeq(E, 1, m)[i] = E[i]
      <4>1. m \in 0..Len(E)  BY <3>1 DEF m
      <4> QED  BY <2>3, <4>1, PrefixFacts
    <3>3. part = SubSeq(E, 1, m)  BY <2>2 DEF Upto, m, E
    <3>4. Len(part) < Len(E) /\ \A i \in 1..Len(part) : part[i] = E[i]  BY <2>6, <3>2, <3>3 DEF m
    <3> QED  BY <2>1, <3>4 DEF Short, E
  <2>8. ~Popped(f.type, part).ok  BY <2>1, <2>7, PopShort
  <2> QED  BY <2>1, <2>8 DEF Partial, f
<1> QED  BY <1>1, SameBytes

(* The string t is s with u written behind the first m. *)
Overwrites(s, t, m, u) ==
    /\ Len(t) = Len(s)
    /\ \A i \in 1..Len(s) : t[i] = IF i \in (m + 1)..(m + Len(u)) THEN u[i - m] ELSE s[i]

(* A header that is filled with u. *)
Headed(h, u) == [i \in DOMAIN h |-> IF i <= Len(u) THEN u[i] ELSE h[i]]

(* A range tells its length. *)
LEMMA SameLength ==
    ASSUME NEW m \in Nat, NEW n \in Nat, 1..m = 1..n
    PROVE  m = n
<1>1. CASE m < n
  <2>1. n \in 1..n /\ n \notin 1..m  BY <1>1
  <2> QED  BY <2>1
<1>2. CASE n < m
  <2>1. m \in 1..m /\ m \notin 1..n  BY <1>2
  <2> QED  BY <2>1
<1> QED  BY <1>1, <1>2

(* A part of a string is overwritten, from behind m on: what is there, up to o,
   begins with what was written, and behind o nothing changed. *)
LEMMA Overwritten ==
    ASSUME NEW S, NEW s \in Seq(S), NEW t \in Seq(S), NEW u \in Seq(S),
           NEW m \in Nat, NEW o \in m..Len(s), Len(u) <= o - m, Overwrites(s, t, m, u),
           Headed(SubSeq(s, m + 1, o), u) \in Seq(S)
    PROVE  /\ SubSeq(t, m + 1, o) = Headed(SubSeq(s, m + 1, o), u)
           /\ SubSeq(t, o + 1, Len(t)) = SubSeq(s, o + 1, Len(s))
<1> USE DEF Overwrites
<1> DEFINE h == SubSeq(s, m + 1, o)  g == Headed(h, u)
<1>1. Len(s) \in Nat /\ Len(u) \in Nat /\ o \in Nat /\ o \in m..Len(t) /\ o - m \in Nat
  BY SeqIsFunction
<1>2. Len(s) \in o..Len(s) /\ Len(t) \in o..Len(t)  BY <1>1
<1> DEFINE n == o - m  x == SubSeq(t, o + 1, Len(t))  y == SubSeq(s, o + 1, Len(s))
           k == SubSeq(t, m + 1, o)
<1>3. /\ h \in Seq(S) /\ Len(h) = n /\ \A i \in 1..n : h[i] = s[m + i]  BY PartFacts
<1>4. /\ k \in Seq(S) /\ Len(k) = n /\ \A i \in 1..n : k[i] = t[m + i]  BY <1>1, PartFacts
<1>5. /\ x \in Seq(S) /\ Len(x) = Len(t) - o /\ \A i \in 1..(Len(t) - o) : x[i] = t[o + i]
  BY <1>1, <1>2, PartFacts
<1>6. /\ y \in Seq(S) /\ Len(y) = Len(s) - o /\ \A i \in 1..(Len(s) - o) : y[i] = s[o + i]
  BY <1>1, <1>2, PartFacts
<1>b. g \in Seq(S)  OBVIOUS
<1> HIDE DEF x, y, k, h
<1>7. x = y
  <2>1. ASSUME NEW i \in 1..Len(x) PROVE x[i] = y[i]
    <3>1. /\ o + i \in 1..Len(s) /\ i \in 1..(Len(s) - o) /\ i \in 1..(Len(t) - o)
          /\ ~(o + i \in (m + 1)..(m + Len(u)))
      BY <1>1, <1>5
    <3>2. x[i] = t[o + i]  BY <1>5, <3>1
    <3>3. t[o + i] = s[o + i]  BY <3>1
    <3> QED  BY <1>6, <3>1, <3>2, <3>3
  <2>2. Len(x) = Len(y)  BY <1>5, <1>6
  <2> QED  BY <1>5, <1>6, <2>1, <2>2, SeqEqual
<1>8. k = g
  <2>1. DOMAIN h = 1..n  BY <1>3, SeqIsFunction
  <2>2. DOMAIN g = 1..n /\ \A i \in 1..n : g[i] = IF i <= Len(u) THEN u[i] ELSE h[i]
    BY <2>1 DEF Headed
  <2> HIDE DEF g
  <2>0. g \in Seq(S)  BY <1>b DEF g
  <2>3. Len(g) \in Nat /\ DOMAIN g = 1..Len(g)  BY <2>0, SeqIsFunction
  <2>4. Len(g) = n
    <3>1. n \in Nat /\ 1..Len(g) = 1..n  BY <1>1, <2>2, <2>3
    <3> QED  BY <2>3, <3>1, SameLength
  <2>5. ASSUME NEW i \in 1..n PROVE k[i] = g[i]
    <3>1. m + i \in 1..Len(s) /\ (m + i) - m = i  BY <1>1
    <3>2. t[m + i] = IF m + i \in (m + 1)..(m + Len(u)) THEN u[(m + i) - m] ELSE s[m + i]
      BY <3>1
    <3>3. m + i \in (m + 1)..(m + Len(u)) <=> i <= Len(u)  BY <1>1
    <3>4. k[i] = t[m + i] /\ h[i] = s[m + i]  BY <1>3, <1>4
    <3> QED  BY <2>2, <3>1, <3>2, <3>3, <3>4
  <2>6. Len(k) = Len(g)  BY <1>4, <2>4
  <2>7. \A i \in 1..Len(k) : k[i] = g[i]  BY <1>4, <2>5
  <2> QED  BY <1>4, <2>0, <2>6, <2>7, SeqEqual
<1> QED  BY <1>7, <1>8 DEF x, y, k, h, g

(* The header is filled, and nothing else is touched. *)
LEMMA FillHolds ==
    ASSUME NEW p \in Packs, NEW q \in Packs, NEW s \in Seq(Mem), NEW t \in Seq(Mem), Holds(p, s),
           NEW u \in Seq(Mem), Len(u) <= p.offset - p.start, Overwrites(s, t, p.start, u),
           q.start = p.start, q.offset = p.offset, q.fields = p.fields, q.todo = p.todo,
           q.current = p.current, q.thrown = p.thrown,
           q.header = Headed(p.header, u)
    PROVE  Holds(q, t)
<1>1. /\ p.start \in Nat /\ p.offset \in Nat /\ p.header \in Seq(Mem) /\ q.header \in Seq(Mem)
      /\ p.start <= p.offset /\ p.offset <= Len(s)
      /\ SubSeq(s, p.start + 1, p.offset) = p.header
      /\ Complete(p, SubSeq(s, p.offset + 1, Len(s)))
  BY DEF Packs, Holds
<1>2. Len(s) \in Nat  BY SeqIsFunction
<1>3. p.offset \in p.start..Len(s) /\ p.offset \in p.start..Len(t) /\ Len(t) \in Nat
  BY <1>1, <1>2 DEF Overwrites
<1>4. /\ SubSeq(t, p.start + 1, p.offset) = q.header
      /\ SubSeq(t, p.offset + 1, Len(t)) = SubSeq(s, p.offset + 1, Len(s))
  <2> DEFINE m == p.start  o == p.offset
  <2>1. /\ m \in Nat /\ o \in m..Len(s) /\ Len(u) <= o - m /\ Overwrites(s, t, m, u)
        /\ SubSeq(s, m + 1, o) = p.header /\ Headed(SubSeq(s, m + 1, o), u) \in Seq(Mem)
    BY <1>1, <1>3
  <2> HIDE DEF m, o
  <2>2. /\ SubSeq(t, m + 1, o) = Headed(SubSeq(s, m + 1, o), u)
        /\ SubSeq(t, o + 1, Len(t)) = SubSeq(s, o + 1, Len(s))
    BY <2>1, Overwritten
  <2> QED  BY <2>1, <2>2 DEF m, o
<1>5. Complete(q, SubSeq(t, p.offset + 1, Len(t)))
  <2>1. \A part : Partial(p, part) => Partial(q, part)  BY DEF Partial
  <2> QED  BY <1>1, <1>4, <2>1 DEF Complete
<1>6. q.start = p.start /\ q.offset = p.offset  OBVIOUS
<1> QED  BY ONLY <1>1, <1>3, <1>4, <1>5, <1>6, HoldsIf
-----------------------------------------------------------------------------
(* What the operations of a buffer do to a Pack's string. *)

(* What ReaderAgrees says of a packet p in a string s. *)
Agrees(p, s) ==
    LET types == Types(p.fields)
        body  == SubSeq(s, p.offset + 1, Len(s))
    IN  /\ SubSeq(s, p.start + 1, p.offset) = p.header
        /\ p.todo = <<>> /\ ~p.thrown =>
               /\ Unpack(types, body) = [ok |-> TRUE, values |-> Deliveries(p.fields), rest |-> <<>>]
               /\ \A n \in 0..(Len(body) - 1) : ~Unpack(types, SubSeq(body, 1, n)).ok
        /\ p.thrown => ~Unpack(Append(types, p.current.type), body).ok

(* A packet that is held is read as it was packed. *)
LEMMA HoldsAgrees ==
    ASSUME NEW p \in Packs, NEW s, Holds(p, s)
    PROVE  Agrees(p, s)
<1> DEFINE types == Types(p.fields)  body == SubSeq(s, p.offset + 1, Len(s))
<1>1. PICK core \in Seq(Mem), part \in Seq(Mem) :
          body = core \o part /\ ReadBack(p.fields, core) /\ Partial(p, part)
  BY DEF Holds, Complete
<1>2. SubSeq(s, p.start + 1, p.offset) = p.header  BY DEF Holds
<1>3. p.fields \in Seq(Fields)  BY DEF Packs
<1> HIDE DEF body, types
<1>4. ASSUME p.todo = <<>>, ~p.thrown
      PROVE  /\ Unpack(types, body) = [ok |-> TRUE, values |-> Deliveries(p.fields), rest |-> <<>>]
             /\ \A n \in 0..(Len(body) - 1) : ~Unpack(types, SubSeq(body, 1, n)).ok
  <2>1. part = <<>>  BY <1>1, <1>4 DEF Partial
  <2>2. <<>> \in Seq(Mem) /\ core \o <<>> = core  BY EmptySeq, ConcatEmptySeq
  <2>3. body = core  BY <1>1, <2>1, <2>2
  <2>4. Unpack(types, core \o <<>>) = [ok |-> TRUE, values |-> Deliveries(p.fields), rest |-> <<>>]
    BY <1>1, <2>2 DEF ReadBack, types
  <2>5. \A n \in 0..(Len(core) - 1) : ~Unpack(types, SubSeq(core, 1, n)).ok
    BY <1>1 DEF ReadBack, types
  <2> QED  BY <2>2, <2>3, <2>4, <2>5
<1>5. ASSUME p.thrown
      PROVE  ~Unpack(Append(types, p.current.type), body).ok
  <2>1. p.current \in Fields /\ ~Popped(p.current.type, part).ok  BY <1>1, <1>5 DEF Partial
  <2>2. ~Unpack(Append(Types(p.fields), p.current.type), core \o part).ok
    BY <1>1, <1>3, <2>1, ReadShort
  <2> QED  BY <1>1, <2>2 DEF types
<1> QED  BY <1>2, <1>4, <1>5 DEF Agrees, types, body

(* A string with nothing cut off. *)
LEMMA AllOf ==
    ASSUME BufferTypeOK, NEW b \in Buffers
    PROVE  /\ SubSeq(bytes[b], 1, size[b]) = bytes[b] /\ bytes[b] \in Seq(Mem)
           /\ Len(bytes[b]) = size[b] /\ size[b] \in Nat
           /\ size[b] \in 0..(MaxBlocks * BlockSize)
           /\ size[b] <= Capacity(b) /\ Capacity(b) \in Nat
           /\ DOMAIN bytes = Buffers
<1>1. /\ bytes[b] \in Seq(Mem) /\ Len(bytes[b]) = size[b] /\ size[b] \in 0..Capacity(b)
      /\ Capacity(b) \in Nat /\ block[b] \in 0..MaxBlocks
  BY BufferFacts
<1>2. SubSeq(bytes[b], 1, Len(bytes[b])) = bytes[b]  BY <1>1, SubSeqFull
<1>3. Capacity(b) <= MaxBlocks * BlockSize /\ MaxBlocks * BlockSize \in Nat
  <2>1. BlockSize \in Nat /\ MaxBlocks \in Nat /\ block[b] \in Nat /\ block[b] <= MaxBlocks
    BY <1>1, BufferAssumption
  <2>2. MaxBlocks * BlockSize \in Nat  BY <2>1
  <2> QED  BY <2>1, <2>2, TimesMonotone DEF Capacity
<1> QED  BY <1>1, <1>2, <1>3 DEF bytes

(* A string is extended, or nothing happens to it: then it was to be extended
   by something. *)
LEMMA Extends ==
    ASSUME BufferTypeOK, NEW b \in Buffers, NEW s \in Seq(Mem), Promise!Extend(b, size[b], s)
    PROVE  \/ ~Throws /\ bytes'[b] = bytes[b] \o s
           \/ Throws /\ bytes'[b] = bytes[b] /\ s # <<>>
<1>1. /\ SubSeq(bytes[b], 1, size[b]) = bytes[b] /\ size[b] \in Nat /\ size[b] <= Capacity(b)
      /\ Capacity(b) \in Nat /\ DOMAIN bytes = Buffers
  BY AllOf
<1>2. Len(s) \in Nat  BY SeqIsFunction
<1>3. CASE Promise!Granted(b, size[b] + Len(s)) /\ bytes' = [bytes EXCEPT ![b] = bytes[b] \o s]
  BY <1>1, <1>3 DEF Promise!Granted, Throws
<1>4. CASE Promise!Refused(b, size[b] + Len(s)) /\ bytes' = [bytes EXCEPT ![b] = bytes[b]]
  <2>1. size[b] + Len(s) > Capacity(b) /\ Throws  BY <1>4 DEF Promise!Refused, Throws
  <2>2. Len(s) # 0  BY <1>1, <1>2, <2>1
  <2>3. s # <<>>  BY <2>2, EmptySeq
  <2> QED  BY <1>1, <1>4, <2>1, <2>3
<1> QED  BY <1>1, <1>3, <1>4 DEF Promise!Extend

(* append adds a string at the end, or throws. *)
LEMMA AppendAdds ==
    ASSUME BufferTypeOK, NEW b \in Buffers, NEW s \in Strings, AppendTo(b, s)
    PROVE  \/ ~Throws /\ bytes'[b] = bytes[b] \o s
           \/ Throws /\ bytes'[b] = bytes[b] /\ s # <<>>
<1>1. size[b] \in Nat /\ s \in Seq(Mem)  BY AllOf, StringsAreBytes
<1>2. m_pos' = m_pos /\ (m_pos[b] # None => m_pos[b] <= size[b]) /\ AppendAt(b, size[b], s)
  BY DEF AppendTo, BufferTypeOK
<1>3. Promise!Extend(b, size[b], s)  BY <1>1, <1>2, AppendExtends
<1> QED  BY <1>1, <1>3, Extends

(* The space that is reserved for a header. *)
Zeros(off) == [i \in 1..off |-> 0]

(* A larger size adds zeros at the end, or throws. *)
LEMMA ResizeAdds ==
    ASSUME BufferTypeOK, NEW b \in Buffers, NEW off \in Nat, Resize(b, size[b] + off), ~Throws
    PROVE  bytes'[b] = bytes[b] \o Zeros(off)
<1>1. /\ SubSeq(bytes[b], 1, size[b]) = bytes[b] /\ size[b] \in Nat /\ bytes[b] \in Seq(Mem)
      /\ Len(bytes[b]) = size[b] /\ DOMAIN bytes = Buffers
  BY AllOf
<1>2. Promise!Resize(b, size[b] + off)
  <2> DEFINE n == size[b] + off
  <2>1. n \in Nat /\ Resize(b, n)  BY <1>1
  <2> HIDE DEF n
  <2>2. Promise!Resize(b, n)  BY <2>1, ResizeIs
  <2> QED  BY <2>2 DEF n
<1>3. CASE off = 0
  <2>1. bytes' = [bytes EXCEPT ![b] = bytes[b]]
    <3>1. size[b] + off = size[b] /\ ~(size[b] + off > Len(bytes[b]))  BY <1>1, <1>3
    <3>2. bytes' = [bytes EXCEPT ![b] = SubSeq(bytes[b], 1, size[b] + off)]
      BY <1>2, <3>1 DEF Promise!Resize
    <3> QED  BY <1>1, <3>1, <3>2
  <2>2. Zeros(off) = <<>>
    <3>1. Zeros(off) \in [1..0 -> {0}] /\ 0 \in Nat  BY <1>3 DEF Zeros
    <3>2. Zeros(off) \in Seq({0}) /\ Len(Zeros(off)) = 0  BY <3>1, FunctionIsSeq
    <3> QED  BY <3>2, EmptySeq
  <2> QED  BY <1>1, <2>1, <2>2, ConcatEmptySeq
<1>4. CASE off > 0
  <2>1. size[b] + off > Len(bytes[b]) /\ size[b] + off - Len(bytes[b]) = off  BY <1>1, <1>4
  <2>2. Promise!Extend(b, size[b], Zeros(off))
    BY <1>1, <1>2, <2>1 DEF Promise!Resize, Promise!AppendTo, Zeros
  <2>3. Zeros(off) \in Seq(Mem)
    <3>1. Zeros(off) \in [1..off -> Mem]  BY BufferAssumption DEF Zeros, Mem
    <3> QED  BY <3>1, FunctionIsSeq
  <2> QED  BY <2>2, <2>3, Extends
<1> QED  BY <1>3, <1>4

(* replace within the string overwrites what is there. *)
LEMMA ReplaceOverwrites ==
    ASSUME BufferTypeOK, NEW b \in Buffers, NEW pos \in Nat, NEW s \in Strings, Replace(b, pos, s),
           pos + Len(s) <= size[b]
    PROVE  bytes'[b] \in Seq(Mem) /\ Overwrites(bytes[b], bytes'[b], pos, s)
<1>1. /\ SubSeq(bytes[b], 1, size[b]) = bytes[b] /\ size[b] \in Nat /\ bytes[b] \in Seq(Mem)
      /\ Len(bytes[b]) = size[b] /\ DOMAIN bytes = Buffers
      /\ size[b] <= Capacity(b) /\ Capacity(b) \in Nat
  BY AllOf
<1>2. s \in Seq(Mem) /\ Len(s) \in Nat  BY StringsAreBytes, SeqIsFunction
<1>3. Promise!Replace(b, pos, s)  BY ReplaceIs
<1>4. CASE pos >= Len(bytes[b])
  <2>1. Len(s) = 0 /\ s = <<>>
    <3>1. Len(s) = 0  BY <1>1, <1>2, <1>4
    <3> QED  BY <1>2, <3>1, EmptySeq
  <2>2. Promise!Extend(b, size[b], s)  BY <1>1, <1>3, <1>4 DEF Promise!Replace, Promise!AppendTo
  <2>3. bytes'[b] = bytes[b] \o s  BY <1>2, <2>1, <2>2, Extends
  <2>4. bytes'[b] = bytes[b]  BY <1>1, <2>1, <2>3, ConcatEmptySeq
  <2>5. \A i : i \notin (pos + 1)..(pos + Len(s))  BY <2>1
  <2> QED  BY <1>1, <2>4, <2>5 DEF Overwrites
<1>5. CASE pos < Len(bytes[b]) /\ pos + Len(s) >= Len(bytes[b])
  <2>1. Promise!Extend(b, pos, s) /\ pos + Len(s) = size[b]
    BY <1>1, <1>2, <1>3, <1>5 DEF Promise!Replace
  <2>2. ~Promise!Refused(b, pos + Len(s))
    BY <1>1, <2>1 DEF Promise!Refused
  <2> DEFINE x == bytes[b]  q == SubSeq(x, 1, pos)  y == q \o s
  <2>3. bytes'[b] = y  BY <1>1, <2>1, <2>2 DEF Promise!Extend
  <2>4. pos \in 0..Len(x)  BY <1>1, <1>5
  <2>5. q \in Seq(Mem) /\ Len(q) = pos /\ \A i \in 1..pos : q[i] = x[i]
    BY <1>1, <2>4, PrefixFacts
  <2> HIDE DEF q, x
  <2>6. /\ y \in Seq(Mem) /\ Len(y) = pos + Len(s)
        /\ \A i \in 1..pos : y[i] = q[i]
        /\ \A i \in 1..Len(s) : y[pos + i] = s[i]
    <3>0. q \in Seq(Mem) /\ s \in Seq(Mem)  BY <1>2, <2>5
    <3>1. /\ q \o s \in Seq(Mem) /\ Len(q \o s) = Len(q) + Len(s)
          /\ \A i \in 1..Len(q) : (q \o s)[i] = q[i]
          /\ \A i \in 1..Len(s) : (q \o s)[Len(q) + i] = s[i]
      BY ONLY <3>0, Behind
    <3> QED  BY <2>5, <3>1
  <2> HIDE DEF y
  <2>7. Len(x) = size[b]  BY <1>1 DEF x
  <2>8. ASSUME NEW i \in 1..Len(x)
        PROVE  y[i] = IF i \in (pos + 1)..(pos + Len(s)) THEN s[i - pos] ELSE x[i]
    <3>1. CASE i <= pos
      <4>1. i \in 1..pos /\ i \notin (pos + 1)..(pos + Len(s))  BY <2>7, <3>1, <1>1
      <4> QED  BY <2>5, <2>6, <4>1
    <3>2. CASE i > pos
      <4>1. /\ i - pos \in 1..Len(s) /\ i \in (pos + 1)..(pos + Len(s)) /\ pos + (i - pos) = i
        BY <1>1, <1>2, <2>1, <2>7, <3>2
      <4>2. y[pos + (i - pos)] = s[i - pos]  BY <2>6, <4>1
      <4> QED  BY <4>1, <4>2
    <3> QED  BY <1>1, <2>7, <3>1, <3>2
  <2>9. Overwrites(x, y, pos, s)  BY <2>1, <2>6, <2>7, <2>8 DEF Overwrites
  <2> QED  BY <2>3, <2>6, <2>9 DEF x
<1>6. CASE ~(pos >= Len(bytes[b])) /\ ~(pos + Len(s) >= Len(bytes[b]))
  <2> DEFINE x == bytes[b]  y == Splice(x, pos, s)
  <2>1. bytes' = [bytes EXCEPT ![b] = y]  BY <1>3, <1>6 DEF Promise!Replace, Splice
  <2>2. x \in Seq(Mem) /\ pos + Len(s) <= Len(x)  BY <1>1
  <2> HIDE DEF x
  <2>3. /\ y \in Seq(Mem) /\ Len(y) = Len(x)
        /\ \A i \in 1..Len(x) : y[i] = IF i \in (pos + 1)..(pos + Len(s)) THEN s[i - pos] ELSE x[i]
    BY <1>2, <2>2, SpliceFacts
  <2> HIDE DEF y
  <2>4. Overwrites(x, y, pos, s)  BY <2>3 DEF Overwrites
  <2>5. bytes'[b] = y  BY <1>1, <2>1
  <2> QED  BY <2>3, <2>4, <2>5 DEF x
<1> QED  BY <1>1, <1>2, <1>4, <1>5, <1>6
-----------------------------------------------------------------------------
(* Every buffer, whoever uses the others. *)

(* What is done to a buffer leaves the others as they are. *)
LEMMA Elsewhere ==
    ASSUME BufferTypeOK, NEW b \in Buffers, NEW c \in Buffers \ {b},
           Grow(b, Strings, Lengths) \/ Consume(b, Lengths)
    PROVE  bytes'[c] = bytes[c]
<1>1. data \in [Buffers -> Seq(Byte \cup {Junk})] /\ size \in [Buffers -> Nat]  BY DEF BufferTypeOK
<1>2. SUFFICES data'[c] = data[c] /\ size'[c] = size[c]  BY DEF bytes
<1>3. ASSUME NEW used, NEW s, AppendAt(b, used, s) PROVE data'[c] = data[c] /\ size'[c] = size[c]
  BY <1>1, <1>3 DEF AppendAt, Increase, CannotIncrease
<1>4. ASSUME NEW s, AppendTo(b, s) PROVE data'[c] = data[c] /\ size'[c] = size[c]
  BY <1>3, <1>4 DEF AppendTo
<1>5. ASSUME NEW n, Resize(b, n) PROVE data'[c] = data[c] /\ size'[c] = size[c]
  <2>1. CASE n > size[b]  BY <1>3, <1>5, <2>1 DEF Resize
  <2>2. CASE ~(n > size[b])  BY <1>1, <1>5, <2>2 DEF Resize
  <2> QED  BY <2>1, <2>2
<1>6. ASSUME NEW n, Reserve(b, n) PROVE data'[c] = data[c] /\ size'[c] = size[c]
  BY <1>1, <1>6 DEF Reserve, Increase, CannotIncrease
<1>7. ASSUME NEW pos, NEW s, Replace(b, pos, s) PROVE data'[c] = data[c] /\ size'[c] = size[c]
  BY <1>1, <1>3, <1>7 DEF Replace
<1>8. CASE Destroy(b)  BY <1>1, <1>8 DEF Destroy, Free
<1>9. ASSUME NEW pos, NEW n, NEW hold, EraseFrom(b, pos, n, hold)
      PROVE  data'[c] = data[c] /\ size'[c] = size[c]
  BY <1>1, <1>9 DEF EraseFrom, Free
<1>10. ASSUME NEW pos, NEW n, NEW hold, Erase(b, pos, n, hold)
       PROVE  data'[c] = data[c] /\ size'[c] = size[c]
  BY <1>9, <1>10 DEF Erase
<1>11. CASE Forward(b) \/ ForwardRelease(b)  BY <1>11 DEF Forward, ForwardRelease
<1>12. CASE ForwardDestroy(b)  BY <1>9, <1>12 DEF ForwardDestroy
<1>13. ASSUME NEW pos, NEW n, ForwardErase(b, pos, n)
       PROVE  data'[c] = data[c] /\ size'[c] = size[c]
  BY <1>9, <1>13 DEF ForwardErase
<1>14. CASE Grow(b, Strings, Lengths)  BY <1>4, <1>5, <1>6, <1>7, <1>8, <1>14 DEF Grow
<1>15. CASE Consume(b, Lengths)  BY <1>10, <1>11, <1>12, <1>13, <1>15 DEF Consume
<1> QED  BY <1>14, <1>15

(* A packet in its buffer. *)
Kept(q, s) == (q.thrown => q.todo = <<>>) /\ Holds(q, s)

(* Every Pack has the types of one, and its buffer holds its packet. *)
PackInv ==
    /\ BufferTypeOK
    /\ pack \in [PackBuffers -> Packs \cup {None}]
    /\ \A b \in PackBuffers : pack[b] # None => Kept(pack[b], bytes[b])

(* What is known of a Pack. *)
LEMMA PackFacts ==
    ASSUME PackInv, NEW b \in PackBuffers, pack[b] # None
    PROVE  /\ b \in Buffers /\ pack[b] \in Packs /\ Holds(pack[b], bytes[b])
           /\ pack[b].thrown => pack[b].todo = <<>>
           /\ pack[b].start \in Nat /\ pack[b].offset \in Nat
           /\ pack[b].start <= pack[b].offset /\ pack[b].offset <= size[b]
           /\ pack[b].start \in 0..(MaxBlocks * BlockSize)
<1>1. b \in Buffers  BY PacketAssumption
<1>2. pack[b] \in Packs /\ Kept(pack[b], bytes[b])  BY DEF PackInv
<1>3. /\ Len(bytes[b]) = size[b] /\ size[b] \in Nat /\ size[b] \in 0..(MaxBlocks * BlockSize)
  BY <1>1, AllOf DEF PackInv
<1>4. pack[b].start \in Nat /\ pack[b].offset \in Nat  BY <1>2 DEF Packs
<1>5. pack[b].start <= pack[b].offset /\ pack[b].offset <= size[b]  BY <1>2, <1>3 DEF Kept, Holds
<1>6. pack[b].start \in 0..(MaxBlocks * BlockSize)
  <2> DEFINE m == MaxBlocks * BlockSize  i == pack[b].start  o == pack[b].offset
  <2>1. /\ m \in Nat /\ size[b] \in Nat /\ size[b] <= m
        /\ i \in Nat /\ o \in Nat /\ i <= o /\ o <= size[b]
    <3>1. m \in Nat  BY BufferAssumption
    <3> QED  BY <1>3, <1>4, <1>5, <3>1
  <2> HIDE DEF m, i, o
  <2>2. i \in 0..m  BY <2>1
  <2> QED  BY <2>2 DEF m, i
<1> QED  BY <1>1, <1>2, <1>4, <1>5, <1>6 DEF Kept

(* Whatever a Pack does is an operation of its buffer, or nothing. *)
LEMMA PackUses ==
    ASSUME PackInv, NEW b \in Buffers, PacketStep(b)
    PROVE  Grow(b, Strings, Lengths) \/ Consume(b, Lengths) \/ UNCHANGED bufferVars
<1> USE PacketAssumption
<1>1. CASE Grow(b, PlainStrings, PlainLengths)
  <2>1. Grow(b, Strings, Lengths)  BY <1>1 DEF Grow
  <2> QED  BY <2>1
<1>2. CASE Consume(b, PlainLengths)
  <2>1. Consume(b, Lengths)  BY <1>2 DEF Consume
  <2> QED  BY <2>1
<1>3. CASE Prepare(b)
  <2>1. Grow(b, Strings, Lengths)  BY <1>3 DEF Prepare, Grow
  <2> QED  BY <2>1
<1>4. ASSUME NEW s \in Headers, NewPack(b, Len(s)) PROVE Grow(b, Strings, Lengths)
  <2>1. size[b] \in 0..(MaxBlocks * BlockSize)  BY AllOf DEF PackInv
  <2>2. size[b] + Len(s) \in Lengths  BY <2>1
  <2>3. Resize(b, size[b] + Len(s))  BY <1>4 DEF NewPack
  <2> QED  BY <2>2, <2>3 DEF Grow
<1>5. ASSUME b \in PackBuffers, NEW s \in Headers, FillHeader(b, s) PROVE Grow(b, Strings, Lengths)
  <2>1. pack[b] # None /\ Replace(b, pack[b].start, s)  BY <1>5 DEF FillHeader, Ready
  <2>2. pack[b].start \in Lengths /\ s \in Strings  BY <1>5, <2>1, PackFacts
  <2> QED  BY <2>1, <2>2 DEF Grow
<1>6. ASSUME b \in PackBuffers, PushPiece(b) PROVE Grow(b, Strings, Lengths)
  <2>1. pack[b] # None /\ pack[b].todo # <<>> /\ AppendTo(b, Head(pack[b].todo))
    BY <1>6 DEF PushPiece
  <2>2. pack[b].todo \in Seq(Strings)  BY <1>6, <2>1, PackFacts DEF Packs
  <2>3. Head(pack[b].todo) \in Strings  BY <2>1, <2>2, HeadTailProperties
  <2> QED  BY <2>1, <2>3 DEF Grow
<1>7. ASSUME NEW f \in Fields, Push(b, f) PROVE UNCHANGED bufferVars  BY <1>7 DEF Push
<1>8. CASE EndPack(b)  BY <1>8 DEF EndPack
<1> QED  BY <1>1, <1>2, <1>3, <1>4, <1>5, <1>6, <1>7, <1>8 DEF PacketStep

(* What becomes of the Pack on a buffer. *)
Mine(b) ==
    \E q \in Packs \cup {None} :
        /\ pack' = [pack EXCEPT ![b] = q]
        /\ q # None => Kept(q, bytes'[b])

(* A Pack begins behind what its buffer holds. *)
LEMMA NewPackKeeps ==
    ASSUME PackInv, NEW b \in PackBuffers, NEW off \in Nat, NewPack(b, off)
    PROVE  Mine(b)
<1> DEFINE p == [start |-> size[b], offset |-> size[b] + off,
                 header |-> [i \in 1..off |-> 0],
                 fields |-> <<>>, todo |-> <<>>, current |-> None, thrown |-> FALSE]
<1>1. b \in Buffers  BY PacketAssumption
<1>2. CASE Throws  BY <1>2 DEF NewPack, Mine
<1>3. CASE ~Throws
  <2>1. pack' = [pack EXCEPT ![b] = p] /\ Resize(b, size[b] + off)  BY <1>3 DEF NewPack
  <2>2. bytes'[b] = bytes[b] \o Zeros(off)  BY <1>1, <1>3, <2>1, ResizeAdds DEF PackInv
  <2>3. Zeros(off) \in Seq(Mem) /\ Len(Zeros(off)) = off
    <3>1. Zeros(off) \in [1..off -> Mem]  BY BufferAssumption DEF Zeros, Mem
    <3> QED  BY <3>1, FunctionIsSeq
  <2>4. bytes[b] \in Seq(Mem) /\ Len(bytes[b]) = size[b] /\ size[b] \in Nat
    BY <1>1, AllOf DEF PackInv
  <2>5. p.header = Zeros(off)  BY DEF Zeros
  <2>6. p \in Packs
    <3>1. /\ <<>> \in Seq(Fields) /\ <<>> \in Seq(Strings) /\ size[b] + off \in Nat
          /\ None \in Fields \cup {None}
      BY <2>4, EmptySeq
    <3> QED  BY <2>3, <2>4, <2>5, <3>1 DEF Packs
  <2>7. /\ p.start = Len(bytes[b]) /\ p.offset = Len(bytes[b]) + Len(Zeros(off))
        /\ p.fields = <<>> /\ p.todo = <<>> /\ ~p.thrown
    BY <2>3, <2>4
  <2> HIDE DEF p
  <2>8. Holds(p, bytes[b] \o Zeros(off))  BY <2>3, <2>4, <2>5, <2>6, <2>7, NewHolds
  <2>9. Kept(p, bytes'[b])  BY <2>2, <2>7, <2>8 DEF Kept
  <2> QED  BY <2>1, <2>6, <2>9 DEF Mine
<1> QED  BY <1>2, <1>3

(* A field is begun. *)
LEMMA PushKeeps ==
    ASSUME PackInv, NEW b \in PackBuffers, NEW f \in Fields, Push(b, f)
    PROVE  Mine(b)
<1> DEFINE p == pack[b]
           q == [p EXCEPT !.current = f, !.todo = IF TooBig(f) THEN <<>> ELSE Pieces(f),
                          !.thrown = TooBig(f)]
<1>1. p # None /\ p.todo = <<>> /\ ~p.thrown /\ UNCHANGED bufferVars  BY DEF Push, Ready
<1>2. b \in Buffers /\ p \in Packs /\ Holds(p, bytes[b])  BY <1>1, PackFacts
<1>3. pack' = [pack EXCEPT ![b] = q]
  BY <1>1, <1>2 DEF Push, PackInv
<1>4. bytes' = bytes  BY <1>1 DEF bufferVars, bytes
<1>5. Pieces(f) \in Seq(Strings) /\ <<>> \in Seq(Strings)  BY PiecesAreStrings, EmptySeq
<1>6. TooBig(f) \in BOOLEAN  BY DEF TooBig
<1>7. /\ q.start = p.start /\ q.offset = p.offset /\ q.header = p.header /\ q.fields = p.fields
      /\ q.current = f /\ q.todo = (IF TooBig(f) THEN <<>> ELSE Pieces(f))
      /\ q.thrown = TooBig(f)
  BY <1>2 DEF Packs
<1>8. q \in Packs
  <2>1. (IF TooBig(f) THEN <<>> ELSE Pieces(f)) \in Seq(Strings)  BY <1>5
  <2> QED  BY <1>2, <1>6, <2>1 DEF Packs
<1> HIDE DEF p, q
<1>9. Holds(q, bytes[b])  BY <1>1, <1>2, <1>7, <1>8, PushHolds
<1>10. q.thrown => q.todo = <<>>  BY <1>7
<1>11. Kept(q, bytes'[b])  BY <1>4, <1>9, <1>10 DEF Kept
<1> QED  BY <1>3, <1>8, <1>11 DEF Mine

(* A piece is appended, or cannot be. *)
LEMMA PushPieceKeeps ==
    ASSUME PackInv, NEW b \in PackBuffers, PushPiece(b)
    PROVE  Mine(b)
<1> DEFINE p == pack[b]  t == Head(p.todo)  rest == Tail(p.todo)
<1>1. p # None /\ p.todo # <<>> /\ AppendTo(b, t)  BY DEF PushPiece
<1>2. b \in Buffers /\ p \in Packs /\ Holds(p, bytes[b]) /\ ~p.thrown
  BY <1>1, PackFacts
<1>3. p.current \in Fields  BY <1>1, <1>2 DEF Holds, Complete, Partial
<1>4. t \in Strings /\ rest \in Seq(Strings)
  <2>1. p.todo \in Seq(Strings)  BY <1>2 DEF Packs
  <2> QED  BY <1>1, <2>1, HeadTailProperties
<1>5. \/ ~Throws /\ bytes'[b] = bytes[b] \o t
      \/ Throws /\ bytes'[b] = bytes[b] /\ t # <<>>
  <2>1. BufferTypeOK  BY DEF PackInv
  <2> HIDE DEF t
  <2> QED  BY <1>1, <1>2, <1>4, <2>1, AppendAdds
<1>6. bytes[b] \in Seq(Mem)  BY <1>2, AllOf DEF PackInv
<1>7. CASE Throws
  <2> DEFINE q == [p EXCEPT !.todo = <<>>, !.thrown = TRUE]
  <2>1. pack' = [pack EXCEPT ![b] = q]  BY <1>7 DEF PushPiece
  <2>2. q \in Packs  BY <1>2, EmptySeq DEF Packs
  <2>3. /\ q.start = p.start /\ q.offset = p.offset /\ q.header = p.header /\ q.fields = p.fields
        /\ q.current = p.current /\ q.todo = <<>> /\ q.thrown
    BY <1>2 DEF Packs
  <2>4. bytes'[b] = bytes[b] /\ Head(p.todo) # <<>>  BY <1>5, <1>7
  <2> HIDE DEF p, q, t, rest
  <2>5. Holds(q, bytes[b])  BY <1>1, <1>2, <2>2, <2>3, <2>4, ThrowHolds
  <2>6. Kept(q, bytes'[b])  BY <2>3, <2>4, <2>5 DEF Kept
  <2> QED  BY <2>1, <2>2, <2>6 DEF Mine
<1>8. CASE ~Throws /\ rest = <<>>
  <2> DEFINE q == [p EXCEPT !.todo = rest, !.current = None, !.fields = Append(p.fields, p.current)]
  <2>1. pack' = [pack EXCEPT ![b] = q]  BY <1>8 DEF PushPiece
  <2>2. q \in Packs
    <3>1. p.fields \in Seq(Fields)  BY <1>2 DEF Packs
    <3>2. Append(p.fields, p.current) \in Seq(Fields)  BY <1>3, <3>1, AppendProperties
    <3> QED  BY <1>2, <1>4, <3>2 DEF Packs
  <2>3. /\ q.start = p.start /\ q.offset = p.offset /\ q.header = p.header
        /\ q.fields = Append(p.fields, p.current) /\ q.todo = rest /\ ~q.thrown
    BY <1>2 DEF Packs
  <2>4. bytes'[b] = bytes[b] \o Head(p.todo) /\ Tail(p.todo) = <<>>  BY <1>5, <1>8
  <2>5. q.todo = Tail(p.todo)  BY <2>3
  <2> HIDE DEF p, q, t, rest
  <2>6. Holds(q, bytes[b] \o Head(p.todo))
    BY <1>1, <1>2, <1>3, <1>6, <2>2, <2>3, <2>4, <2>5, PieceHolds
  <2>7. Kept(q, bytes'[b])  BY <2>3, <2>4, <2>6 DEF Kept
  <2> QED  BY <2>1, <2>2, <2>7 DEF Mine
<1>9. CASE ~Throws /\ rest # <<>>
  <2> DEFINE q == [p EXCEPT !.todo = rest]
  <2>1. pack' = [pack EXCEPT ![b] = q]  BY <1>9 DEF PushPiece
  <2>2. q \in Packs  BY <1>2, <1>4 DEF Packs
  <2>3. /\ q.start = p.start /\ q.offset = p.offset /\ q.header = p.header
        /\ q.fields = p.fields /\ q.current = p.current /\ q.todo = rest /\ ~q.thrown
    BY <1>2 DEF Packs
  <2>4. bytes'[b] = bytes[b] \o Head(p.todo) /\ Tail(p.todo) # <<>>  BY <1>5, <1>9
  <2>5. q.todo = Tail(p.todo)  BY <2>3
  <2> HIDE DEF p, q, t, rest
  <2>6. Holds(q, bytes[b] \o Head(p.todo))
    BY <1>1, <1>2, <1>3, <1>6, <2>2, <2>3, <2>4, <2>5, PieceHolds
  <2>7. Kept(q, bytes'[b])  BY <2>3, <2>4, <2>6 DEF Kept
  <2> QED  BY <2>1, <2>2, <2>7 DEF Mine
<1> QED  BY <1>7, <1>8, <1>9

(* The header is filled. *)
LEMMA FillHeaderKeeps ==
    ASSUME PackInv, NEW b \in PackBuffers, NEW s \in Headers, FillHeader(b, s)
    PROVE  Mine(b)
<1> DEFINE p == pack[b]  q == [p EXCEPT !.header = Headed(p.header, s)]
<1>1. /\ p # None /\ p.todo = <<>> /\ ~p.thrown /\ Len(s) <= p.offset - p.start
      /\ Replace(b, p.start, s)
  BY DEF FillHeader, Ready
<1>2. /\ b \in Buffers /\ p \in Packs /\ Holds(p, bytes[b]) /\ p.start \in Nat /\ p.offset \in Nat
      /\ p.start <= p.offset /\ p.offset <= size[b]
  BY <1>1, PackFacts
<1>3. s \in Strings /\ s \in Seq(Mem) /\ Len(s) \in Nat
  <2>1. s \in Strings  BY PacketAssumption
  <2> QED  BY <2>1, StringsAreBytes, SeqIsFunction
<1>4. pack' = [pack EXCEPT ![b] = q]
  BY <1>1, <1>2 DEF FillHeader, Headed, PackInv
<1>5. bytes[b] \in Seq(Mem) /\ size[b] \in Nat /\ BufferTypeOK  BY <1>2, AllOf DEF PackInv
<1>6. Headed(p.header, s) \in Seq(Mem)
  <2> DEFINE h == p.header
  <2>1. h \in Seq(Mem)  BY <1>2 DEF Packs
  <2> HIDE DEF h
  <2>2. Len(h) \in Nat /\ DOMAIN h = 1..Len(h) /\ \A i \in 1..Len(h) : h[i] \in Mem
    BY <2>1, SeqIsFunction
  <2>3. \A i \in 1..Len(s) : s[i] \in Mem  BY <1>3, SeqIsFunction
  <2>4. Headed(h, s) \in [1..Len(h) -> Mem]
    <3> SUFFICES ASSUME NEW i \in 1..Len(h) PROVE (IF i <= Len(s) THEN s[i] ELSE h[i]) \in Mem
      BY <2>2 DEF Headed
    <3>1. CASE i <= Len(s)
      <4>1. i \in 1..Len(s)  BY <1>3, <2>2, <3>1
      <4> QED  BY <2>3, <3>1, <4>1
    <3> QED  BY <2>2, <3>1
  <2>5. Headed(h, s) \in Seq(Mem)  BY <2>2, <2>4, FunctionIsSeq
  <2> QED  BY <2>5 DEF h
<1>7. q \in Packs  BY <1>2, <1>6 DEF Packs
<1>8. /\ q.start = p.start /\ q.offset = p.offset /\ q.fields = p.fields /\ q.todo = p.todo
      /\ q.current = p.current /\ q.thrown = p.thrown /\ q.header = Headed(p.header, s)
  BY <1>2 DEF Packs
<1> HIDE DEF p, q
<1>9. bytes'[b] \in Seq(Mem) /\ Overwrites(bytes[b], bytes'[b], p.start, s)
  <2>1. p.start + Len(s) <= size[b]  BY <1>1, <1>2, <1>3, <1>5
  <2> QED  BY <1>1, <1>2, <1>3, <1>5, <2>1, ReplaceOverwrites
<1>10. Holds(q, bytes'[b])
  <2> DEFINE x == bytes[b]  y == bytes'[b]
  <2>1. x \in Seq(Mem) /\ y \in Seq(Mem) /\ Overwrites(x, y, p.start, s) /\ Holds(p, x)
    BY <1>2, <1>5, <1>9
  <2> HIDE DEF x, y
  <2>2. Holds(q, y)  BY <1>1, <1>2, <1>3, <1>7, <1>8, <2>1, FillHolds
  <2> QED  BY <2>2 DEF y
<1>11. Kept(q, bytes'[b])  BY <1>1, <1>8, <1>10 DEF Kept
<1> QED  BY <1>4, <1>7, <1>11 DEF Mine

(* A step of a buffer keeps the packet on it. *)
LEMMA StepKeepsPack ==
    ASSUME PackInv, NEW b \in PackBuffers, PacketStep(b)
    PROVE  Mine(b)
<1>1. CASE pack[b] = None /\ UNCHANGED pack
  <2>1. pack' = [pack EXCEPT ![b] = None]  BY <1>1 DEF PackInv
  <2> QED  BY <2>1 DEF Mine
<1>2. ASSUME NEW s \in Headers, NewPack(b, Len(s)) PROVE Mine(b)
  <2>1. Len(s) \in Nat
    <3>1. s \in Seq(Mem)  BY PacketAssumption, StringsAreBytes
    <3> QED  BY <3>1, SeqIsFunction
  <2> QED  BY <1>2, <2>1, NewPackKeeps
<1>3. CASE EndPack(b)  BY <1>3 DEF EndPack, Mine
<1> QED  BY <1>1, <1>2, <1>3, FillHeaderKeeps, PushKeeps, PushPieceKeeps DEF PacketStep

(* Every step keeps the invariant, and is a step of the buffers. *)
LEMMA PackInvStep ==
    ASSUME PackInv, NEW b \in Buffers, PacketStep(b)
    PROVE  PackInv' /\ [BufferNext]_bufferVars
<1>1. Grow(b, Strings, Lengths) \/ Consume(b, Lengths) \/ UNCHANGED bufferVars  BY PackUses
<1>2. [BufferNext]_bufferVars  BY <1>1 DEF BufferNext
<1>3. BufferTypeOK /\ BufferTypeOK'  BY <1>2, StepKeepsAll DEF Keeps, PackInv
<1>4. ASSUME NEW c \in Buffers \ {b} PROVE bytes'[c] = bytes[c]
  <2>1. CASE UNCHANGED bufferVars  BY <2>1 DEF bufferVars, bytes
  <2> QED  BY <1>1, <1>3, <2>1, Elsewhere
<1>5. PackBuffers \subseteq Buffers  BY PacketAssumption
<1>6. CASE b \notin PackBuffers
  <2>1. pack' = pack  BY <1>6 DEF PacketStep
  <2>2. \A c \in PackBuffers : c \in Buffers \ {b}  BY <1>5, <1>6
  <2> QED  BY <1>2, <1>3, <1>4, <2>1, <2>2 DEF PackInv
<1>7. CASE b \in PackBuffers
  <2>1. PICK q \in Packs \cup {None} :
            pack' = [pack EXCEPT ![b] = q] /\ (q # None => Kept(q, bytes'[b]))
    BY <1>7, StepKeepsPack DEF Mine
  <2>2. pack \in [PackBuffers -> Packs \cup {None}]  BY DEF PackInv
  <2>3. pack' \in [PackBuffers -> Packs \cup {None}]  BY <2>1, <2>2
  <2>4. ASSUME NEW c \in PackBuffers, pack'[c] # None PROVE Kept(pack'[c], bytes'[c])
    <3>1. CASE c = b  BY <2>1, <2>2, <2>4, <3>1
    <3>2. CASE c # b
      <4>1. pack'[c] = pack[c] /\ bytes'[c] = bytes[c]  BY <1>4, <1>5, <2>1, <2>2, <3>2
      <4> QED  BY <2>4, <4>1 DEF PackInv
    <3> QED  BY <3>1, <3>2
  <2> QED  BY <1>2, <1>3, <2>3, <2>4 DEF PackInv
<1> QED  BY <1>6, <1>7

(* What the invariant is for. *)
LEMMA PackInvMeans == PackInv => TypeOK /\ ReaderAgrees
<1> SUFFICES ASSUME PackInv PROVE TypeOK /\ ReaderAgrees  OBVIOUS
<1>1. ASSUME NEW b \in PackBuffers, pack[b] # None
      PROVE  /\ pack[b].start <= pack[b].offset /\ pack[b].offset <= size[b]
             /\ pack[b].fields \in Seq(Fields)
             /\ pack[b].thrown => pack[b].todo = <<>>
  <2>1. pack[b] \in Packs  BY <1>1, PackFacts
  <2>2. pack[b].fields \in Seq(Fields)  BY <2>1 DEF Packs
  <2> QED  BY <1>1, <2>2, PackFacts
<1>2. TypeOK  BY <1>1 DEF TypeOK, PackInv
<1>3. ASSUME NEW b \in PackBuffers, pack[b] # None
      PROVE  LET p     == pack[b]
                 types == Types(p.fields)
             IN  /\ SubSeq(bytes[b], p.start + 1, p.offset) = p.header
                 /\ Ready(b) =>
                        /\ Unpack(types, Body(b)) =
                               [ok |-> TRUE,
                                values |-> [i \in DOMAIN p.fields |-> Delivered(p.fields[i])],
                                rest |-> <<>>]
                        /\ \A n \in 0..(Len(Body(b)) - 1) : ~Unpack(types, SubSeq(Body(b), 1, n)).ok
                 /\ p.thrown => ~Unpack(Append(types, p.current.type), Body(b)).ok
  <2>1. pack[b] \in Packs /\ Holds(pack[b], bytes[b]) /\ b \in Buffers  BY <1>3, PackFacts
  <2>2. Agrees(pack[b], bytes[b])  BY <2>1, HoldsAgrees
  <2>3. Len(bytes[b]) = size[b]  BY <2>1, AllOf DEF PackInv
  <2>4. Body(b) = SubSeq(bytes[b], pack[b].offset + 1, Len(bytes[b]))  BY <2>3 DEF Body
  <2> QED  BY <1>3, <2>2, <2>4 DEF Agrees, Ready, Deliveries
<1> QED  BY <1>2, <1>3 DEF ReaderAgrees

(* What the packets do without the bound that keeps TLC's buffers from being in
   use at the same time: any buffer may do its step at any time. *)
AnyOrder == PacketInit /\ [][\E b \in Buffers : PacketStep(b)]_packetVars

(* The invariant holds of any order of steps. *)
LEMMA PackInvAlways == AnyOrder => []PackInv /\ [][BufferNext]_bufferVars
<1>1. PacketInit => PackInv
  <2>1. PacketInit => BufferTypeOK  BY InitKeeps DEF PacketInit
  <2> QED  BY <2>1 DEF PacketInit, PackInv
<1>2. PackInv /\ [\E b \in Buffers : PacketStep(b)]_packetVars
          => PackInv' /\ [BufferNext]_bufferVars
  <2> SUFFICES ASSUME PackInv, [\E b \in Buffers : PacketStep(b)]_packetVars
               PROVE  PackInv' /\ [BufferNext]_bufferVars
    OBVIOUS
  <2>1. CASE UNCHANGED packetVars
    <3>1. UNCHANGED bufferVars /\ pack' = pack  BY <2>1 DEF packetVars, bufferVars
    <3>2. bytes' = bytes  BY <3>1 DEF bufferVars, bytes
    <3>3. BufferTypeOK'  BY <3>1, StepKeepsAll DEF Keeps, PackInv
    <3> QED  BY <3>1, <3>2, <3>3 DEF PackInv
  <2> QED  BY <2>1, PackInvStep
<1> QED  BY <1>1, <1>2, PTL DEF AnyOrder

(* A step under TLC's bound is a step. *)
LEMMA BoundedIsAnyOrder == PacketSpec => AnyOrder
<1>1. [PacketNext]_packetVars => [\E b \in Buffers : PacketStep(b)]_packetVars  BY DEF PacketNext
<1> QED  BY <1>1, PTL DEF PacketSpec, AnyOrder

(* Packing uses its buffers as any client may: what is proved of buffers, the
   counters and the string that each is, holds of those with packets on them. *)
THEOREM PacketsUseBuffers == AnyOrder => BufferSpec
<1>1. PacketInit => Init  BY DEF PacketInit
<1> QED  BY <1>1, PackInvAlways, PTL DEF AnyOrder, BufferSpec

(* Whoever unpacks a packet reads what was packed and nothing else, and refuses
   a packet that was cut short, for all fields of the types, all packets of them,
   and whatever the other buffers are used for meanwhile. *)
THEOREM ReaderReadsInAnyOrder == AnyOrder => [](TypeOK /\ ReaderAgrees)
BY PackInvAlways, PackInvMeans, PTL

(* The types of a Pack and its buffer: the header is reserved within what the
   buffer holds, and a Pack that threw has nothing more to push. *)
THEOREM PacketTypes == PacketSpec => []TypeOK
BY BoundedIsAnyOrder, ReaderReadsInAnyOrder, PTL

(* Reader and writer of a packet agree. *)
THEOREM ReaderReads == PacketSpec => []ReaderAgrees
BY BoundedIsAnyOrder, ReaderReadsInAnyOrder, PTL

(* The counters of blocks are exact while packets are packed. *)
THEOREM PacketCounters == PacketSpec => []TotalIsExact
BY BoundedIsAnyOrder, PacketsUseBuffers, CountersExact, PTL
====
