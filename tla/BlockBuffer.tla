----------------------------- MODULE BlockBuffer -----------------------------
(***************************************************************************)
(* BlockBuffer and ForwardBuffer                                           *)
(* (Library/protocols/protocols/gen/blockbuffer.h): buffers that keep      *)
(* their bytes in one allocation of whole blocks, and the counters of      *)
(* blocks that all buffers of a type share.  The buffers are used by one   *)
(* thread, since the counters have no lock.                                *)
(***************************************************************************)
EXTENDS Naturals, Sequences, FiniteSets, Functions, FiniteSetsExt

CONSTANTS
    Buffers,
    Byte,
    Strings,    \* the strings of bytes that are put into a buffer
    Lengths,    \* the sizes and positions that are asked for
    BlockSize,  \* allocator::requested_size
    MaxBlocks,  \* max_blocks
    Junk,       \* memory that nothing was written to
    None

ASSUME BufferAssumption ==
    /\ IsFiniteSet(Buffers)
    /\ 0 \in Byte
    /\ Junk \notin Byte
    /\ Strings \subseteq Seq(Byte)
    /\ Lengths \subseteq Nat
    /\ BlockSize \in Nat \ {0} /\ MaxBlocks \in Nat
    /\ None \notin Nat

VARIABLES
    data,       \* m_data: the memory of each buffer
    size,       \* m_size
    block,      \* m_block
    total,      \* s_current_total_blocks
    peak,       \* s_peak_total_blocks
    m_pos,      \* of the ForwardBuffer on each buffer, None if there is none
    result      \* of the last operation: "ok", or why it returned false

bufferVars == <<data, size, block, total, peak, m_pos, result>>

Init ==
    /\ data = [b \in Buffers |-> <<>>]
    /\ size = [b \in Buffers |-> 0]
    /\ block = [b \in Buffers |-> 0]
    /\ total = 0 /\ peak = 0
    /\ m_pos = [b \in Buffers |-> None]
    /\ result = "ok"

-----------------------------------------------------------------------------
Capacity(b) == block[b] * BlockSize

(* Mutant of BlocksFor: what the last block has too few is forgotten. *)
BlocksForRoundedDown(n) == n \div BlockSize

BlocksFor(n) == n \div BlockSize + (IF n % BlockSize > 0 THEN 1 ELSE 0)

(* The blocks a buffer needs for n bytes behind its first used bytes. *)
NewBlock(b, used, n) ==
    LET free == Capacity(b) - used
    IN  IF n <= free THEN block[b] ELSE block[b] + BlocksFor(n - free)

(* New memory with the used bytes of the old. *)
Moved(b, used, blocks) ==
    [i \in 1..(blocks * BlockSize) |-> IF i <= used THEN data[b][i] ELSE Junk]

(* Mutant of Count: the old blocks are not given back. *)
CountAll(b, blocks) ==
    /\ total' = total + blocks
    /\ peak' = IF total' > peak THEN total' ELSE peak

Count(b, blocks) ==
    /\ total' = total + blocks - block[b]
    /\ peak' = IF total' > peak THEN total' ELSE peak

(* memmove and memset: s is written at pos. *)
Written(memory, pos, s) ==
    [i \in DOMAIN memory |-> IF i \in (pos + 1)..(pos + Len(s)) THEN s[i - pos] ELSE memory[i]]

(* increase_capacity succeeds: the buffer has room for n bytes behind its first
   used ones, and s is written there. *)
Increase(b, used, n, s) ==
    LET new == NewBlock(b, used, n)
    IN  /\ new <= MaxBlocks
        /\ data' = [data EXCEPT ![b] =
               Written(IF new = block[b] THEN @ ELSE Moved(b, used, new), used, s)]
        /\ block' = [block EXCEPT ![b] = new]
        /\ IF new = block[b] THEN UNCHANGED <<total, peak>> ELSE Count(b, new)
        /\ result' = "ok"

(* increase_capacity returns false: more than max_blocks, or no memory. *)
CannotIncrease(b, used, n) ==
    LET new == NewBlock(b, used, n)
    IN  /\ new # block[b]
        /\ result' = IF new > MaxBlocks THEN "full" ELSE "nomem"
        /\ UNCHANGED <<data, block, total, peak>>

(* append, after m_size has been set to used. *)
AppendAt(b, used, s) ==
    \/ Increase(b, used, Len(s), s) /\ size' = [size EXCEPT ![b] = used + Len(s)]
    \/ CannotIncrease(b, used, Len(s)) /\ size' = [size EXCEPT ![b] = used]

(* The memory goes back to the allocator; m_size is left as it is. *)
Free(b) ==
    /\ data' = [data EXCEPT ![b] = <<>>]
    /\ block' = [block EXCEPT ![b] = 0]
    /\ total' = total - block[b]
    /\ UNCHANGED peak

-----------------------------------------------------------------------------
(* What a client does to a buffer it does not read through a ForwardBuffer. *)
Direct(b) == m_pos[b] = None

AppendTo(b, s) == AppendAt(b, size[b], s) /\ UNCHANGED m_pos

Reserve(b, n) ==
    /\ LET missing == IF n <= Capacity(b) THEN 0 ELSE n - Capacity(b)
       IN  Increase(b, size[b], missing, <<>>) \/ CannotIncrease(b, size[b], missing)
    /\ UNCHANGED <<size, m_pos>>

Resize(b, n) ==
    /\ Direct(b)
    /\ UNCHANGED m_pos
    /\ IF n > size[b] THEN AppendAt(b, size[b], [i \in 1..(n - size[b]) |-> 0])
       ELSE /\ size' = [size EXCEPT ![b] = n]
            /\ result' = "ok"
            /\ UNCHANGED <<data, block, total, peak>>

(* A replacement that reaches the end cuts the buffer at pos and appends. *)
Replace(b, pos, s) ==
    /\ Direct(b)
    /\ UNCHANGED m_pos
    /\ \/ pos >= size[b] /\ AppendAt(b, size[b], s)
       \/ pos < size[b] /\ pos + Len(s) >= size[b] /\ AppendAt(b, pos, s)
       \/ /\ pos + Len(s) < size[b]
          /\ data' = [data EXCEPT ![b] = Written(@, pos, s)]
          /\ result' = "ok"
          /\ UNCHANGED <<size, block, total, peak>>

(* memmove: what is behind the n bytes at pos takes their place. *)
Closed(b, pos, n) ==
    [i \in DOMAIN data[b] |->
        IF i \in (pos + 1)..(size[b] - n) THEN data[b][i + n] ELSE data[b][i]]

EraseFrom(b, pos, n, hold) ==
    LET left == IF n >= size[b] - pos THEN pos ELSE size[b] - n
    IN  /\ size' = [size EXCEPT ![b] = left]
        /\ IF left = 0 /\ ~hold THEN Free(b)
           ELSE /\ data' = [data EXCEPT ![b] = IF left = pos THEN @ ELSE Closed(b, pos, n)]
                /\ UNCHANGED <<block, total, peak>>
        /\ result' = "ok"

(* assert(pos <= size()) *)
Erase(b, pos, n, hold) ==
    /\ Direct(b) /\ pos <= size[b]
    /\ EraseFrom(b, pos, n, hold)
    /\ UNCHANGED m_pos

Destroy(b) ==
    /\ Direct(b)
    /\ Free(b)
    /\ size' = [size EXCEPT ![b] = 0]
    /\ result' = "ok"
    /\ UNCHANGED m_pos

-----------------------------------------------------------------------------
(* A ForwardBuffer consumes a buffer from the front: what it has passed is
   erased when it is destroyed, not before, and not at all after release. *)
Forward(b) ==
    /\ Direct(b)
    /\ m_pos' = [m_pos EXCEPT ![b] = 0]
    /\ UNCHANGED <<data, size, block, total, peak, result>>

(* Mutant of ForwardErase: bytes ahead are counted from the buffer's start. *)
ForwardEraseFromStart(b, pos, n) ==
    /\ ~Direct(b) /\ m_pos[b] + pos <= size[b]
    /\ \/ /\ pos = 0 /\ m_pos[b] + n <= size[b]
          /\ m_pos' = [m_pos EXCEPT ![b] = @ + n]
          /\ UNCHANGED <<data, size, block, total, peak, result>>
       \/ /\ pos > 0
          /\ EraseFrom(b, pos, n, FALSE)
          /\ UNCHANGED m_pos

(* assert(m_pos <= m_sb->size()) *)
ForwardErase(b, pos, n) ==
    /\ ~Direct(b) /\ m_pos[b] + pos <= size[b]
    /\ \/ /\ pos = 0 /\ m_pos[b] + n <= size[b]
          /\ m_pos' = [m_pos EXCEPT ![b] = @ + n]
          /\ UNCHANGED <<data, size, block, total, peak, result>>
       \/ /\ pos > 0
          /\ EraseFrom(b, m_pos[b] + pos, n, FALSE)
          /\ UNCHANGED m_pos

ForwardRelease(b) ==
    /\ ~Direct(b)
    /\ m_pos' = [m_pos EXCEPT ![b] = None]
    /\ UNCHANGED <<data, size, block, total, peak, result>>

ForwardDestroy(b) ==
    /\ ~Direct(b)
    /\ EraseFrom(b, 0, m_pos[b], FALSE)
    /\ m_pos' = [m_pos EXCEPT ![b] = None]

-----------------------------------------------------------------------------
(* Operations of a buffer and of the ForwardBuffer on it. *)
Grow(b, strings, lengths) ==
    \/ \E s \in strings : AppendTo(b, s)
    \/ \E n \in lengths : Resize(b, n) \/ Reserve(b, n)
    \/ \E pos \in lengths, s \in strings : Replace(b, pos, s)
    \/ Destroy(b)

Consume(b, lengths) ==
    \/ \E pos, n \in lengths, hold \in BOOLEAN : Erase(b, pos, n, hold)
    \/ Forward(b) \/ ForwardRelease(b) \/ ForwardDestroy(b)
    \/ \E pos, n \in lengths : ForwardErase(b, pos, n)

BufferNext == \E b \in Buffers : Grow(b, Strings, Lengths) \/ Consume(b, Lengths)

BufferSpec == Init /\ [][BufferNext]_bufferVars

-----------------------------------------------------------------------------
(* The types: a buffer's size is within its memory, its memory is whole blocks
   and no more than max_blocks, and a ForwardBuffer is within its buffer. *)
BufferTypeOK ==
    /\ data \in [Buffers -> Seq(Byte \cup {Junk})]
    /\ size \in [Buffers -> Nat]
    /\ block \in [Buffers -> 0..MaxBlocks]
    /\ m_pos \in [Buffers -> Nat \cup {None}]
    /\ result \in {"ok", "full", "nomem"}
    /\ \A b \in Buffers :
           /\ Len(data[b]) = Capacity(b)
           /\ size[b] <= Capacity(b)
           /\ m_pos[b] # None => m_pos[b] <= size[b]

(* The counters the buffers of a type share are the blocks they really have,
   after every way to get, move and give back memory. *)
TotalIsExact ==
    /\ total = SumFunction(block)
    /\ total <= peak

(* The bytes below m_size, as a string. *)
bytes == [b \in Buffers |-> SubSeq(data[b], 1, size[b])]

(* The memory implements a string of bytes: what is allocated, copied, moved
   and cut shows in nothing but in which operations fail, and a ForwardBuffer
   that goes takes exactly the bytes it has passed. *)
Promise == INSTANCE ByteString WITH
    MaxSize <- MaxBlocks * BlockSize,
    bytes <- bytes,
    capacity <- [b \in Buffers |-> Capacity(b)],
    passed <- m_pos

KeepsBytes == Promise!Spec
=============================================================================
