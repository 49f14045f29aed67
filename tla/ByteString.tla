------------------------------ MODULE ByteString ------------------------------
(***************************************************************************)
(* What a BlockBuffer (Library/protocols/protocols/gen/blockbuffer.h)      *)
(* promises: it is a string of bytes with room for more, an operation      *)
(* fails only beyond MaxSize or when memory is needed and there is none,   *)
(* and a failure takes nothing away but the bytes a replacement has        *)
(* already cut off.  A reader may consume the string from the front: what  *)
(* it has passed leaves the buffer when the reader closes, and no other    *)
(* byte does.                                                              *)
(***************************************************************************)
EXTENDS Naturals, Sequences

CONSTANTS
    Buffers,
    Strings,    \* the strings of bytes that clients put into a buffer
    Lengths,    \* the sizes and positions they ask for
    MaxSize,    \* no buffer holds more bytes
    None

VARIABLES
    bytes,      \* the string each buffer holds
    capacity,   \* how long it may become without new memory
    passed,     \* how much of it its reader has consumed, None if it has none
    result      \* of the last operation: "ok", "full" or "nomem"

vars == <<bytes, capacity, passed, result>>

Init ==
    /\ bytes = [b \in Buffers |-> <<>>]
    /\ capacity = [b \in Buffers |-> 0]
    /\ passed = [b \in Buffers |-> None]
    /\ result = "ok"

(* There is room for size bytes, as there must be if there was before. *)
Granted(b, size) ==
    /\ size <= MaxSize
    /\ \E c \in 0..MaxSize :
           /\ IF size <= capacity[b] THEN c = capacity[b] ELSE size <= c
           /\ capacity' = [capacity EXCEPT ![b] = c]
    /\ result' = "ok"

Refused(b, size) ==
    /\ size > capacity[b]
    /\ result' = IF size > MaxSize THEN "full" ELSE "nomem"
    /\ UNCHANGED capacity

(* The first kept bytes are kept and s follows them. *)
Extend(b, kept, s) ==
    LET prefix == SubSeq(bytes[b], 1, kept)
    IN  \/ /\ Granted(b, kept + Len(s))
           /\ bytes' = [bytes EXCEPT ![b] = prefix \o s]
        \/ /\ Refused(b, kept + Len(s))
           /\ bytes' = [bytes EXCEPT ![b] = prefix]

AppendTo(b, s) == Extend(b, Len(bytes[b]), s)

Resize(b, n) ==
    IF n > Len(bytes[b]) THEN AppendTo(b, [i \in 1..(n - Len(bytes[b])) |-> 0])
    ELSE /\ bytes' = [bytes EXCEPT ![b] = SubSeq(@, 1, n)]
         /\ result' = "ok"
         /\ UNCHANGED capacity

(* s takes the place of what is at pos; beyond the end it is appended. *)
Replace(b, pos, s) ==
    IF pos >= Len(bytes[b]) THEN AppendTo(b, s)
    ELSE IF pos + Len(s) >= Len(bytes[b]) THEN Extend(b, pos, s)
    ELSE /\ bytes' = [bytes EXCEPT ![b] = SubSeq(@, 1, pos) \o s \o
                          SubSeq(@, pos + Len(s) + 1, Len(@))]
         /\ result' = "ok"
         /\ UNCHANGED capacity

(* The n bytes behind the first pos leave, or as many as there are. An emptied
   buffer may give its memory back. *)
Cut(b, pos, n) ==
    LET left == SubSeq(bytes[b], 1, pos) \o SubSeq(bytes[b], pos + n + 1, Len(bytes[b]))
    IN  /\ bytes' = [bytes EXCEPT ![b] = left]
        /\ \/ UNCHANGED capacity
           \/ left = <<>> /\ capacity' = [capacity EXCEPT ![b] = 0]
        /\ result' = "ok"

(* A reservation beyond the capacity makes room for the bytes missing from the
   capacity only: n bytes may still not fit. *)
Reserve(b, n) ==
    LET missing == IF n <= capacity[b] THEN 0 ELSE n - capacity[b]
    IN  /\ Granted(b, Len(bytes[b]) + missing) \/ Refused(b, Len(bytes[b]) + missing)
        /\ UNCHANGED bytes

Destroy(b) ==
    /\ bytes' = [bytes EXCEPT ![b] = <<>>]
    /\ capacity' = [capacity EXCEPT ![b] = 0]
    /\ result' = "ok"

-----------------------------------------------------------------------------
(* What a buffer's owner does. While there is a reader, the string may only
   grow at its end. *)
Change(b) ==
    /\ \/ \E s \in Strings : AppendTo(b, s)
       \/ \E n \in Lengths : Reserve(b, n)
       \/ /\ passed[b] = None
          /\ \/ \E n \in Lengths : Resize(b, n)
             \/ \E pos \in Lengths, s \in Strings : Replace(b, pos, s)
             \/ \E pos, n \in Lengths : pos <= Len(bytes[b]) /\ Cut(b, pos, n)
             \/ Destroy(b)
    /\ UNCHANGED passed

Moves(b, pos) ==
    /\ passed' = [passed EXCEPT ![b] = pos]
    /\ UNCHANGED <<bytes, capacity, result>>

Open(b) == passed[b] = None /\ Moves(b, 0)

Pass(b, n) == passed[b] + n <= Len(bytes[b]) /\ Moves(b, passed[b] + n)

(* Bytes ahead of the reader leave at once. *)
CutAhead(b, pos, n) ==
    /\ pos > 0 /\ passed[b] + pos <= Len(bytes[b])
    /\ Cut(b, passed[b] + pos, n)
    /\ UNCHANGED passed

(* The reader goes, and what it has passed stays. *)
Release(b) == Moves(b, None)

(* The reader goes, and what it has passed goes with it. *)
Close(b) ==
    /\ Cut(b, 0, passed[b])
    /\ passed' = [passed EXCEPT ![b] = None]

Read(b) ==
    /\ passed[b] # None
    /\ \/ \E n \in Lengths : Pass(b, n)
       \/ \E pos, n \in Lengths : CutAhead(b, pos, n)
       \/ Release(b) \/ Close(b)

Next == \E b \in Buffers : Change(b) \/ Open(b) \/ Read(b)

Spec == Init /\ [][Next]_vars
=============================================================================
