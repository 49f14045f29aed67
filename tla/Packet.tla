-------------------------------- MODULE Packet --------------------------------
(***************************************************************************)
(* PackBuffer, Pack and Unpack (Library/protocols/protocols/gen/packet.h): *)
(* a packet is packed, field by field, behind what a buffer already holds  *)
(* and behind space reserved for a header, and unpacked from a copy of its *)
(* bytes.                                                                  *)
(***************************************************************************)
EXTENDS BlockBuffer, Integers, SequencesExt

CONSTANTS
    PackBuffers,    \* the buffers that are PackBuffers: these cannot erase
    Fields,         \* the values that are packed, with their types
    Headers,        \* what a reserved header is filled with
    PlainStrings,   \* what is put into a buffer outside of any Pack
    PlainLengths,   \* and the sizes and positions asked for there
    MaxVarstr,      \* 0xFFFF in the code
    MaxFields       \* bound of the model: fields in a packet

VARIABLE pack       \* the Pack on each PackBuffer, None if there is none

packetVars == <<data, size, block, total, peak, m_pos, result, pack>>

Width == [u8 |-> 1, u16 |-> 2, u32 |-> 4, bool |-> 1]

(* The bytes of the length that a varstr, a varstr32, a wide string or a
   vector of uint8_t begins with. *)
Prefix == [str |-> 2, str32 |-> 4, wstr |-> 4, vec |-> 4]

ASSUME PacketAssumption ==
    /\ PackBuffers \subseteq Buffers
    /\ \A f \in Fields : f.type \in DOMAIN Width \cup DOMAIN Prefix
    /\ Headers \cup PlainStrings \subseteq Strings
    /\ PlainLengths \subseteq Lengths
    /\ \A n \in 0..(MaxBlocks * BlockSize) :
           n \in Lengths /\ \A s \in Headers : n + Len(s) \in Lengths

PacketInit == Init /\ pack = [b \in PackBuffers |-> None]

-----------------------------------------------------------------------------
(* An integer as it is in memory, its lowest byte first: the byte order macros
   are empty. *)
Place == <<1, 256, 256 * 256, 256 * 256 * 256>>

Bytes(n, width) == [i \in 1..width |-> (n \div Place[i]) % 256]

Number(s, width) == SumFunction([i \in 1..width |-> s[i] * Place[i]])

Flag(v) == IF v THEN 1 ELSE 0

(* A character of a wide string is cut to its low byte, in two bytes. *)
Narrow(s) == [i \in 1..(2 * Len(s)) |-> IF i % 2 = 1 THEN s[(i + 1) \div 2] % 256 ELSE 0]

(* Mutant of Pieces: the length of a string follows it. *)
PiecesLengthLast(f) ==
    LET v == f.value
    IN  CASE f.type = "bool"            -> <<Bytes(Flag(v), 1)>>
          [] f.type \in {"str", "str32"} -> <<v, Bytes(Len(v), Prefix[f.type])>>
          [] f.type = "wstr"            -> <<Bytes(2 * Len(v), 4), Narrow(v)>>
          [] f.type = "vec"             -> <<Bytes(Len(v), 4)>> \o [i \in 1..Len(v) |-> <<v[i]>>]
          [] OTHER                      -> <<Bytes(v, Width[f.type])>>

(* What a field appends to the buffer, call by call. *)
Pieces(f) ==
    LET v == f.value
    IN  CASE f.type = "bool"            -> <<Bytes(Flag(v), 1)>>
          [] f.type \in {"str", "str32"} -> <<Bytes(Len(v), Prefix[f.type]), v>>
          [] f.type = "wstr"            -> <<Bytes(2 * Len(v), 4), Narrow(v)>>
          [] f.type = "vec"             -> <<Bytes(Len(v), 4)>> \o [i \in 1..Len(v) |-> <<v[i]>>]
          [] OTHER                      -> <<Bytes(v, Width[f.type])>>

(* An unsigned integer of width bytes. *)
Fits(n, width) == n \in Nat /\ n \div Place[width] < 256

(* No string or vector is as long, for neither a buffer nor the app's memory
   holds it. *)
MaxLength == 2147483647

(* A field has a value of its type, and a varstr can say its length. *)
ASSUME FieldAssumption ==
    /\ Fits(MaxVarstr, Prefix.str)
    /\ \A f \in Fields :
           \/ f.type = "bool" /\ f.value \in BOOLEAN
           \/ f.type \in {"u8", "u16", "u32"} /\ Fits(f.value, Width[f.type])
           \/ /\ \/ f.type \in {"str", "str32", "vec"} /\ f.value \in Seq(Byte)
                 \/ f.type = "wstr" /\ f.value \in Seq(Nat)
              /\ Len(f.value) < MaxLength

ASSUME PieceAssumption == \A f \in Fields : \A i \in DOMAIN Pieces(f) : Pieces(f)[i] \in Strings

TooBig(f) == f.type = "str" /\ Len(f.value) > MaxVarstr

-----------------------------------------------------------------------------
(* PackBuffer: what would be false of the BlockBuffer is an exception. *)
Throws == result' # "ok"

(* The constructor reserves off bytes behind what the buffer holds. *)
NewPack(b, off) ==
    /\ pack[b] = None
    /\ Resize(b, size[b] + off)
    /\ pack' = [pack EXCEPT ![b] =
           IF Throws THEN None
           ELSE [start |-> size[b], offset |-> size[b] + off,
                 header |-> [i \in 1..off |-> 0],
                 fields |-> <<>>, todo |-> <<>>, current |-> None, thrown |-> FALSE]]

Ready(b) == pack[b] # None /\ pack[b].todo = <<>> /\ ~pack[b].thrown

(* push_varstr refuses what its length cannot say, before it pushes anything. *)
Push(b, f) ==
    /\ Ready(b) /\ Len(pack[b].fields) < MaxFields
    /\ pack' = [pack EXCEPT ![b].current = f,
                            ![b].todo = IF TooBig(f) THEN <<>> ELSE Pieces(f),
                            ![b].thrown = TooBig(f)]
    /\ UNCHANGED bufferVars

PushPiece(b) ==
    /\ pack[b] # None /\ pack[b].todo # <<>>
    /\ AppendTo(b, Head(pack[b].todo))
    /\ LET p    == pack[b]
           rest == Tail(p.todo)
       IN  pack' = [pack EXCEPT ![b] =
               IF Throws THEN [p EXCEPT !.todo = <<>>, !.thrown = TRUE]
               ELSE IF rest = <<>>
               THEN [p EXCEPT !.todo = rest, !.current = None, !.fields = Append(@, p.current)]
               ELSE [p EXCEPT !.todo = rest]]

(* endpack: the reserved space is filled by replace. *)
FillHeader(b, s) ==
    /\ Ready(b) /\ Len(s) <= pack[b].offset - pack[b].start
    /\ Replace(b, pack[b].start, s)
    /\ pack' = [pack EXCEPT ![b].header =
           [i \in DOMAIN @ |-> IF i <= Len(s) THEN s[i] ELSE @[i]]]

(* The packet is complete, or an exception unwinds it. *)
EndPack(b) ==
    /\ pack[b] # None /\ pack[b].todo = <<>>
    /\ pack' = [pack EXCEPT ![b] = None]
    /\ UNCHANGED bufferVars

(* The bound of the model: a buffer is used while the others have memory, but
   nothing was written there.  What buffers share is the counters of blocks. *)
OthersBlank(b) ==
    \A o \in Buffers \ {b} :
        /\ \A i \in DOMAIN data[o] : data[o][i] = Junk
        /\ Direct(o) /\ (o \in PackBuffers => pack[o] = None)

(* What is done to a PackBuffer outside of any Pack; the rest of Grow is done to
   the other buffers only. *)
Prepare(b) ==
    \/ \E s \in PlainStrings : AppendTo(b, s)
    \/ \E n \in PlainLengths : Reserve(b, n)
    \/ Destroy(b)

PacketStep(b) ==
    \/ /\ b \notin PackBuffers
       /\ Grow(b, PlainStrings, PlainLengths) \/ Consume(b, PlainLengths)
       /\ UNCHANGED pack
    \/ /\ b \in PackBuffers
       /\ \/ pack[b] = None /\ Prepare(b) /\ UNCHANGED pack
          \/ \E s \in Headers : NewPack(b, Len(s)) \/ FillHeader(b, s)
          \/ \E f \in Fields : Push(b, f)
          \/ PushPiece(b)
          \/ EndPack(b)

PacketNext == \E b \in Buffers : OthersBlank(b) /\ PacketStep(b)

PacketSpec == PacketInit /\ [][PacketNext]_packetVars

-----------------------------------------------------------------------------
(* Whether there is enough data for a pop of this type, and how much it takes. *)
Popped(type, s) ==
    IF type \in DOMAIN Width
    THEN [ok |-> Len(s) >= Width[type], used |-> Width[type]]
    ELSE LET used == IF Len(s) < Prefix[type] THEN 0 ELSE Prefix[type] + Number(s, Prefix[type])
         IN  [ok |-> Len(s) >= Prefix[type] /\ Len(s) >= used, used |-> used]

(* The value that a pop returns from the bytes it takes. *)
ValueOf(type, s) ==
    CASE type = "bool"                 -> s[1] # 0
      [] type \in {"u8", "u16", "u32"} -> Number(s, Width[type])
      [] type = "wstr" ->
             [i \in 1..((Len(s) - 4) \div 2) |-> s[3 + 2 * i] + 256 * s[4 + 2 * i]]
      [] OTHER                         -> SubSeq(s, Prefix[type] + 1, Len(s))

(* One pop, unless one before it has thrown. *)
Pop(read, type) ==
    LET p == Popped(type, read.rest)
    IN  IF ~read.ok THEN read
        ELSE IF ~p.ok THEN [read EXCEPT !.ok = FALSE]
        ELSE [ok     |-> TRUE,
              values |-> Append(read.values, ValueOf(type, SubSeq(read.rest, 1, p.used))),
              rest   |-> SubSeq(read.rest, p.used + 1, Len(read.rest))]

(* The pops of an unmarshal, up to the first that throws. *)
Unpack(types, s) == FoldLeft(Pop, [ok |-> TRUE, values |-> <<>>, rest |-> s], types)

-----------------------------------------------------------------------------
(* The types of a Pack, on top of those of its buffer. *)
TypeOK ==
    /\ BufferTypeOK
    /\ \A b \in PackBuffers : pack[b] # None =>
           /\ pack[b].start <= pack[b].offset /\ pack[b].offset <= size[b]
           /\ pack[b].fields \in Seq(Fields)
           /\ pack[b].thrown => pack[b].todo = <<>>

(* What arrives of a field: of a wide character, its low byte. *)
Delivered(f) ==
    IF f.type = "wstr" THEN [i \in 1..Len(f.value) |-> f.value[i] % 256] ELSE f.value

Body(b) == SubSeq(bytes[b], pack[b].offset + 1, size[b])

Types(fields) == [i \in 1..Len(fields) |-> fields[i].type]

(* Whoever unpacks a packet with the types it was packed with reads its fields,
   each as it was and nothing besides; a packet cut short anywhere, on its way
   or by an exception while it was packed, is refused; and the header, reserved
   before the fields and filled after them, is what it was filled with. *)
ReaderAgrees ==
    \A b \in PackBuffers : pack[b] # None =>
        LET p     == pack[b]
            types == Types(p.fields)
        IN  /\ SubSeq(bytes[b], p.start + 1, p.offset) = p.header
            /\ Ready(b) =>
                   /\ Unpack(types, Body(b)) =
                          [ok |-> TRUE, values |-> [i \in DOMAIN p.fields |-> Delivered(p.fields[i])],
                           rest |-> <<>>]
                   /\ \A n \in 0..(Len(Body(b)) - 1) : ~Unpack(types, SubSeq(Body(b), 1, n)).ok
            /\ p.thrown => ~Unpack(Append(types, p.current.type), Body(b)).ok
=============================================================================
