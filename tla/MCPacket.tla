------------------------------- MODULE MCPacket -------------------------------
(* One PackBuffer and one plain BlockBuffer of the same type, with blocks of
   three bytes: a packet with a string is longer than a block and one with two
   is longer than a buffer may be. *)
EXTENDS Packet

CONSTANTS b1, b2

MCFields ==
    {[type |-> "u16",  value |-> 256],
     [type |-> "bool", value |-> TRUE],
     [type |-> "str",  value |-> <<>>],
     [type |-> "str",  value |-> <<1>>],
     [type |-> "str",  value |-> <<1, 1>>],
     [type |-> "wstr", value |-> <<257>>],
     [type |-> "vec",  value |-> <<1, 0>>]}

MCHeaders == {<<>>, <<1>>}
MCPlainStrings == {<<>>, <<0, 1>>}
MCPlainLengths == {0, 1, 2, 4}
MCStrings == MCPlainStrings \cup MCHeaders \cup UNION {{Pieces(f)[i] : i \in DOMAIN Pieces(f)} : f \in MCFields}
MCLengths == 0..7
MCByte == 0..255
=============================================================================
