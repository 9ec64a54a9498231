--------------------------- MODULE MCPacketFraming ---------------------------
(* A small instance of PacketFraming: payloads that look like headers, of both *)
(* forms of the length, and one that is too long.                              *)
EXTENDS PacketFraming

MCPackets == {<<2>>, <<2, 1, 0>>, <<3, 1, 0, 2>>, <<0, 0, 0, 0, 0>>}
MCCrcBytes == <<3, 2>>
=============================================================================
