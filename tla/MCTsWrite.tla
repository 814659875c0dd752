------------------------------ MODULE MCTsWrite ------------------------------
(* Three buffers of four packets; a packet is 1.5 register units, as 188 is *)
(* to 128.  The counts write a packet and two thirds, and a bit more than a *)
(* buffer.                                                                  *)
EXTENDS TsWrite

MCNum    == 3
MCSize   == 12
MCPacket == 3
MCGran   == 2
MCCounts == {5, 13}
=============================================================================
