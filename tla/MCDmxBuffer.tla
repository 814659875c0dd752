---------------------------- MODULE MCDmxBuffer -----------------------------
(* A buffer of four bytes: packets of one and two bytes wrap, fill and      *)
(* overflow it, and a read of four bytes never finds them all at once.      *)
EXTENDS DmxBuffer

MCSize    == 4
MCLengths == {1, 2}
MCCounts  == {1, 4}
MCMaxByte == 9
=============================================================================
