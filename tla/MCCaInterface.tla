---------------------------- MODULE MCCaInterface ----------------------------
(* Two connections whose messages share a ring of three packets, two        *)
(* faults, writes of two fragments.                                         *)
EXTENDS CaInterface

CONSTANTS c1, c2

MCConn == {c1, c2}
=============================================================================
