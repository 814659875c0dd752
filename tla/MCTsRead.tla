------------------------------ MODULE MCTsRead ------------------------------
(* Three buffers of two cells: with MaxCell cells the ring wraps, fills,    *)
(* overflows and is reopened.                                               *)
EXTENDS TsRead

MCNum      == 3
MCSize     == 2
MCMaxCell  == 8
MCMaxCount == 2
=============================================================================
