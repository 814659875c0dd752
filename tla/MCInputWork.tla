---------------------------- MODULE MCInputWork ----------------------------
(* Three buffers of two cells and a two bit loss counter: the ring wraps    *)
(* and overflows, the counter wraps, and the input is restarted.            *)
EXTENDS InputWork

MCNum      == 3
MCSize     == 2
MCMaxCell  == 13
MCMaxFeeds == 2
MCWidth    == 4
=============================================================================
