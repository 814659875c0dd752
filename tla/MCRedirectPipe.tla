--------------------------- MODULE MCRedirectPipe ---------------------------
(* Three buffers of two cells, long enough to wrap and overflow twice.      *)
EXTENDS RedirectPipe

MCNum     == 3
MCSize    == 2
MCMaxCell == 13
=============================================================================
