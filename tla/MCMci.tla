-------------------------------- MODULE MCMci --------------------------------
(* Two callers and four commands: one that times out, one that takes its    *)
(* completion, and one that takes the completion of that one.               *)
EXTENDS Mci

CONSTANTS c1, c2

MCCaller == {c1, c2}
MCMaxCmd == 4
=============================================================================
