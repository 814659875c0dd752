------------------------------- MODULE MCMaxLnb -------------------------------
(* Two frontends attached to one input, in all modes but 4, in which they   *)
(* only start on another input; they are moved between two inputs.          *)
EXTENDS MaxLnb

CONSTANTS f1, f2

MCFE     == {f1, f2}
MCHome   == [f \in MCFE |-> 0]
MCFModes == 0 .. 3
MCMoveTo == {0, 1}
=============================================================================
