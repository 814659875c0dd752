------------------------------- MODULE MCSx8 -------------------------------
(* Two frontends compete for two inputs, two demods (one of them for high   *)
(* rates) and a decoding budget that a second search can exhaust.           *)
EXTENDS Sx8, TLC

CONSTANTS f1, f2, t1, t2

MCFE    == {f1, f2}
MCTuner == {t1, t2}
MCRates == {1, 2}

Symmetry == Permutations(MCFE) \cup Permutations(MCTuner)
=============================================================================
