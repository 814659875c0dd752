----------------------------- MODULE MCFrontend -----------------------------
(* One monitor beside the writer.                                           *)
EXTENDS Frontend

CONSTANT m1

MCMonitor == {m1}

(* A carrier in the middle with the other inversion, or at the last trial.  *)
MCWhere == {<<0, ON>>, <<-2, ON>>}

(* One step to both sides, or no zigzag.                                    *)
MCZigzag == {[step |-> 2, max |-> 3], [step |-> 0, max |-> 0]}

(* The removal does not depend on the algorithm.                            *)
MCMax == [HW |-> [opens |-> 2, inputs |-> 2, removed |-> TRUE],
          SW |-> [opens |-> 1, inputs |-> 2, removed |-> FALSE]]
=============================================================================
