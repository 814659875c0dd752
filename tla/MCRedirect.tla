----------------------------- MODULE MCRedirect -----------------------------
(* One process writes the redirect attribute.  Either two ports, one of     *)
(* them opened as a device, are linked in any order with one feed for each  *)
(* of the two tuner inputs, or three ports are linked as the documentation  *)
(* asks, with two feeds and no device opened.                               *)
EXTENDS Redirect, TLC

CONSTANTS t1, t2, p1, p2, p3, w1

MCTuner  == {t1, t2}
MCPort   == {p1, p2, p3}
MCWriter == {w1}
MCOpened == {p1}

Small ==
  /\ outRedi[p3] = Null /\ \A w \in Writer : request[w].port # p3
  /\ \A t \in Tuner : users[t] <= 1

MCNext == Next /\ (described' \/ Small')

MCSpec == Init /\ [][MCNext]_vars

Symmetry == Permutations(MCTuner)
=============================================================================
