------------------------------- MODULE MaxLnb -------------------------------
(***************************************************************************)
(* The four LNB inputs of a MAX card and the frontends that share them     *)
(* (ddbridge-max.c).  In fmode 0, 3 and 4 a frontend powers the LNB input  *)
(* it is connected to; in fmode 1 and 2, the quattro modes, the inputs     *)
(* have fixed voltages and tones and a frontend is switched to the input   *)
(* that has what it asks for.                                              *)
(* A request is one step under lnb.lock, except that max_set_voltage reads *)
(* lnb.voltages before it takes the lock.                                  *)
(***************************************************************************)
EXTENDS Integers

CONSTANTS FE,          \* the frontends of the link
          Home,        \* the input a frontend is attached to
          FModes,      \* the values of fmode considered
          OldQuattros, \* the values of the module parameter old_quattro
          MoveTo       \* the inputs frontends are moved to

Lnb == 0 .. 3
Voltage == {"13", "18", "off"}
Tone == {"on", "off"}

ASSUME MaxLnbAssumption ==
  /\ Home \in [FE -> Lnb]
  /\ FModes \subseteq 0 .. 4 /\ OldQuattros \subseteq BOOLEAN /\ MoveTo \subseteq Lnb

VARIABLES
  fmode, old_quattro,           \* set when the card is attached
  input, voltage, tone,         \* struct ddb_dvb, of each frontend
  lnbTone, oldvoltage, users, voltages, \* struct ddb_lnb; users is its voltage[]
  supply,                       \* what each input of the card is fed with
  pc, want, ov,                 \* max_set_voltage, of each frontend
  asked, moved,                 \* history: last voltage; moved since the last
                                \* request that selects or powers its input
  left                          \* history: inputs left powered by one moved away

mode    == <<fmode, old_quattro>>
fes     == <<input, voltage, tone>>
link    == <<lnbTone, oldvoltage, users, voltages, supply>>
callers == <<pc, want, ov>>
history == <<asked, moved, left>>
vars    == <<mode, fes, link, callers, history>>

Quattro == fmode \in {1, 2}

(* The order of the four signals of a quattro LNB on the inputs.            *)
Rail(l)   == IF l \in (IF old_quattro THEN {1, 3} ELSE {2, 3}) THEN "18" ELSE "13"
ToneOn(l) == l \in (IF old_quattro THEN {2, 3} ELSE {1, 3})

(* The inputs the card powers in a quattro mode.                            *)
Fed == IF fmode = 2 THEN {0} ELSE Lnb

(* The input that has this tone and voltage.                                *)
Tuner(t, v) ==
  LET a == IF t = "on" THEN 1 ELSE 0
      b == IF v = "18" THEN 1 ELSE 0
  IN  IF old_quattro THEN 2 * a + b ELSE a + 2 * b

Init ==
  /\ fmode \in FModes /\ old_quattro \in OldQuattros
  /\ input = [f \in FE |-> IF fmode \in {3, 4} THEN 0 ELSE Home[f]]
  /\ voltage = [f \in FE |-> "13"] /\ tone = [f \in FE |-> "on"]
  /\ lnbTone = [l \in Lnb |-> IF Quattro /\ ToneOn(l) THEN "on" ELSE "off"]
  /\ oldvoltage = [l \in Lnb |-> "off"] /\ supply = [l \in Lnb |-> "off"]
  /\ users = [l \in Lnb |-> {}] /\ voltages = {}
  /\ pc = [f \in FE |-> "idle"] /\ want = [f \in FE |-> "off"] /\ ov = [f \in FE |-> {}]
  /\ asked = [f \in FE |-> "off"] /\ moved = {} /\ left = {}
-----------------------------------------------------------------------------
With(set, f, v) == IF v = "off" THEN set \ {f} ELSE set \cup {f}

\* Mutant: an input is switched off although others still use it.
Supplied_Shared(u, target) ==
  LET changed == {l \in DOMAIN target : oldvoltage[l] # target[l]}
      After(f) == [l \in Lnb |-> IF l \in changed THEN target[l] ELSE f[l]]
  IN  supply' = After(supply) /\ oldvoltage' = After(oldvoltage)

(* lnb_set_voltage for each input in DOMAIN target, with the users u: not   *)
(* again what was set last, and not off while somebody uses the input.      *)
Supplied(u, target) ==
  LET changed == {l \in DOMAIN target :
                    oldvoltage[l] # target[l] /\ (target[l] = "off" => u[l] = {})}
      After(f) == [l \in Lnb |-> IF l \in changed THEN target[l] ELSE f[l]]
  IN  supply' = After(supply) /\ oldvoltage' = After(oldvoltage)

\* Mutant: the use of the input is not moved along.
Moved_UseStays(f, in) == users

(* users after max_set_input_unlocked.                                      *)
Moved(f, in) ==
  IF in = input[f] THEN users
  ELSE [users EXCEPT ![input[f]] = @ \ {f},
                     ![in] = IF f \in users[input[f]] THEN @ \cup {f} ELSE @]
-----------------------------------------------------------------------------
(* max_set_voltage up to the lock.                                          *)
ReadVoltages(f, v) ==
  /\ pc[f] = "idle"
  /\ pc' = [pc EXCEPT ![f] = "voltage"]
  /\ want' = [want EXCEPT ![f] = v] /\ ov' = [ov EXCEPT ![f] = voltages]
  /\ UNCHANGED <<mode, fes, link, history>>

VoltageSet(f) ==
  /\ pc[f] = "voltage"
  /\ pc' = [pc EXCEPT ![f] = "idle"]
  /\ want' = [want EXCEPT ![f] = "off"] /\ ov' = [ov EXCEPT ![f] = {}]
  /\ voltage' = [voltage EXCEPT ![f] = want[f]]
  /\ asked' = [asked EXCEPT ![f] = want[f]] /\ moved' = moved \ {f}
  /\ UNCHANGED <<mode, tone, lnbTone>>

\* An input that has been switched off since is as good as never left.
StillLeft == left' = {l \in left : supply'[l] # "off"}

(* max_set_voltage under the lock, in fmode 0, 3 and 4.                     *)
SetVoltage(f) ==
  LET in == IF fmode = 3 THEN 0 ELSE input[f]
      u  == [Moved(f, in) EXCEPT ![in] = With(@, f, want[f])]
  IN  /\ ~Quattro
      /\ VoltageSet(f)
      /\ input' = [input EXCEPT ![f] = in]
      /\ users' = u
      /\ Supplied(u, [l \in {in} |-> want[f]]) /\ StillLeft
      /\ UNCHANGED voltages

(* max_set_voltage under the lock, in fmode 1 and 2.                        *)
SetVoltageQuattro(f) ==
  LET in == Tuner(tone[f], want[f])
      nv == With(voltages, f, want[f])
      u  == Moved(f, in)
  IN  /\ Quattro
      /\ VoltageSet(f)
      /\ input' = [input EXCEPT ![f] = in]
      /\ users' = u /\ voltages' = nv
      /\ IF nv = ov[f]
         THEN UNCHANGED <<supply, oldvoltage>>
         ELSE Supplied(u, [l \in Fed |-> IF nv = {} THEN "off" ELSE Rail(l)])
      /\ StillLeft

\* Mutant: the tone is stored and the frontend stays on its input.
SetTone_NoSwitch(f, t) ==
  /\ pc[f] = "idle"
  /\ tone' = [tone EXCEPT ![f] = t]
  /\ IF Quattro
     THEN UNCHANGED <<input, users, lnbTone>>
     ELSE lnbTone' = [lnbTone EXCEPT ![input[f]] = t] /\ UNCHANGED <<input, users>>
  /\ UNCHANGED <<mode, voltage, oldvoltage, voltages, supply, callers, history>>

(* max_set_tone; in a quattro mode it selects the input anew.               *)
SetTone(f, t) ==
  LET in == Tuner(t, voltage[f]) IN
  /\ pc[f] = "idle"
  /\ tone' = [tone EXCEPT ![f] = t]
  /\ IF Quattro
     THEN /\ input' = [input EXCEPT ![f] = in] /\ users' = Moved(f, in)
          /\ moved' = moved \ {f} /\ UNCHANGED lnbTone
     ELSE lnbTone' = [lnbTone EXCEPT ![input[f]] = t] /\ UNCHANGED <<input, users, moved>>
  /\ UNCHANGED <<mode, voltage, oldvoltage, voltages, supply, callers, asked, left>>

(* max_set_input for another input than the frontend is on: DTV_INPUT in    *)
(* any mode, outside the quattro modes also a DiSEqC message.               *)
SetInput(f, in) ==
  /\ pc[f] = "idle" /\ in # input[f]
  /\ input' = [input EXCEPT ![f] = in]
  /\ users' = Moved(f, in)
  /\ moved' = moved \cup {f}
  /\ left' = IF Quattro THEN left ELSE left \cup {input[f]}
  /\ UNCHANGED <<mode, voltage, tone, lnbTone, oldvoltage, voltages, supply, callers, asked>>
-----------------------------------------------------------------------------
Next ==
  \E f \in FE :
    \/ \E v \in Voltage : ReadVoltages(f, v)
    \/ SetVoltage(f)
    \/ SetVoltageQuattro(f)
    \/ \E t \in Tone : SetTone(f, t)
    \/ \E in \in MoveTo : SetInput(f, in)

Spec == Init /\ [][Next]_vars
-----------------------------------------------------------------------------
(* Inputs, voltages and tones are what the drivers know.                    *)
TypeOK ==
  /\ fmode \in FModes /\ old_quattro \in OldQuattros
  /\ input \in [FE -> Lnb] /\ voltage \in [FE -> Voltage] /\ tone \in [FE -> Tone]
  /\ lnbTone \in [Lnb -> Tone] /\ oldvoltage \in [Lnb -> Voltage]
  /\ supply \in [Lnb -> Voltage] /\ users \in [Lnb -> SUBSET FE] /\ voltages \in SUBSET FE
  /\ pc \in [FE -> {"idle", "voltage"}] /\ want \in [FE -> Voltage] /\ ov \in [FE -> SUBSET FE]
  /\ asked \in [FE -> Voltage] /\ moved \in SUBSET FE /\ left \in SUBSET Lnb

(* The frontends that count on the power of an input.                       *)
Needs(f, l) == asked[f] # "off" /\ IF Quattro THEN l \in Fed ELSE input[f] = l

(* No request of one frontend takes the power from an input that another    *)
(* one needs, wherever the frontends have been moved.                       *)
NobodysPowerTaken ==
  [][\A l \in Lnb : supply[l] # "off" /\ supply'[l] = "off"
                      => \A f \in FE : ~Needs(f, l)']_vars

(* A frontend that has asked for a voltage has power, although the request  *)
(* may have been answered from a stale copy of lnb.voltages, or not at all  *)
(* since the input had that voltage before.  In the modes in which it       *)
(* powers its own input, moving it takes it to an input that may be off.    *)
Powered ==
  \A f \in FE, l \in Lnb : Needs(f, l) /\ (Quattro \/ f \notin moved) => supply[l] # "off"

(* An input that nobody needs is off, unless a frontend was moved away from *)
(* it: that switches nothing.                                               *)
NoIdlePower == \A l \in Lnb \ left : supply[l] # "off" => \E f \in FE : Needs(f, l)

(* An input has power if and only if a frontend needs it, moves apart.      *)
PowerFitsNeed == Powered /\ NoIdlePower

(* In a quattro mode a frontend is on an input that has the tone it has set *)
(* and, where the card feeds the inputs, the voltage it has asked for,      *)
(* unless DTV_INPUT has moved it since its last tone or voltage request:    *)
(* max_set_input moves a frontend in these modes too.                       *)
QuattroMatches ==
  Quattro => \A f \in FE \ moved : asked[f] # "off" =>
    /\ lnbTone[input[f]] = tone[f]
    /\ Rail(input[f]) = asked[f]
    /\ input[f] \in Fed => supply[input[f]] = asked[f]
=============================================================================
