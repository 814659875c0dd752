--------------------------- MODULE MaxLnb_proofs ----------------------------
(***************************************************************************)
(* The sharing of the LNB inputs for every number of frontends, every way  *)
(* they are attached and all values of fmode and old_quattro.              *)
(***************************************************************************)
EXTENDS MaxLnb, TLAPS

(* The cache of lnb_set_voltage holds what the input is fed with.           *)
SupplyCached == supply = oldvoltage

(* What max_set_voltage read before the lock is right about the frontend    *)
(* itself: its other requests wait.                                         *)
OwnBitCurrent ==
  Quattro => \A f \in FE : pc[f] = "voltage" => (f \in ov[f] <=> f \in voltages)

(* The users the link has on record are those that asked for power.         *)
UsersKnown ==
  /\ Quattro => /\ \A l \in Lnb : users[l] = {}
                /\ \A f \in FE : f \in voltages <=> asked[f] # "off"
  /\ ~Quattro => \A f \in FE, l \in Lnb :
                   f \in users[l] <=> asked[f] # "off" /\ input[f] = l

(* In a quattro mode the fed inputs have their voltages while anybody needs *)
(* power, the inputs their tones, and a frontend is where it should be once *)
(* it asks for a tone or a voltage, wherever it was moved before.           *)
RailsFed ==
  Quattro => \A l \in Lnb :
    supply[l] = IF l \in Fed /\ voltages # {} THEN Rail(l) ELSE "off"

RightInput ==
  Quattro =>
    /\ \A l \in Lnb : lnbTone[l] = IF ToneOn(l) THEN "on" ELSE "off"
    /\ \A f \in FE : asked[f] # "off" =>
         voltage[f] = asked[f] /\ (f \notin moved => input[f] = Tuner(tone[f], voltage[f]))

(* In the other modes an input with users that stayed is fed, and one that  *)
(* is fed has users unless it was left; in mode 3 only input 0 is fed.      *)
UsersFed ==
  ~Quattro =>
    /\ \A l \in Lnb : users[l] \ moved # {} => supply[l] # "off"
    /\ \A l \in Lnb \ left : supply[l] # "off" => users[l] # {}
    /\ fmode = 3 => \A l \in Lnb \ {0} : supply[l] = "off"

IInv ==
  /\ TypeOK /\ SupplyCached /\ OwnBitCurrent /\ UsersKnown
  /\ RailsFed /\ RightInput /\ UsersFed
-----------------------------------------------------------------------------
(* A frontend is switched to one of the four inputs, and that input has the *)
(* tone and the voltage it is chosen for.                                   *)
LEMMA TunerMatches ==
  ASSUME NEW t \in Tone, NEW v \in Voltage, old_quattro \in BOOLEAN
  PROVE  /\ Tuner(t, v) \in Lnb
         /\ ToneOn(Tuner(t, v)) <=> t = "on"
         /\ Rail(Tuner(t, v)) = IF v = "18" THEN "18" ELSE "13"
  BY DEF Tuner, Tone, Voltage, Lnb, ToneOn, Rail

(* max_set_input_unlocked leaves users alone where there are none, and      *)
(* takes the use of the frontend along where there is one.                  *)
LEMMA MovedUsers ==
  ASSUME TypeOK, UsersKnown, NEW f \in FE, NEW in \in Lnb
  PROVE  /\ Moved(f, in) \in [Lnb -> SUBSET FE]
         /\ Quattro => \A l \in Lnb : Moved(f, in)[l] = {}
         /\ ~Quattro => \A g \in FE, l \in Lnb :
              g \in Moved(f, in)[l] <=>
                asked[g] # "off" /\ l = (IF g = f THEN in ELSE input[g])
<1> USE DEF TypeOK
<1>1. CASE in = input[f]
  BY <1>1 DEF Moved, UsersKnown
<1>2. CASE in # input[f]
  <2> DEFINE old == input[f]
             u == [users EXCEPT ![old] = @ \ {f},
                                ![in] = IF f \in users[old] THEN @ \cup {f} ELSE @]
  <2>1. Moved(f, in) = u
    BY <1>2 DEF Moved
  <2>2. /\ u \in [Lnb -> SUBSET FE] /\ old \in Lnb
        /\ \A l \in Lnb : u[l] = IF l = old THEN users[l] \ {f}
                                 ELSE IF l = in /\ f \in users[old] THEN users[l] \cup {f}
                                 ELSE users[l]
    BY <1>2
  <2> HIDE DEF u
  <2>3. Quattro => \A l \in Lnb : u[l] = {}
    BY <2>2 DEF UsersKnown
  <2>4. ASSUME ~Quattro, NEW g \in FE, NEW l \in Lnb
        PROVE  g \in u[l] <=> asked[g] # "off" /\ l = (IF g = f THEN in ELSE input[g])
    BY <1>2, <2>2, <2>4 DEF UsersKnown
  <2> QED
    BY <2>1, <2>2, <2>3, <2>4
<1> QED
  BY <1>1, <1>2

(* With the cache right, lnb_set_voltage does what it was asked to, except  *)
(* that it does not switch off an input in use.                             *)
LEMMA SuppliedAsAsked ==
  ASSUME TypeOK, SupplyCached, NEW u, NEW target, DOMAIN target \subseteq Lnb,
         \A l \in DOMAIN target : target[l] \in Voltage,
         Supplied(u, target)
  PROVE  /\ supply' = oldvoltage' /\ supply' \in [Lnb -> Voltage]
         /\ \A l \in Lnb :
              supply'[l] = IF l \in DOMAIN target /\ (target[l] = "off" => u[l] = {})
                           THEN target[l] ELSE supply[l]
  BY DEF TypeOK, SupplyCached, Supplied

(* A link on which all frontends are attached and none has asked for power. *)
LEMMA IInvInit == Init => IInv
<1> SUFFICES ASSUME Init PROVE IInv
  OBVIOUS
<1> USE MaxLnbAssumption DEF Init
<1>1. TypeOK
  BY DEF TypeOK, Lnb, Tone, Voltage
<1>2. SupplyCached /\ OwnBitCurrent /\ UsersKnown
  BY DEF SupplyCached, OwnBitCurrent, UsersKnown
<1>3. RailsFed /\ RightInput /\ UsersFed
  BY DEF RailsFed, RightInput, UsersFed
<1> QED
  BY <1>1, <1>2, <1>3 DEF IInv

(* The tables of the quattro modes depend on the parameters alone.          *)
LEMMA ModeKept ==
  ASSUME UNCHANGED mode
  PROVE  /\ Quattro' = Quattro /\ Fed' = Fed
         /\ \A l : (Rail(l))' = Rail(l) /\ (ToneOn(l))' = ToneOn(l)
         /\ \A t, v : (Tuner(t, v))' = Tuner(t, v)
  BY DEF mode, Quattro, Fed, Rail, ToneOn, Tuner

(* What both halves of max_set_voltage do under the lock.                   *)
LEMMA VoltageSetFacts ==
  ASSUME IInv, NEW f \in FE, VoltageSet(f)
  PROVE  /\ want[f] \in Voltage /\ pc[f] = "voltage"
         /\ fmode' = fmode /\ old_quattro' = old_quattro /\ UNCHANGED mode
         /\ tone' = tone /\ lnbTone' = lnbTone
         /\ voltage' \in [FE -> Voltage] /\ asked' \in [FE -> Voltage]
         /\ \A g \in FE : voltage'[g] = IF g = f THEN want[f] ELSE voltage[g]
         /\ \A g \in FE : asked'[g] = IF g = f THEN want[f] ELSE asked[g]
         /\ pc' \in [FE -> {"idle", "voltage"}] /\ want' \in [FE -> Voltage]
         /\ ov' \in [FE -> SUBSET FE]
         /\ \A g \in FE : pc'[g] = "voltage" => g # f /\ pc[g] = "voltage" /\ ov'[g] = ov[g]
         /\ moved' = moved \ {f}
  BY DEF IInv, TypeOK, VoltageSet, mode, Voltage

(* max_set_voltage in the modes where a frontend powers its input: the      *)
(* input is the frontend's own, or 0 for all of them.                       *)
LEMMA SetVoltageKeeps ==
  ASSUME IInv, NEW f \in FE, SetVoltage(f)
  PROVE  IInv'
<1> DEFINE in == IF fmode = 3 THEN 0 ELSE input[f]
           m == Moved(f, in)
           u == [m EXCEPT ![in] = With(@, f, want[f])]
           target == [l \in {in} |-> want[f]]
<1>1. /\ ~Quattro /\ input' = [input EXCEPT ![f] = in] /\ users' = u
      /\ Supplied(u, target) /\ voltages' = voltages /\ VoltageSet(f)
      /\ left' = {l \in left : supply'[l] # "off"}
  BY DEF SetVoltage, StillLeft
<1>2. in \in Lnb
  BY DEF IInv, TypeOK, Lnb
<1>3. /\ want[f] \in Voltage /\ pc[f] = "voltage"
      /\ fmode' = fmode /\ old_quattro' = old_quattro /\ UNCHANGED mode
      /\ tone' = tone /\ lnbTone' = lnbTone
      /\ voltage' \in [FE -> Voltage] /\ asked' \in [FE -> Voltage]
      /\ \A g \in FE : asked'[g] = IF g = f THEN want[f] ELSE asked[g]
      /\ pc' \in [FE -> {"idle", "voltage"}] /\ want' \in [FE -> Voltage]
      /\ ov' \in [FE -> SUBSET FE]
      /\ moved' = moved \ {f}
  BY <1>1, VoltageSetFacts
<1>4. /\ m \in [Lnb -> SUBSET FE]
      /\ \A g \in FE, l \in Lnb :
           g \in m[l] <=> asked[g] # "off" /\ l = (IF g = f THEN in ELSE input[g])
  BY <1>1, <1>2, MovedUsers DEF IInv
<1>5. /\ u \in [Lnb -> SUBSET FE]
      /\ \A g \in FE, l \in Lnb :
           g \in u[l] <=> /\ l = (IF g = f THEN in ELSE input[g])
                          /\ IF g = f THEN want[f] # "off" ELSE asked[g] # "off"
  <2> HIDE DEF m, in
  <2>1. u \in [Lnb -> SUBSET FE]
    BY <1>2, <1>4 DEF With
  <2>2. ASSUME NEW g \in FE, NEW l \in Lnb
        PROVE  g \in u[l] <=> /\ l = (IF g = f THEN in ELSE input[g])
                              /\ IF g = f THEN want[f] # "off" ELSE asked[g] # "off"
    BY <1>2, <1>4 DEF With
  <2> QED
    BY <2>1, <2>2
<1>6. /\ supply' = oldvoltage' /\ supply' \in [Lnb -> Voltage]
      /\ \A l \in Lnb : supply'[l] = IF l = in /\ (want[f] = "off" => u[l] = {})
                                     THEN want[f] ELSE supply[l]
  <2> HIDE DEF u, in
  <2>1. /\ DOMAIN target \subseteq Lnb /\ DOMAIN target = {in}
        /\ \A l \in DOMAIN target : target[l] \in Voltage /\ target[l] = want[f]
    BY <1>2, <1>3
  <2> HIDE DEF target
  <2> QED
    BY <1>1, <2>1, SuppliedAsAsked DEF IInv
<1>7. ~Quattro'
  BY <1>1, <1>3, ModeKept
<1>8. /\ input' \in [FE -> Lnb]
      /\ \A g \in FE : input'[g] = IF g = f THEN in ELSE input[g]
  BY <1>1, <1>2 DEF IInv, TypeOK
<1> HIDE DEF u, m, in, target
<1>9. TypeOK'
  BY <1>1, <1>3, <1>5, <1>6, <1>8 DEF IInv, TypeOK
<1>10. UsersKnown'
  BY <1>1, <1>3, <1>5, <1>7, <1>8 DEF UsersKnown
<1>11. UsersFed'
  <2>1. ASSUME NEW l \in Lnb, u[l] \ moved' # {} PROVE supply'[l] # "off"
    <3>1. PICK g \in FE : g \in u[l] /\ g \notin moved'
      BY <2>1, <1>5
    <3>2. CASE l = in /\ want[f] # "off"
      BY <3>2, <1>6
    <3>3. CASE l = in /\ want[f] = "off"
      <4>1. g # f /\ asked[g] # "off" /\ input[g] = l /\ g \notin moved
        BY <3>1, <3>3, <1>3, <1>5
      <4>2. g \in users[l] \ moved
        BY <4>1, <1>1 DEF IInv, UsersKnown
      <4> QED
        BY <3>1, <3>3, <4>2, <1>1, <1>6 DEF IInv, UsersFed
    <3>4. CASE l # in
      <4>1. g # f /\ asked[g] # "off" /\ input[g] = l /\ g \notin moved
        BY <3>1, <3>4, <1>3, <1>5
      <4>2. g \in users[l] \ moved
        BY <4>1, <1>1 DEF IInv, UsersKnown
      <4> QED
        BY <3>4, <4>2, <1>1, <1>6 DEF IInv, UsersFed
    <3> QED
      BY <3>2, <3>3, <3>4
  <2>2. ASSUME NEW l \in Lnb \ left', supply'[l] # "off" PROVE u[l] # {}
    <3>1. l \notin left
      BY <2>2, <1>1
    <3>2. CASE l = in
      BY <2>2, <3>2, <1>5, <1>6
    <3>3. CASE l # in
      <4>1. PICK g \in FE : g \in users[l]
        BY <2>2, <3>1, <3>3, <1>1, <1>6 DEF IInv, UsersFed, TypeOK
      <4>2. in = input[f]
        BY <2>2, <3>3, <1>1, <1>6 DEF IInv, UsersFed, in
      <4>3. g # f /\ asked[g] # "off" /\ input[g] = l
        BY <3>3, <4>1, <4>2, <1>1 DEF IInv, UsersKnown
      <4> QED
        BY <4>3, <1>5
    <3> QED
      BY <3>2, <3>3
  <2>3. fmode' = 3 => \A l \in Lnb \ {0} : supply'[l] = "off"
    BY <1>1, <1>3, <1>6 DEF IInv, UsersFed, in
  <2> QED
    BY <1>1, <2>1, <2>2, <2>3 DEF UsersFed
<1>12. SupplyCached' /\ OwnBitCurrent' /\ RailsFed' /\ RightInput'
  BY <1>6, <1>7 DEF SupplyCached, OwnBitCurrent, RailsFed, RightInput
<1> QED
  BY <1>9, <1>10, <1>11, <1>12 DEF IInv

(* max_set_voltage in the quattro modes: what was read before the lock may  *)
(* be old, but it only decides to leave the supply alone when this request  *)
(* changes nothing.                                                         *)
LEMMA SetVoltageQuattroKeeps ==
  ASSUME IInv, NEW f \in FE, SetVoltageQuattro(f)
  PROVE  IInv'
<1> DEFINE in == Tuner(tone[f], want[f])
           nv == With(voltages, f, want[f])
           u  == Moved(f, in)
           target == [l \in Fed |-> IF nv = {} THEN "off" ELSE Rail(l)]
<1>1. /\ Quattro /\ input' = [input EXCEPT ![f] = in] /\ users' = u /\ voltages' = nv
      /\ IF nv = ov[f] THEN UNCHANGED <<supply, oldvoltage>> ELSE Supplied(u, target)
      /\ VoltageSet(f) /\ left' = {l \in left : supply'[l] # "off"}
  BY DEF SetVoltageQuattro, StillLeft
<1>2. /\ want[f] \in Voltage /\ pc[f] = "voltage"
      /\ fmode' = fmode /\ old_quattro' = old_quattro /\ UNCHANGED mode
      /\ tone' = tone /\ lnbTone' = lnbTone
      /\ voltage' \in [FE -> Voltage] /\ asked' \in [FE -> Voltage]
      /\ \A g \in FE : voltage'[g] = IF g = f THEN want[f] ELSE voltage[g]
      /\ \A g \in FE : asked'[g] = IF g = f THEN want[f] ELSE asked[g]
      /\ pc' \in [FE -> {"idle", "voltage"}] /\ want' \in [FE -> Voltage]
      /\ ov' \in [FE -> SUBSET FE]
      /\ \A g \in FE : pc'[g] = "voltage" => g # f /\ pc[g] = "voltage" /\ ov'[g] = ov[g]
      /\ moved' = moved \ {f}
  BY <1>1, VoltageSetFacts
<1>3. in \in Lnb
  BY <1>2, TunerMatches, MaxLnbAssumption DEF IInv, TypeOK
<1>4. /\ u \in [Lnb -> SUBSET FE] /\ \A l \in Lnb : u[l] = {}
  BY <1>1, <1>3, MovedUsers DEF IInv
<1>5. nv \in SUBSET FE /\ \A g \in FE : g \in nv <=> asked'[g] # "off"
  BY <1>1, <1>2 DEF With, IInv, TypeOK, UsersKnown
<1>6. /\ Quattro' /\ Fed' = Fed /\ \A l : (Rail(l))' = Rail(l) /\ (ToneOn(l))' = ToneOn(l)
      /\ \A t, v : (Tuner(t, v))' = Tuner(t, v)
  BY <1>1, <1>2, ModeKept
<1>7. Fed \subseteq Lnb /\ \A l : Rail(l) \in Voltage
  BY DEF Fed, Rail, Lnb, Voltage
<1>8. /\ supply' = oldvoltage' /\ supply' \in [Lnb -> Voltage]
      /\ \A l \in Lnb : supply'[l] = IF l \in Fed /\ nv # {} THEN Rail(l) ELSE "off"
  <2>1. CASE nv = ov[f]
    <3>1. nv = voltages
      BY <2>1, <1>1, <1>2 DEF With, IInv, OwnBitCurrent
    <3> QED
      BY <2>1, <3>1, <1>1 DEF IInv, TypeOK, SupplyCached, RailsFed
  <2>2. CASE nv # ov[f]
    <3> HIDE DEF u, nv, in
    <3>1. /\ DOMAIN target = Fed
          /\ \A l \in Fed : target[l] = (IF nv = {} THEN "off" ELSE Rail(l))
      OBVIOUS
    <3>2. \A l \in Fed : target[l] \in Voltage
      BY <3>1, <1>7 DEF Voltage
    <3> HIDE DEF target
    <3>3. /\ supply' = oldvoltage' /\ supply' \in [Lnb -> Voltage]
          /\ \A l \in Lnb :
               supply'[l] = IF l \in DOMAIN target /\ (target[l] = "off" => u[l] = {})
                            THEN target[l] ELSE supply[l]
      BY <2>2, <3>1, <3>2, <1>1, <1>7, SuppliedAsAsked DEF IInv
    <3>4. \A l \in Lnb : l \notin Fed => supply[l] = "off"
      BY <1>1 DEF IInv, RailsFed
    <3> QED
      BY <3>1, <3>3, <3>4, <1>4
  <2> QED
    BY <2>1, <2>2
<1>9. /\ input' \in [FE -> Lnb]
      /\ \A g \in FE : input'[g] = IF g = f THEN in ELSE input[g]
  BY <1>1, <1>3 DEF IInv, TypeOK
<1> HIDE DEF u, nv, target
<1>10. TypeOK'
  BY <1>1, <1>2, <1>4, <1>5, <1>8, <1>9 DEF IInv, TypeOK
<1>11. SupplyCached' /\ RailsFed'
  BY <1>1, <1>6, <1>8 DEF SupplyCached, RailsFed
<1>12. UsersKnown'
  BY <1>1, <1>4, <1>5, <1>6 DEF UsersKnown
<1>13. OwnBitCurrent'
  <2>1. ASSUME NEW g \in FE, pc'[g] = "voltage" PROVE g \in ov'[g] <=> g \in nv
    BY <2>1, <1>1, <1>2 DEF IInv, OwnBitCurrent, nv, With
  <2> QED
    BY <2>1, <1>1 DEF OwnBitCurrent
<1>14. RightInput'
  <2>1. ASSUME NEW g \in FE, asked'[g] # "off"
        PROVE  /\ voltage'[g] = asked'[g]
               /\ g \notin moved' => input'[g] = Tuner(tone'[g], voltage'[g])
    <3>1. CASE g = f
      BY <3>1, <1>2, <1>9
    <3>2. CASE g # f
      BY <2>1, <3>2, <1>1, <1>2, <1>9 DEF IInv, RightInput
    <3> QED
      BY <3>1, <3>2
  <2>2. \A l \in Lnb : lnbTone'[l] = IF ToneOn(l) THEN "on" ELSE "off"
    BY <1>1, <1>2 DEF IInv, RightInput
  <2> QED
    BY <2>1, <2>2, <1>6 DEF RightInput
<1>15. UsersFed'
  BY <1>6 DEF UsersFed
<1> QED
  BY <1>10, <1>11, <1>12, <1>13, <1>14, <1>15 DEF IInv

(* Every step keeps the invariant.                                          *)
LEMMA IInvNext == IInv /\ [Next]_vars => IInv'
<1> SUFFICES ASSUME IInv, [Next]_vars PROVE IInv'
  OBVIOUS
<1>1. ASSUME NEW f \in FE, NEW v \in Voltage, ReadVoltages(f, v) PROVE IInv'
  <2>1. /\ UNCHANGED <<mode, fes, link, history>>
        /\ pc' \in [FE -> {"idle", "voltage"}] /\ want' \in [FE -> Voltage]
        /\ ov' \in [FE -> SUBSET FE]
        /\ \A g \in FE : pc'[g] = "voltage" => IF g = f THEN ov'[g] = voltages
                                               ELSE pc[g] = "voltage" /\ ov'[g] = ov[g]
    BY <1>1 DEF ReadVoltages, IInv, TypeOK
  <2>2. UNCHANGED mode
    BY <2>1
  <2>3. /\ Quattro' = Quattro /\ Fed' = Fed
        /\ \A l : (Rail(l))' = Rail(l) /\ (ToneOn(l))' = ToneOn(l)
        /\ \A t, w : (Tuner(t, w))' = Tuner(t, w)
    BY <2>2, ModeKept
  <2>4. TypeOK' /\ SupplyCached'
    BY <2>1 DEF IInv, TypeOK, SupplyCached, mode, fes, link, history
  <2>5. OwnBitCurrent'
    BY <2>1, <2>3 DEF IInv, OwnBitCurrent, link
  <2>6. UsersKnown' /\ RailsFed'
    BY <2>1, <2>3 DEF IInv, UsersKnown, RailsFed, fes, link, history
  <2>7. RightInput' /\ UsersFed'
    BY <2>1, <2>3 DEF IInv, RightInput, UsersFed, mode, fes, link, history
  <2> QED
    BY <2>4, <2>5, <2>6, <2>7 DEF IInv
<1>2. ASSUME NEW f \in FE, NEW t \in Tone, SetTone(f, t) PROVE IInv'
  <2> DEFINE in == Tuner(t, voltage[f])
  <2>1. /\ tone' \in [FE -> Tone] /\ \A g \in FE : tone'[g] = IF g = f THEN t ELSE tone[g]
        /\ UNCHANGED <<mode, voltage, oldvoltage, voltages, supply, callers, asked, left>>
    BY <1>2 DEF SetTone, IInv, TypeOK
  <2>2. UNCHANGED mode
    BY <2>1
  <2>3. /\ Quattro' = Quattro /\ Fed' = Fed
        /\ \A l : (Rail(l))' = Rail(l) /\ (ToneOn(l))' = ToneOn(l)
        /\ \A x, w : (Tuner(x, w))' = Tuner(x, w)
    BY <2>2, ModeKept
  <2>4. in \in Lnb
    BY TunerMatches, MaxLnbAssumption DEF IInv, TypeOK
  <2>5. CASE Quattro
    <3> DEFINE u == Moved(f, in)
    <3>1. /\ input' = [input EXCEPT ![f] = in] /\ users' = u /\ lnbTone' = lnbTone
          /\ moved' = moved \ {f}
      BY <1>2, <2>5 DEF SetTone
    <3>2. u \in [Lnb -> SUBSET FE] /\ \A l \in Lnb : u[l] = {}
      BY <2>4, <2>5, MovedUsers DEF IInv
    <3>3. input' \in [FE -> Lnb] /\ \A g \in FE : input'[g] = IF g = f THEN in ELSE input[g]
      BY <3>1, <2>4 DEF IInv, TypeOK
    <3> HIDE DEF u
    <3>4. TypeOK' /\ SupplyCached'
      BY <2>1, <3>1, <3>2, <3>3
         DEF IInv, TypeOK, SupplyCached, mode, callers
    <3>5. OwnBitCurrent' /\ RailsFed' /\ UsersFed'
      BY <2>1, <2>3, <2>5 DEF IInv, OwnBitCurrent, RailsFed, UsersFed, callers
    <3>6. UsersKnown'
      BY <2>1, <2>3, <2>5, <3>1, <3>2 DEF IInv, UsersKnown
    <3>7. RightInput'
      <4>1. ASSUME NEW g \in FE, asked[g] # "off"
            PROVE  /\ voltage[g] = asked[g]
                   /\ g \notin moved' => input'[g] = Tuner(tone'[g], voltage[g])
        <5>1. CASE g = f
          BY <4>1, <5>1, <2>1, <2>5, <3>3 DEF IInv, RightInput
        <5>2. CASE g # f
          BY <4>1, <5>2, <2>1, <2>5, <3>1, <3>3 DEF IInv, RightInput
        <5> QED
          BY <5>1, <5>2
      <4>2. \A l \in Lnb : lnbTone'[l] = IF ToneOn(l) THEN "on" ELSE "off"
        BY <2>5, <3>1 DEF IInv, RightInput
      <4> QED
        BY <4>1, <4>2, <2>1, <2>3 DEF RightInput
    <3> QED
      BY <3>4, <3>5, <3>6, <3>7 DEF IInv
  <2>6. CASE ~Quattro
    <3>1. /\ lnbTone' = [lnbTone EXCEPT ![input[f]] = t] /\ input' = input /\ users' = users
          /\ moved' = moved
      BY <1>2, <2>6 DEF SetTone
    <3>2. TypeOK' /\ SupplyCached'
      BY <2>1, <3>1 DEF IInv, TypeOK, SupplyCached, mode, callers
    <3>3. OwnBitCurrent' /\ RailsFed' /\ RightInput'
      BY <2>3, <2>6 DEF OwnBitCurrent, RailsFed, RightInput
    <3>4. UsersKnown' /\ UsersFed'
      BY <2>1, <2>3, <2>6, <3>1 DEF IInv, UsersKnown, UsersFed, mode
    <3> QED
      BY <3>2, <3>3, <3>4 DEF IInv
  <2> QED
    BY <2>5, <2>6
<1>3. ASSUME NEW f \in FE, NEW in \in MoveTo, SetInput(f, in) PROVE IInv'
  <2> DEFINE u == Moved(f, in)
  <2>1. /\ input' = [input EXCEPT ![f] = in] /\ users' = u
        /\ moved' = moved \cup {f}
        /\ left' = IF Quattro THEN left ELSE left \cup {input[f]}
        /\ UNCHANGED <<mode, voltage, tone, lnbTone, oldvoltage, voltages, supply, callers,
                       asked>>
    BY <1>3 DEF SetInput
  <2>2. in \in Lnb
    BY MaxLnbAssumption
  <2>3. /\ Quattro' = Quattro /\ Fed' = Fed
        /\ \A l : (Rail(l))' = Rail(l) /\ (ToneOn(l))' = ToneOn(l)
        /\ \A t, v : (Tuner(t, v))' = Tuner(t, v)
    BY <2>1, ModeKept
  <2>4. /\ u \in [Lnb -> SUBSET FE]
        /\ Quattro => \A l \in Lnb : u[l] = {}
        /\ ~Quattro => \A g \in FE, l \in Lnb :
             g \in u[l] <=> asked[g] # "off" /\ l = (IF g = f THEN in ELSE input[g])
    BY <2>2, MovedUsers DEF IInv
  <2>5. input' \in [FE -> Lnb] /\ \A g \in FE : input'[g] = IF g = f THEN in ELSE input[g]
    BY <2>1, <2>2 DEF IInv, TypeOK
  <2> HIDE DEF u
  <2>6. TypeOK' /\ SupplyCached'
    BY <2>1, <2>4, <2>5 DEF IInv, TypeOK, SupplyCached, mode, callers
  <2>7. UsersKnown'
    BY <2>1, <2>3, <2>4, <2>5 DEF IInv, UsersKnown
  <2>8. OwnBitCurrent' /\ RailsFed'
    BY <2>1, <2>3 DEF IInv, OwnBitCurrent, RailsFed, callers
  <2>9. RightInput'
    <3>1. ASSUME Quattro, NEW g \in FE, asked[g] # "off"
          PROVE  /\ voltage[g] = asked[g]
                 /\ g \notin moved' => input'[g] = Tuner(tone[g], voltage[g])
      BY <3>1, <2>1, <2>5 DEF IInv, RightInput
    <3>2. Quattro => \A l \in Lnb : lnbTone[l] = IF ToneOn(l) THEN "on" ELSE "off"
      BY DEF IInv, RightInput
    <3> QED
      BY <3>1, <3>2, <2>1, <2>3 DEF RightInput
  <2>10. ASSUME ~Quattro PROVE UsersFed'
    <3>1. ASSUME NEW l \in Lnb, u[l] \ moved' # {} PROVE supply[l] # "off"
      <4>1. PICK g \in FE : g \in u[l] /\ g \notin moved'
        BY <3>1, <2>4
      <4>2. g # f /\ g \notin moved /\ asked[g] # "off" /\ input[g] = l
        BY <4>1, <2>1, <2>4, <2>10
      <4>3. g \in users[l] \ moved
        BY <4>2, <2>10 DEF IInv, UsersKnown
      <4> QED
        BY <4>3, <2>10 DEF IInv, UsersFed
    <3>2. ASSUME NEW l \in Lnb \ left', supply[l] # "off" PROVE u[l] # {}
      <4>1. l \notin left /\ l # input[f]
        BY <3>2, <2>1, <2>10
      <4>2. PICK g \in FE : g \in users[l]
        BY <3>2, <4>1, <2>10 DEF IInv, TypeOK, UsersFed
      <4>3. g # f /\ asked[g] # "off" /\ input[g] = l
        BY <4>1, <4>2, <2>10 DEF IInv, UsersKnown
      <4> QED
        BY <4>3, <2>4, <2>10
    <3>3. fmode = 3 => \A l \in Lnb \ {0} : supply[l] = "off"
      BY <2>10 DEF IInv, UsersFed
    <3> QED
      BY <3>1, <3>2, <3>3, <2>1 DEF UsersFed, mode
  <2>11. UsersFed'
    BY <2>3, <2>10 DEF UsersFed
  <2> QED
    BY <2>6, <2>7, <2>8, <2>9, <2>11 DEF IInv
<1>4. CASE UNCHANGED vars
  <2>1. UNCHANGED mode
    BY <1>4 DEF vars
  <2>2. /\ Quattro' = Quattro /\ Fed' = Fed
        /\ \A l : (Rail(l))' = Rail(l) /\ (ToneOn(l))' = ToneOn(l)
        /\ \A t, w : (Tuner(t, w))' = Tuner(t, w)
    BY <2>1, ModeKept
  <2>3. TypeOK' /\ SupplyCached'
    BY <1>4 DEF IInv, TypeOK, SupplyCached, vars, mode, fes, link, callers, history
  <2>4. OwnBitCurrent' /\ UsersKnown' /\ RailsFed'
    BY <1>4, <2>2
       DEF IInv, OwnBitCurrent, UsersKnown, RailsFed, vars, fes, link, callers, history
  <2>5. RightInput' /\ UsersFed'
    BY <1>4, <2>2 DEF IInv, RightInput, UsersFed, vars, mode, fes, link, history
  <2> QED
    BY <2>3, <2>4, <2>5 DEF IInv
<1> QED
  BY <1>1, <1>2, <1>3, <1>4, SetVoltageKeeps, SetVoltageQuattroKeeps DEF Next

(* Every reachable state has the invariant.                                 *)
THEOREM LnbInvariant == Spec => []IInv
  BY IInvInit, IInvNext, PTL DEF Spec

(* Inputs, voltages and tones stay among those there are.                   *)
THEOREM LnbWellTyped == Spec => []TypeOK
<1>1. IInv => TypeOK
  BY DEF IInv
<1> QED
  BY <1>1, LnbInvariant, PTL
-----------------------------------------------------------------------------
(* A frontend that needs power gets it.                                     *)
LEMMA NeedsMet == IInv => Powered
<1> SUFFICES ASSUME IInv, NEW f \in FE, NEW l \in Lnb, Needs(f, l), Quattro \/ f \notin moved
             PROVE  supply[l] # "off"
  BY DEF Powered
<1>1. CASE Quattro
  <2>1. l \in Fed /\ voltages # {}
    BY <1>1 DEF Needs, IInv, UsersKnown
  <2>2. supply[l] = Rail(l)
    BY <1>1, <2>1 DEF IInv, RailsFed
  <2> QED
    BY <2>2 DEF Rail
<1>2. CASE ~Quattro
  <2>1. f \in users[l] \ moved
    BY <1>2 DEF Needs, IInv, UsersKnown
  <2> QED
    BY <1>2, <2>1 DEF IInv, UsersFed
<1> QED
  BY <1>1, <1>2

(* max_set_voltage: a frontend that has asked for a voltage has power, and  *)
(* outside the quattro modes has it on its input unless it was moved since. *)
THEOREM RequestsPowered == Spec => []Powered
  BY LnbInvariant, NeedsMet, PTL

(* An input that is fed is needed.                                          *)
LEMMA FedIsNeeded == IInv => NoIdlePower
<1> SUFFICES ASSUME IInv, NEW l \in Lnb \ left, supply[l] # "off"
             PROVE  \E f \in FE : Needs(f, l)
  BY DEF NoIdlePower
<1>1. CASE Quattro
  <2>1. l \in Fed /\ voltages # {}
    BY <1>1 DEF IInv, RailsFed
  <2>2. PICK f \in FE : f \in voltages
    BY <2>1 DEF IInv, TypeOK
  <2> QED
    BY <1>1, <2>1, <2>2 DEF Needs, IInv, UsersKnown
<1>2. CASE ~Quattro
  <2>1. PICK f \in FE : f \in users[l]
    BY <1>2 DEF IInv, TypeOK, UsersFed
  <2> QED
    BY <1>2, <2>1 DEF Needs, IInv, UsersKnown
<1> QED
  BY <1>1, <1>2

(* max_set_voltage: an input that no frontend needs is off, unless a        *)
(* frontend was moved away from it.                                         *)
THEOREM IdleInputsOff == Spec => []NoIdlePower
  BY LnbInvariant, FedIsNeeded, PTL

(* Power and need agree, for every number of frontends and every mode.      *)
THEOREM PowerMatches == Spec => []PowerFitsNeed
  BY RequestsPowered, IdleInputsOff, PTL DEF PowerFitsNeed

(* The input a frontend is switched to has the signal it has asked for.     *)
LEMMA InputMatches == IInv => QuattroMatches
<1> SUFFICES ASSUME IInv, Quattro, NEW f \in FE \ moved, asked[f] # "off"
             PROVE  /\ lnbTone[input[f]] = tone[f]
                    /\ Rail(input[f]) = asked[f]
                    /\ input[f] \in Fed => supply[input[f]] = asked[f]
  BY DEF QuattroMatches
<1>1. /\ voltage[f] = asked[f] /\ input[f] = Tuner(tone[f], voltage[f])
      /\ asked[f] \in {"13", "18"} /\ tone[f] \in Tone /\ voltage[f] \in Voltage
      /\ input[f] \in Lnb /\ old_quattro \in BOOLEAN
  BY MaxLnbAssumption DEF IInv, RightInput, TypeOK, Voltage
<1>2. /\ ToneOn(input[f]) <=> tone[f] = "on"
      /\ Rail(input[f]) = asked[f]
  BY <1>1, TunerMatches
<1>3. lnbTone[input[f]] = tone[f]
  BY <1>1, <1>2 DEF IInv, RightInput, Tone
<1>4. voltages # {}
  BY DEF IInv, UsersKnown
<1> QED
  BY <1>1, <1>2, <1>3, <1>4 DEF IInv, RailsFed

(* max_set_voltage and max_set_tone in the quattro modes: a frontend is on  *)
(* the input with its tone and its voltage, in both orders of the inputs,   *)
(* until max_set_input moves it and from its next request on.               *)
THEOREM QuattroRouted == Spec => []QuattroMatches
  BY LnbInvariant, InputMatches, PTL
-----------------------------------------------------------------------------
(* A step that switches an input off leaves nobody who needs it.            *)
LEMMA OffOnlyUnused ==
  ASSUME IInv, IInv', [Next]_vars, NEW l \in Lnb, supply[l] # "off", supply'[l] = "off",
         NEW f \in FE
  PROVE  ~Needs(f, l)'
<1>1. CASE Quattro'
  <2>1. ~(l \in Fed' /\ voltages' # {})
    <3>1. Rail(l)' # "off"
      BY DEF Rail
    <3> QED
      BY <1>1, <3>1 DEF IInv, RailsFed
  <2> QED
    BY <1>1, <2>1 DEF Needs, IInv, UsersKnown
<1>2. CASE ~Quattro'
  <2>1. PICK g \in FE : SetVoltage(g) \/ SetVoltageQuattro(g)
    BY DEF Next, vars, link, ReadVoltages, SetTone, SetInput
  <2>2. UNCHANGED mode
    BY <2>1 DEF SetVoltage, SetVoltageQuattro, VoltageSet
  <2>3. ~Quattro /\ SetVoltage(g)
    BY <1>2, <2>1, <2>2, ModeKept DEF SetVoltageQuattro
  <2> DEFINE in == IF fmode = 3 THEN 0 ELSE input[g]
             u  == [Moved(g, in) EXCEPT ![in] = With(@, g, want[g])]
             target == [k \in {in} |-> want[g]]
  <2>4. users' = u /\ Supplied(u, target)
    BY <2>3 DEF SetVoltage
  <2>5. in \in Lnb /\ want[g] \in Voltage
    BY DEF IInv, TypeOK, Lnb
  <2> HIDE DEF u, in
  <2>6. /\ DOMAIN target \subseteq Lnb /\ DOMAIN target = {in}
        /\ \A k \in DOMAIN target : target[k] \in Voltage /\ target[k] = want[g]
    BY <2>5
  <2> HIDE DEF target
  <2>7. supply'[l] = IF l \in DOMAIN target /\ (target[l] = "off" => u[l] = {})
                     THEN target[l] ELSE supply[l]
    BY <2>4, <2>6, SuppliedAsAsked DEF IInv
  <2>8. users'[l] = {}
    BY <2>4, <2>7
  <2> QED
    BY <1>2, <2>8 DEF Needs, IInv, UsersKnown
<1> QED
  BY <1>1, <1>2

(* lnb_set_voltage: no request takes the power from an input that another   *)
(* frontend needs, wherever frontends have been moved.                      *)
THEOREM PowerNotTaken == Spec => NobodysPowerTaken
<1>1. IInv /\ IInv' /\ [Next]_vars
        => [\A l \in Lnb : supply[l] # "off" /\ supply'[l] = "off"
                             => \A f \in FE : ~Needs(f, l)']_vars
  BY OffOnlyUnused
<1> QED
  BY <1>1, LnbInvariant, PTL DEF Spec, NobodysPowerTaken
=============================================================================
