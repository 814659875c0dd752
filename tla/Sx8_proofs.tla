----------------------------- MODULE Sx8_proofs -----------------------------
(***************************************************************************)
(* Proofs about Sx8, for any number of frontends, inputs and demods.       *)
(***************************************************************************)
EXTENDS Sx8, FiniteSetTheorems, WellFoundedInduction, TLAPS

(* The start and every step keep every variable in its set: TypeOK is       *)
(* inductive by itself.                                                     *)
LEMMA TypeInit == Init => TypeOK
  <1> SUFFICES ASSUME Init PROVE TypeOK
    OBVIOUS
  <1>1. /\ useCount \in [Tuner -> Int] /\ ldpc \in [FE -> Nat]
        /\ pc \in [FE -> Labels] /\ op \in [FE -> Ops]
    BY DEF Init, Labels, Ops
  <1>2. /\ inUse \subseteq Demod /\ demod \in [FE -> Demod \cup {None}]
        /\ hwDemod \in [Demod -> FE \cup {Nobody}]
    BY DEF Init
  <1>3. /\ started \in [FE -> BOOLEAN] /\ iqStarted \in [FE -> BOOLEAN]
        /\ firstLock \in [FE -> BOOLEAN]
    BY DEF Init
  <1>4. iqMode \in 0 .. 2 /\ hwTuner \subseteq Tuner
    BY DEF Init
  <1>5. tsConfig \in {"normal", "iq"} /\ iqFailed \in BOOLEAN
    BY Zenon DEF Init
  <1>6. tuner \in [FE -> Tuner] /\ symbolRate \in [FE -> Rates]
    BY DEF Init
  <1> QED BY <1>1, <1>2, <1>3, <1>4, <1>5, <1>6 DEF TypeOK

\* The labels that follow an inlined stop() or stop_iq() are labels.
LEMMA AfterInLabels ==
  ASSUME NEW o \in Ops
  PROVE  AfterStop(o) \in Labels /\ AfterStopIq(o) \in Labels
  BY DEF Ops, Labels, AfterStop, AfterStopIq

\* A product of the budget test is a natural number.
LEMMA BitsTimesRate ==
  ASSUME NEW r \in Rates, NEW b \in Nat
  PROVE  r * b \in Nat
  <1>1. r \in Nat
    BY Sx8Assumption DEF Sx8Assumption
  <1> QED BY <1>1

\* What start() picks is a demod, and a free one.
LEMMA BestIsDemod ==
  ASSUME NEW r, NEW d \in BestDemod(r)
  PROVE  d \in Demod /\ d \notin inUse
  BY Sx8Assumption DEF Sx8Assumption, BestDemod, FreeDemods, TopDemod, Demod

LEMMA TypeStep == TypeOK /\ [Next]_vars => TypeOK'
  <1> SUFFICES ASSUME TypeOK, [Next]_vars PROVE TypeOK'
    OBVIOUS
  <1> USE DEF TypeOK, baseVars, stateVars, procVars, hwVars, Goto
  <1>1. CASE UNCHANGED vars
    BY <1>1 DEF vars
  <1>2. ASSUME NEW f \in FE, SetParameters(f) PROVE TypeOK'
    BY <1>2 DEF SetParameters, Ops, Labels
  <1>3. ASSUME NEW f \in FE, SetSymbolRate(f) PROVE TypeOK'
    BY <1>3 DEF SetSymbolRate
  <1>4. ASSUME NEW f \in FE, SleepOrSetInput(f) PROVE TypeOK'
    BY <1>4 DEF SleepOrSetInput, Ops, Labels
  <1>5. ASSUME NEW f \in FE, StopSkip(f) PROVE TypeOK'
    BY <1>5, AfterInLabels DEF StopSkip
  <1>6. ASSUME NEW f \in FE, StopSend(f) PROVE TypeOK'
    BY <1>6 DEF StopSend, Labels
  <1>7. ASSUME NEW f \in FE, Release(f) PROVE TypeOK'
    BY <1>7, AfterInLabels DEF Release, DropTuner, DropDemod
  <1>8. ASSUME NEW f \in FE, StopIqSkip(f) PROVE TypeOK'
    BY <1>8, AfterInLabels DEF StopIqSkip
  <1>9. ASSUME NEW f \in FE, StopIqSend(f) PROVE TypeOK'
    BY <1>9 DEF StopIqSend, Labels
  <1>10. ASSUME NEW f \in FE, ReleaseIq(f) PROVE TypeOK'
    BY <1>10 DEF ReleaseIq, DropTuner, DropDemod, Labels
  <1>11. ASSUME NEW f \in FE, ClearIq(f) PROVE TypeOK'
    BY <1>11, AfterInLabels DEF ClearIq
  <1>12. ASSUME NEW f \in FE, Acquire(f) PROVE TypeOK'
    <2>1. pc' \in [FE -> Labels]
      BY <1>12 DEF Acquire, Labels
    <2>2. /\ inUse' \subseteq Demod /\ demod' \in [FE -> Demod \cup {None}]
          /\ ldpc' \in [FE -> Nat]
      <3>1. CASE UNCHANGED <<inUse, demod, ldpc>>
        BY <3>1
      <3>2. CASE ~UNCHANGED <<inUse, demod, ldpc>>
        <4>1. PICK b \in Nat, d \in BestDemod(symbolRate[f]) :
                /\ inUse' = inUse \cup {d} /\ demod' = [demod EXCEPT ![f] = d]
                /\ ldpc' = [ldpc EXCEPT ![f] = symbolRate[f] * b]
          BY <1>12, <3>2 DEF Acquire, Affordable
        <4>2. d \in Demod /\ symbolRate[f] * b \in Nat
          BY <4>1, BestIsDemod, BitsTimesRate
        <4> QED BY <4>1, <4>2
      <3> QED BY <3>1, <3>2
    <2>3. /\ useCount' \in [Tuner -> Int] /\ hwTuner' \subseteq Tuner
          /\ iqMode' \in 0 .. 2
      BY <1>12 DEF Acquire, TakeTuner
    <2> QED BY <1>12, <2>1, <2>2, <2>3 DEF Acquire
  <1>13. ASSUME NEW f \in FE, Config(f) PROVE TypeOK'
    BY <1>13 DEF Config, Labels
  <1>14. ASSUME NEW f \in FE, Search(f) PROVE TypeOK'
    BY <1>14 DEF Search, Labels, Ops
  <1>15. ASSUME NEW f \in FE, AcquireIq(f) PROVE TypeOK'
    <2>1. 0 \in Demod
      BY Sx8Assumption DEF Sx8Assumption, Demod
    <2>2. demod' \in [FE -> Demod \cup {None}] /\ useCount' \in [Tuner -> Int]
      BY <1>15, <2>1 DEF AcquireIq
    <2>3. iqMode' \in 0 .. 2 /\ hwTuner' \subseteq Tuner /\ pc' \in [FE -> Labels]
      BY <1>15 DEF AcquireIq, Labels
    <2> QED BY <1>15, <2>2, <2>3 DEF AcquireIq
  <1>16. ASSUME NEW f \in FE, StartIq(f) PROVE TypeOK'
    <2>1. /\ iqStarted' \in [FE -> BOOLEAN] /\ firstLock' \in [FE -> BOOLEAN]
          /\ hwDemod' \in [Demod -> FE \cup {Nobody}]
      BY <1>16 DEF StartIq
    <2>2. op' \in [FE -> Ops] /\ pc' \in [FE -> Labels]
      BY <1>16 DEF StartIq, Labels, Ops
    <2>3. iqFailed' \in BOOLEAN
      BY <1>16 DEF StartIq
    <2> QED BY <1>16, <2>1, <2>2, <2>3 DEF StartIq
  <1>17. ASSUME NEW f \in FE, TsIq(f) PROVE TypeOK'
    BY <1>17 DEF TsIq, Labels
  <1>18. ASSUME NEW f \in FE, SetTuner(f) PROVE TypeOK'
    BY <1>18 DEF SetTuner, Labels
  <1>19. ASSUME NEW f \in FE, FirstLock(f) PROVE TypeOK'
    BY <1>19, BitsTimesRate DEF FirstLock
  <1> QED
    BY <1>1, <1>2, <1>3, <1>4, <1>5, <1>6, <1>7, <1>8, <1>9, <1>10, <1>11, <1>12,
       <1>13, <1>14, <1>15, <1>16, <1>17, <1>18, <1>19 DEF Next, Step

\* Every variable of every reachable state has its type.
THEOREM TypeCorrect == Spec => []TypeOK
  BY TypeInit, TypeStep, PTL DEF Spec
-----------------------------------------------------------------------------
(* The rest of the inductive invariant, one lemma for each of its parts.    *)

LEMMA IInvInit == Init => IInv
  <1> SUFFICES ASSUME Init PROVE IInv
    OBVIOUS
  <1>1. TypeOK
    BY TypeInit
  <1>2. Searching = {} /\ Capturing = {} /\ IqOwners = {}
    BY DEF Init, Searching, Capturing, IqOwners
  <1>3. PcConsistent
    BY DEF Init, PcConsistent
  <1>4. DemodConsistent
    BY <1>2 DEF Init, DemodConsistent, Holds
  <1>5. IqConsistent
    BY <1>2 DEF Init, IqConsistent
  <1>6. HwConsistent
    BY DEF Init, HwConsistent
  <1> QED BY <1>1, <1>3, <1>4, <1>5, <1>6 DEF IInv

(* A frontend's program point and flags agree after each of its steps.      *)
LEMMA PcStep ==
  ASSUME IInv, NEW f \in FE,
         Step(f) \/ SetParameters(f) \/ SetSymbolRate(f) \/ SleepOrSetInput(f) \/ FirstLock(f)
  PROVE  PcConsistent'
  <1> USE DEF IInv, TypeOK, PcConsistent, Goto, baseVars, stateVars, procVars, hwVars
  <1>1. CASE SetParameters(f)
    BY <1>1 DEF SetParameters
  <1>2. CASE SetSymbolRate(f)
    BY <1>2 DEF SetSymbolRate
  <1>3. CASE SleepOrSetInput(f)
    BY <1>3 DEF SleepOrSetInput
  <1>4. CASE StopSkip(f)
    BY <1>4 DEF StopSkip, AfterStop, Ops
  <1>5. CASE StopSend(f)
    BY <1>5 DEF StopSend
  <1>6. CASE Release(f)
    BY <1>6 DEF Release, AfterStop, Ops
  <1>7. CASE StopIqSkip(f)
    BY <1>7 DEF StopIqSkip, AfterStopIq, Ops
  <1>8. CASE StopIqSend(f)
    BY <1>8 DEF StopIqSend
  <1>9. CASE ReleaseIq(f)
    BY <1>9 DEF ReleaseIq
  <1>10. CASE ClearIq(f)
    BY <1>10 DEF ClearIq, AfterStopIq, Ops
  <1>11. CASE Acquire(f)
    BY <1>11 DEF Acquire
  <1>12. CASE Config(f)
    BY <1>12 DEF Config
  <1>13. CASE Search(f)
    BY <1>13 DEF Search
  <1>14. CASE AcquireIq(f)
    BY <1>14 DEF AcquireIq
  <1>15. CASE StartIq(f)
    BY <1>15 DEF StartIq
  <1>16. CASE TsIq(f)
    BY <1>16 DEF TsIq
  <1>17. CASE SetTuner(f)
    BY <1>17 DEF SetTuner
  <1>18. CASE FirstLock(f)
    BY <1>18 DEF FirstLock
  <1> QED
    BY <1>1, <1>2, <1>3, <1>4, <1>5, <1>6, <1>7, <1>8, <1>9, <1>10, <1>11, <1>12,
       <1>13, <1>14, <1>15, <1>16, <1>17, <1>18 DEF Step

(* The steps that neither take nor give back a demod or an IQ capture leave *)
(* the sets of their holders alone.                                         *)
QuietStep(f) ==
  \/ SetParameters(f) \/ SetSymbolRate(f) \/ SleepOrSetInput(f) \/ StopSkip(f)
  \/ StopSend(f) \/ StopIqSkip(f) \/ StopIqSend(f) \/ Config(f) \/ Search(f)
  \/ StartIq(f) \/ TsIq(f) \/ SetTuner(f) \/ FirstLock(f)

\* The steps above leave what the frontends hold as it is.
LEMMA QuietKeeps ==
  ASSUME IInv, NEW f \in FE, QuietStep(f)
  PROVE  /\ UNCHANGED <<Searching, Capturing, IqOwners>>
         /\ UNCHANGED <<demod, inUse, iqMode>>
  <1> USE DEF IInv, TypeOK, PcConsistent, Goto, baseVars, stateVars, procVars, hwVars,
              Searching, Capturing, IqOwners
  <1>1. CASE SetParameters(f)
    BY <1>1 DEF SetParameters
  <1>2. CASE SetSymbolRate(f)
    BY <1>2 DEF SetSymbolRate
  <1>3. CASE SleepOrSetInput(f)
    BY <1>3 DEF SleepOrSetInput
  <1>4. CASE StopSkip(f)
    BY <1>4 DEF StopSkip, AfterStop, Ops
  <1>5. CASE StopSend(f)
    BY <1>5 DEF StopSend
  <1>6. CASE StopIqSkip(f)
    BY <1>6 DEF StopIqSkip, AfterStopIq, Ops
  <1>7. CASE StopIqSend(f)
    BY <1>7 DEF StopIqSend
  <1>8. CASE Config(f)
    BY <1>8 DEF Config
  <1>9. CASE Search(f)
    BY <1>9 DEF Search
  <1>10. CASE StartIq(f)
    BY <1>10 DEF StartIq
  <1>11. CASE TsIq(f)
    BY <1>11 DEF TsIq
  <1>12. CASE SetTuner(f)
    BY <1>12 DEF SetTuner
  <1>13. CASE FirstLock(f)
    BY <1>13 DEF FirstLock
  <1> QED
    BY <1>1, <1>2, <1>3, <1>4, <1>5, <1>6, <1>7, <1>8, <1>9, <1>10, <1>11, <1>12, <1>13
       DEF QuietStep

\* What follows from two frontends holding the same demod.
LEMMA Holders ==
  ASSUME IInv
  PROVE  /\ Capturing \subseteq IqOwners
         /\ \A f \in Searching : f \notin IqOwners /\ demod[f] \in Demod
         /\ iqMode = 0 /\ inUse = {} => Searching \cup IqOwners = {}
  <1> USE DEF IInv, TypeOK, PcConsistent, DemodConsistent, IqConsistent, Holds
  <1>1. Capturing \subseteq IqOwners
    BY DEF Capturing, IqOwners
  <1>2. ASSUME NEW f \in Searching PROVE f \notin IqOwners /\ demod[f] \in Demod
    <2>1. f \in FE /\ f \notin IqOwners
      BY DEF Searching, IqOwners
    <2> QED BY <2>1
  <1>3. ASSUME iqMode = 0, inUse = {} PROVE Searching \cup IqOwners = {}
    <2>1. IqOwners = {}
      BY <1>3
    <2>2. \A f \in Searching : demod[f] \in inUse
      OBVIOUS
    <2>3. Searching = {}
      BY <1>3, <2>2
    <2> QED BY <2>1, <2>3
  <1> QED BY <1>1, <1>2, <1>3

(* demod_in_use names the demods of start(), and no demod is held twice.    *)
LEMMA DemodStep ==
  ASSUME IInv, NEW f \in FE,
         Step(f) \/ SetParameters(f) \/ SetSymbolRate(f) \/ SleepOrSetInput(f) \/ FirstLock(f)
  PROVE  DemodConsistent'
  <1> USE DEF IInv, TypeOK, Goto, baseVars, stateVars, procVars, hwVars
  <1>1. CASE QuietStep(f)
    BY <1>1, QuietKeeps DEF DemodConsistent, Holds
  <1>2. CASE Release(f)
    <2>1. /\ f \in Searching /\ Searching' = Searching \ {f} /\ Capturing' = Capturing
          /\ f \notin Capturing
      BY <1>2, Holders DEF Release, AfterStop, Ops, PcConsistent, Searching, Capturing
    <2>2. demod' = [demod EXCEPT ![f] = None] /\ inUse' = inUse \ {demod[f]}
      BY <1>2 DEF Release, DropDemod
    <2> QED BY <2>1, <2>2 DEF DemodConsistent, Holds
  <1>3. CASE ReleaseIq(f)
    <2>1. /\ f \in Capturing /\ Capturing' = Capturing \ {f} /\ Searching' = Searching
          /\ Searching = {}
      BY <1>3, Holders DEF ReleaseIq, PcConsistent, IqConsistent, Searching, Capturing,
                           IqOwners
    <2>2. demod' = [demod EXCEPT ![f] = None] /\ inUse' = inUse \ {demod[f]}
      BY <1>3 DEF ReleaseIq, DropDemod
    <2> QED BY <2>1, <2>2 DEF DemodConsistent, Holds
  <1>4. CASE ClearIq(f)
    <2>1. Searching' = Searching /\ Capturing' = Capturing
      BY <1>4 DEF ClearIq, AfterStopIq, Ops, Searching, Capturing
    <2>2. UNCHANGED <<demod, inUse>>
      BY <1>4 DEF ClearIq
    <2> QED BY <2>1, <2>2 DEF DemodConsistent, Holds
  <1>5. CASE Acquire(f)
    <2>1. f \notin Searching /\ f \notin Capturing
      BY <1>5 DEF Acquire, PcConsistent, Searching, Capturing
    <2>2. CASE pc'[f] = "idle"
      <3>1. Searching' = Searching /\ Capturing' = Capturing /\ UNCHANGED <<demod, inUse>>
        BY <1>5, <2>1, <2>2 DEF Acquire, Searching, Capturing, PcConsistent
      <3> QED BY <3>1 DEF DemodConsistent, Holds
    <2>3. CASE pc'[f] # "idle"
      <3>1. PICK d \in BestDemod(symbolRate[f]) :
              inUse' = inUse \cup {d} /\ demod' = [demod EXCEPT ![f] = d]
        BY <1>5, <2>3 DEF Acquire
      <3>2. d \in Demod /\ d # None /\ d \notin inUse
        BY <3>1, BestIsDemod DEF Demod, None
      <3>3. Searching' = Searching \cup {f} /\ Capturing' = Capturing
        BY <1>5, <2>3 DEF Acquire, Searching, Capturing, PcConsistent
      <3> QED BY <2>1, <3>1, <3>2, <3>3 DEF DemodConsistent, Holds
    <2> QED BY <2>2, <2>3
  <1>6. CASE AcquireIq(f)
    <2>1. CASE iqStarted[f] \/ pc'[f] = "idle"
      <3>1. Searching' = Searching /\ Capturing' = Capturing /\ UNCHANGED <<demod, inUse>>
        BY <1>6, <2>1 DEF AcquireIq, Searching, Capturing, PcConsistent
      <3> QED BY <3>1 DEF DemodConsistent, Holds
    <2>2. CASE ~(iqStarted[f] \/ pc'[f] = "idle")
      <3>1. demod' = [demod EXCEPT ![f] = 0] /\ UNCHANGED inUse /\ 0 # None
        BY <1>6, <2>2, Sx8Assumption DEF AcquireIq, Sx8Assumption, None
      <3>2. Searching' = Searching /\ Capturing' = Capturing \cup {f} /\ f \notin Searching
        BY <1>6, <2>2 DEF AcquireIq, Searching, Capturing, PcConsistent
      <3> QED BY <3>1, <3>2 DEF DemodConsistent, Holds
    <2> QED BY <2>1, <2>2
  <1> QED BY <1>1, <1>2, <1>3, <1>4, <1>5, <1>6 DEF Step, QuietStep

(* iq_mode is set as long as there is an IQ capture, and then nobody else   *)
(* has anything of the card.                                                *)
LEMMA IqStep ==
  ASSUME IInv, NEW f \in FE,
         Step(f) \/ SetParameters(f) \/ SetSymbolRate(f) \/ SleepOrSetInput(f) \/ FirstLock(f)
  PROVE  IqConsistent'
  <1> USE DEF IInv, TypeOK, Goto, baseVars, stateVars, procVars, hwVars
  <1>1. CASE QuietStep(f)
    BY <1>1, QuietKeeps DEF IqConsistent
  <1>2. CASE Release(f)
    <2>1. f \in Searching /\ f \notin IqOwners /\ IqOwners' = IqOwners /\ iqMode' = 0
      BY <1>2, Holders DEF Release, AfterStop, Ops, PcConsistent, Searching, IqOwners
    <2> QED BY <2>1 DEF IqConsistent
  <1>3. CASE ReleaseIq(f)
    <2>1. Searching' = Searching /\ IqOwners' = IqOwners /\ iqMode' = iqMode
      BY <1>3 DEF ReleaseIq, PcConsistent, Searching, IqOwners
    <2> QED BY <2>1 DEF IqConsistent
  <1>4. CASE ClearIq(f)
    <2>1. f \in IqOwners /\ IqOwners' \subseteq IqOwners \ {f} /\ iqMode' = 0
      BY <1>4 DEF ClearIq, AfterStopIq, Ops, PcConsistent, IqOwners
    <2> QED BY <2>1 DEF IqConsistent
  <1>5. CASE Acquire(f)
    <2>1. IqOwners' = IqOwners
      BY <1>5 DEF Acquire, IqOwners
    <2>2. CASE pc'[f] = "idle"
      <3>1. Searching' = Searching /\ iqMode' = iqMode
        BY <1>5, <2>2 DEF Acquire, Searching, PcConsistent
      <3> QED BY <2>1, <3>1 DEF IqConsistent
    <2>3. CASE pc'[f] # "idle"
      <3>1. /\ Searching' = Searching \cup {f}
            /\ iqMode = 0 /\ (iqMode' # 0 => inUse = {})
        BY <1>5, <2>3 DEF Acquire, MayStart, IqAllowed, Searching
      <3> QED BY <2>1, <3>1, Holders DEF IqConsistent
    <2> QED BY <2>2, <2>3
  <1>6. CASE AcquireIq(f)
    <2>1. Searching' = Searching
      BY <1>6 DEF AcquireIq, Searching
    <2>2. CASE iqStarted[f] \/ pc'[f] = "idle"
      <3>1. IqOwners' = IqOwners /\ iqMode' = iqMode
        BY <1>6, <2>2 DEF AcquireIq, IqOwners
      <3> QED BY <2>1, <3>1 DEF IqConsistent
    <2>3. CASE ~(iqStarted[f] \/ pc'[f] = "idle")
      <3>1. IqOwners' = IqOwners \cup {f} /\ iqMode = 0 /\ inUse = {} /\ iqMode' = 2
        BY <1>6, <2>3 DEF AcquireIq, IqOwners
      <3> QED BY <2>1, <3>1, Holders DEF IqConsistent
    <2> QED BY <2>2, <2>3
  <1> QED BY <1>1, <1>2, <1>3, <1>4, <1>5, <1>6 DEF Step, QuietStep

\* The inductive invariant implies that no demod is held twice.
LEMMA Exclusive == IInv => DemodExclusive
  <1> SUFFICES ASSUME IInv, NEW f \in FE, NEW g \in FE, Holds(f), demod[f] = demod[g]
               PROVE  f = g
    BY DEF DemodExclusive
  <1>1. f \in Searching \cup IqOwners /\ g \in Searching \cup IqOwners
    BY Holders DEF IInv, DemodConsistent, Holds
  <1>2. CASE f \in Searching /\ g \in Searching
    BY <1>2 DEF IInv, DemodConsistent
  <1>3. CASE ~(f \in Searching /\ g \in Searching)
    BY <1>1, <1>3 DEF IInv, IqConsistent
  <1> QED BY <1>2, <1>3

(* A demod only works for the frontend that holds it.                       *)
LEMMA HwStep ==
  ASSUME IInv, NEW f \in FE,
         Step(f) \/ SetParameters(f) \/ SetSymbolRate(f) \/ SleepOrSetInput(f) \/ FirstLock(f)
  PROVE  HwConsistent'
  <1> USE DEF IInv, TypeOK, PcConsistent, HwConsistent, Goto, baseVars, stateVars, procVars,
              hwVars
  <1>0. Nobody \notin FE /\ None \notin Demod
    BY Sx8Assumption DEF Sx8Assumption, Demod, None
  <1>1. CASE SetParameters(f)
    BY <1>1 DEF SetParameters
  <1>2. CASE SetSymbolRate(f)
    BY <1>2 DEF SetSymbolRate
  <1>3. CASE SleepOrSetInput(f)
    BY <1>3 DEF SleepOrSetInput
  <1>4. CASE StopSkip(f)
    BY <1>4 DEF StopSkip, AfterStop, Ops
  <1>5. CASE StopSend(f)
    BY <1>5 DEF StopSend
  <1>6. CASE Release(f)
    BY <1>6 DEF Release, DropDemod, AfterStop, Ops
  <1>7. CASE StopIqSkip(f)
    BY <1>7 DEF StopIqSkip, AfterStopIq, Ops
  <1>8. CASE StopIqSend(f)
    BY <1>8 DEF StopIqSend
  <1>9. CASE ReleaseIq(f)
    BY <1>9 DEF ReleaseIq, DropDemod
  <1>10. CASE ClearIq(f)
    <2>1. demod[f] = None
      BY <1>10 DEF ClearIq, DemodConsistent, Holds, Searching, Capturing
    <2>2. \A d \in Demod : hwDemod[d] # f
      BY <1>0, <2>1
    <2> QED BY <1>10, <2>2 DEF ClearIq, AfterStopIq, Ops
  <1>11. CASE Acquire(f)
    <2>1. \A d \in Demod : hwDemod[d] # f
      BY <1>0, <1>11 DEF Acquire
    <2>2. \A g \in FE \ {f} : demod'[g] = demod[g] /\ pc'[g] = pc[g]
      BY <1>11 DEF Acquire
    <2>3. UNCHANGED <<hwDemod, started, iqStarted>>
      BY <1>11 DEF Acquire
    <2> QED BY <2>1, <2>2, <2>3
  <1>12. CASE Config(f)
    BY <1>12 DEF Config
  <1>13. CASE Search(f)
    <2>1. demod[f] \in Demod
      BY <1>13, Holders DEF Search, Searching
    <2>2. \A g \in FE : demod[g] = demod[f] => g = f
      BY <1>0, <2>1, Exclusive DEF DemodExclusive, Holds
    <2> QED BY <1>13, <2>1, <2>2 DEF Search
  <1>14. CASE AcquireIq(f)
    <2>1. iqStarted[f] \/ \A d \in Demod : hwDemod[d] # f
      BY <1>0, <1>14 DEF AcquireIq
    <2>2. \A g \in FE \ {f} : demod'[g] = demod[g] /\ pc'[g] = pc[g]
      BY <1>14 DEF AcquireIq
    <2>3. UNCHANGED <<hwDemod, started, iqStarted>>
      BY <1>14 DEF AcquireIq
    <2>4. iqStarted[f] => demod'[f] = demod[f] /\ pc'[f] = "startIq"
      BY <1>14 DEF AcquireIq
    <2> QED BY <2>1, <2>2, <2>3, <2>4
  <1>15. CASE StartIq(f)
    <2>1. demod[f] \in Demod
      BY <1>15 DEF StartIq, DemodConsistent, Holds, Capturing
    <2>2. \A g \in FE : demod[g] = demod[f] => g = f
      BY <1>0, <2>1, Exclusive DEF DemodExclusive, Holds
    <2> QED BY <1>15, <2>1, <2>2 DEF StartIq
  <1>16. CASE TsIq(f)
    BY <1>16 DEF TsIq
  <1>17. CASE SetTuner(f)
    BY <1>17 DEF SetTuner
  <1>18. CASE FirstLock(f)
    BY <1>18 DEF FirstLock
  <1> QED
    BY <1>1, <1>2, <1>3, <1>4, <1>5, <1>6, <1>7, <1>8, <1>9, <1>10, <1>11, <1>12,
       <1>13, <1>14, <1>15, <1>16, <1>17, <1>18 DEF Step

\* Every step keeps the inductive invariant.
LEMMA IInvStep == IInv /\ [Next]_vars => IInv'
  <1> SUFFICES ASSUME IInv, [Next]_vars PROVE IInv'
    OBVIOUS
  <1>1. TypeOK'
    BY TypeStep DEF IInv
  <1>2. CASE UNCHANGED vars
    BY <1>2 DEF vars, baseVars, stateVars, procVars, hwVars, IInv, TypeOK, PcConsistent,
       DemodConsistent, IqConsistent, HwConsistent, Holds, Searching, Capturing, IqOwners
  <1>3. CASE Next
    <2>1. PICK f \in FE :
            Step(f) \/ SetParameters(f) \/ SetSymbolRate(f) \/ SleepOrSetInput(f)
              \/ FirstLock(f)
      BY <1>3 DEF Next
    <2> QED BY <1>1, <2>1, PcStep, DemodStep, IqStep, HwStep DEF IInv
  <1> QED BY <1>2, <1>3

\* The program points, demod_in_use, iq_mode and the card agree in every
\* reachable state.
THEOREM InvariantHolds == Spec => []IInv
  BY IInvInit, IInvStep, PTL DEF Spec

-----------------------------------------------------------------------------
\* No demod is ever held by two frontends, for any number of them.
THEOREM DemodsExclusive == Spec => []DemodExclusive
  BY InvariantHolds, Exclusive, PTL

\* Whoever holds a demod while an IQ capture is active is the only one.
THEOREM IqCaptureExclusive == Spec => []IqExclusive
  <1>1. IInv => IqExclusive
    BY Holders DEF IInv, DemodConsistent, IqConsistent, IqExclusive
  <1> QED BY <1>1, InvariantHolds, PTL

\* So neither a second frontend nor an IQ capture ever uses a demod that is
\* in use, in whatever order they start, stop and fail.
THEOREM DemodsNotShared == Spec => []NothingShared
  BY DemodsExclusive, IqCaptureExclusive, PTL DEF NothingShared

(* The steps that send a demod a command, and what is true of it then.      *)
ForeignStop(d) ==
  LET g == hwDemod[d] IN
    /\ g # Nobody /\ hwDemod'[d] # g
    /\ ~(hwDemod'[d] = Nobody /\ demod[g] = d /\ pc'[g] # pc[g])

\* A step with a command has its own demod or a free one as its target.
LEMMA CommandsOwnDemod ==
  ASSUME IInv, [Next]_vars, NEW d \in Demod
  PROVE  ~ForeignStop(d)
  <1> SUFFICES ASSUME hwDemod[d] # Nobody, hwDemod'[d] # hwDemod[d]
               PROVE  /\ hwDemod'[d] = Nobody /\ demod[hwDemod[d]] = d
                      /\ pc'[hwDemod[d]] # pc[hwDemod[d]]
    BY DEF ForeignStop
  <1> USE DEF IInv, TypeOK, HwConsistent, Goto, baseVars, stateVars, procVars, hwVars
  <1>0. /\ Nobody \notin FE /\ None \notin Demod
        /\ hwDemod[d] \in FE /\ demod[hwDemod[d]] = d
    BY Sx8Assumption DEF Sx8Assumption, Demod, None
  <1>1. PICK f \in FE : StopSend(f) \/ StopIqSend(f) \/ Search(f) \/ StartIq(f)
    <2>1. Next
      BY DEF vars
    <2> QED BY <2>1 DEF Next, Step, SetParameters, SetSymbolRate, SleepOrSetInput, StopSkip,
                 Release, StopIqSkip, ReleaseIq, ClearIq, Acquire, Config, AcquireIq, TsIq,
                 SetTuner, FirstLock
  <1>2. demod[f] = d => f = hwDemod[d]
    BY <1>0, Exclusive DEF DemodExclusive, Holds
  <1>3. demod[f] = d
    BY <1>1 DEF StopSend, StopIqSend, Search, StartIq
  <1>4. CASE StopSend(f) \/ StopIqSend(f)
    BY <1>0, <1>2, <1>3, <1>4 DEF StopSend, StopIqSend
  <1>5. CASE Search(f) \/ StartIq(f)
    BY <1>0, <1>2, <1>3, <1>5 DEF Search, StartIq
  <1> QED BY <1>1, <1>4, <1>5

\* No command ever hits a demod while it works for another frontend.
THEOREM CommandsStayHome == Spec => NoForeignStop
  <1>1. IInv /\ [Next]_vars =>
          [\A d \in Demod : LET g == hwDemod[d] IN
             g # Nobody /\ hwDemod'[d] # g =>
               hwDemod'[d] = Nobody /\ demod[g] = d /\ pc'[g] # pc[g]]_vars
    BY CommandsOwnDemod DEF ForeignStop
  <1> QED BY <1>1, InvariantHolds, PTL DEF Spec, NoForeignStop

-----------------------------------------------------------------------------
(* tuner_use_count.                                                         *)

\* The users of an input are finitely many.
LEMMA UsersFinite ==
  ASSUME NEW t
  PROVE  IsFiniteSet(Users(t)) /\ Cardinality(Users(t)) \in Nat
  BY Sx8Assumption, FS_Subset, FS_CardinalityType DEF Sx8Assumption, Users

(* Steps that change neither the users of an input nor its count.           *)
LEMMA SameUsers ==
  ASSUME TunerAccounting, \A t \in Tuner : Users(t)' = Users(t),
         UNCHANGED <<useCount, hwTuner>>
  PROVE  TunerAccounting'
  BY DEF TunerAccounting

(* One user more, counted by TakeTuner.                                     *)
LEMMA OneUserMore ==
  ASSUME IInv, TunerAccounting, NEW f \in FE, ~Holds(f), Holds(f)', tuner' = tuner,
         \A g \in FE \ {f} : demod'[g] = demod[g],
         useCount' = [useCount EXCEPT ![tuner[f]] = @ + 1],
         hwTuner' = hwTuner \cup {tuner[f]}
  PROVE  TunerAccounting'
  <1> USE DEF IInv, TypeOK
  <1> SUFFICES ASSUME NEW t \in Tuner
               PROVE  useCount'[t] = Cardinality(Users(t)') /\ (t \in hwTuner' <=> useCount'[t] > 0)
    BY DEF TunerAccounting
  <1>1. useCount[t] = Cardinality(Users(t)) /\ (t \in hwTuner <=> useCount[t] > 0)
    BY DEF TunerAccounting
  <1>2. CASE t = tuner[f]
    <2>1. Users(t)' = Users(t) \cup {f} /\ f \notin Users(t)
      BY <1>2 DEF Users, Holds
    <2>2. Cardinality(Users(t)') = Cardinality(Users(t)) + 1
      BY <2>1, UsersFinite, FS_AddElement
    <2> QED BY <1>1, <1>2, <2>2, UsersFinite
  <1>3. CASE t # tuner[f]
    <2>1. Users(t)' = Users(t)
      BY <1>3 DEF Users, Holds
    <2> QED BY <1>1, <1>3, <2>1
  <1> QED BY <1>2, <1>3

(* One user less, counted by DropTuner.                                     *)
LEMMA OneUserLess ==
  ASSUME IInv, TunerAccounting, NEW f \in FE, Holds(f), ~Holds(f)', tuner' = tuner,
         \A g \in FE \ {f} : demod'[g] = demod[g], DropTuner(f)
  PROVE  TunerAccounting'
  <1> USE DEF IInv, TypeOK
  <1> SUFFICES ASSUME NEW t \in Tuner
               PROVE  useCount'[t] = Cardinality(Users(t)') /\ (t \in hwTuner' <=> useCount'[t] > 0)
    BY DEF TunerAccounting
  <1>1. useCount[t] = Cardinality(Users(t)) /\ (t \in hwTuner <=> useCount[t] > 0)
    BY DEF TunerAccounting
  <1>2. CASE t = tuner[f]
    <2>1. Users(t)' = Users(t) \ {f} /\ f \in Users(t)
      BY <1>2 DEF Users, Holds
    <2>2. Cardinality(Users(t)') = Cardinality(Users(t)) - 1
      BY <2>1, UsersFinite, FS_RemoveElement
    <2>3. Cardinality(Users(t)') \in Nat
      BY <2>1, UsersFinite, FS_RemoveElement, FS_CardinalityType
    <2> QED BY <1>1, <1>2, <2>2, <2>3, UsersFinite DEF DropTuner
  <1>3. CASE t # tuner[f]
    <2>1. Users(t)' = Users(t)
      BY <1>3 DEF Users, Holds
    <2> QED BY <1>1, <1>3, <2>1 DEF DropTuner
  <1> QED BY <1>2, <1>3

\* Every step keeps the use counts right.
LEMMA TunerStep == IInv /\ TunerAccounting /\ [Next]_vars => TunerAccounting'
  <1> SUFFICES ASSUME IInv, TunerAccounting, [Next]_vars PROVE TunerAccounting'
    OBVIOUS
  <1> USE DEF baseVars, stateVars, procVars, hwVars
  <1>1. CASE UNCHANGED vars
    <2>1. UNCHANGED <<demod, tuner, useCount, hwTuner>>
      BY <1>1 DEF vars
    <2> QED BY <2>1, SameUsers DEF Users, Holds
  <1>2. ASSUME NEW f \in FE, QuietStep(f) PROVE TunerAccounting'
    <2>1. demod' = demod
      BY <1>2, QuietKeeps
    <2>2. UNCHANGED <<useCount, hwTuner>>
      BY <1>2 DEF QuietStep, SetParameters, SetSymbolRate, SleepOrSetInput, StopSkip, StopSend,
                  StopIqSkip, StopIqSend, Config, Search, StartIq, TsIq, SetTuner, FirstLock
    <2>3. \A g \in FE : Holds(g) => tuner'[g] = tuner[g]
      <3>1. CASE SetTuner(f)
        <4>1. ~Holds(f)
          BY <3>1 DEF SetTuner, IInv, PcConsistent, DemodConsistent, Searching, Capturing
        <4> QED BY <3>1, <4>1 DEF SetTuner, IInv, TypeOK
      <3>2. CASE ~SetTuner(f)
        BY <1>2, <3>2 DEF QuietStep, SetParameters, SetSymbolRate, SleepOrSetInput, StopSkip,
           StopSend, StopIqSkip, StopIqSend, Config, Search, StartIq, TsIq, FirstLock
      <3> QED BY <3>1, <3>2
    <2>4. \A t \in Tuner : Users(t)' = Users(t)
      BY <2>1, <2>3 DEF Users, Holds
    <2> QED BY <2>2, <2>4, SameUsers
  <1>3. ASSUME NEW f \in FE, Release(f) \/ ReleaseIq(f) PROVE TunerAccounting'
    <2>1. Holds(f)
      BY <1>3 DEF Release, ReleaseIq, IInv, PcConsistent, DemodConsistent, Searching, Capturing
    <2>2. /\ demod' = [demod EXCEPT ![f] = None] /\ tuner' = tuner /\ DropTuner(f)
      BY <1>3 DEF Release, ReleaseIq, DropDemod
    <2>3. ~Holds(f)' /\ \A g \in FE \ {f} : demod'[g] = demod[g]
      BY <2>2 DEF Holds, IInv, TypeOK
    <2> QED BY <2>1, <2>2, <2>3, OneUserLess
  <1>4. ASSUME NEW f \in FE, ClearIq(f) PROVE TunerAccounting'
    <2>1. UNCHANGED <<demod, tuner, useCount, hwTuner>>
      BY <1>4 DEF ClearIq
    <2> QED BY <2>1, SameUsers DEF Users, Holds
  <1>5. ASSUME NEW f \in FE, Acquire(f) PROVE TunerAccounting'
    <2>1. CASE UNCHANGED <<useCount, demod, hwTuner>>
      <3>1. tuner' = tuner
        BY <1>5 DEF Acquire
      <3> QED BY <2>1, <3>1, SameUsers DEF Users, Holds
    <2>2. CASE ~UNCHANGED <<useCount, demod, hwTuner>>
      <3>1. PICK d \in BestDemod(symbolRate[f]) : demod' = [demod EXCEPT ![f] = d]
        BY <1>5, <2>2 DEF Acquire
      <3>2. d # None /\ d \in Demod
        BY BestIsDemod, Sx8Assumption DEF Sx8Assumption, Demod, None
      <3>3. ~Holds(f) /\ Holds(f)' /\ \A g \in FE \ {f} : demod'[g] = demod[g]
        BY <1>5, <3>1, <3>2 DEF Acquire, Holds, IInv, TypeOK, PcConsistent, DemodConsistent,
                                Searching, Capturing
      <3>4. TakeTuner(f) /\ tuner' = tuner
        BY <1>5, <2>2 DEF Acquire
      <3>5. hwTuner' = hwTuner \cup {tuner[f]}
        <4>1. tuner[f] \in Tuner
          BY DEF IInv, TypeOK
        <4>2. useCount[tuner[f]] # 0 => tuner[f] \in hwTuner
          BY <4>1, UsersFinite DEF TunerAccounting
        <4> QED BY <3>4, <4>2 DEF TakeTuner
      <3> QED BY <3>3, <3>4, <3>5, OneUserMore DEF TakeTuner
    <2> QED BY <2>1, <2>2
  <1>6. ASSUME NEW f \in FE, AcquireIq(f) PROVE TunerAccounting'
    <2>1. CASE UNCHANGED <<useCount, demod, hwTuner>>
      <3>1. tuner' = tuner
        BY <1>6 DEF AcquireIq
      <3> QED BY <2>1, <3>1, SameUsers DEF Users, Holds
    <2>2. CASE ~UNCHANGED <<useCount, demod, hwTuner>>
      <3>1. /\ demod' = [demod EXCEPT ![f] = 0] /\ tuner' = tuner
            /\ useCount' = [useCount EXCEPT ![tuner[f]] = @ + 1]
            /\ hwTuner' = hwTuner \cup {tuner[f]} /\ ~iqStarted[f] /\ pc[f] = "acquireIq"
        BY <1>6, <2>2 DEF AcquireIq
      <3>2. 0 # None
        BY Sx8Assumption DEF Sx8Assumption, None
      <3>3. ~Holds(f) /\ Holds(f)' /\ \A g \in FE \ {f} : demod'[g] = demod[g]
        BY <3>1, <3>2 DEF Holds, IInv, TypeOK, PcConsistent, DemodConsistent, Searching,
                          Capturing
      <3> QED BY <3>1, <3>3, OneUserMore
    <2> QED BY <2>1, <2>2
  <1> QED BY <1>1, <1>2, <1>3, <1>4, <1>5, <1>6 DEF Next, Step, QuietStep

\* No input has a user at the start, and every count is zero.
LEMMA TunerInit == Init => TunerAccounting
  <1> SUFFICES ASSUME Init, NEW t \in Tuner
               PROVE  useCount[t] = Cardinality(Users(t)) /\ (t \in hwTuner <=> useCount[t] > 0)
    BY DEF TunerAccounting
  <1>1. Users(t) = {}
    BY DEF Init, Users, Holds
  <1> QED BY <1>1, FS_EmptySet DEF Init

\* The use counts of the inputs never drift from the frontends that use them,
\* whatever starts fail and whatever order the stops come in.
THEOREM TunersCounted == Spec => []TunerAccounting
  BY TunerInit, TunerStep, InvariantHolds, PTL DEF Spec

-----------------------------------------------------------------------------
(* What is left when everybody sleeps.                                      *)

\* The frontends that sleep have nothing running.
LEMMA SleepStep ==
  ASSUME IInv, SleepConsistent, NEW f \in FE,
         Step(f) \/ SetParameters(f) \/ SetSymbolRate(f) \/ SleepOrSetInput(f) \/ FirstLock(f)
  PROVE  SleepConsistent'
  <1> USE DEF IInv, TypeOK, PcConsistent, SleepConsistent, Goto, baseVars, stateVars, procVars,
              hwVars
  <1>1. CASE SetParameters(f)
    BY <1>1 DEF SetParameters
  <1>2. CASE SetSymbolRate(f)
    BY <1>2 DEF SetSymbolRate
  <1>3. CASE SleepOrSetInput(f)
    BY <1>3 DEF SleepOrSetInput
  <1>4. CASE StopSkip(f)
    BY <1>4 DEF StopSkip, AfterStop, Ops
  <1>5. CASE StopSend(f)
    BY <1>5 DEF StopSend
  <1>6. CASE Release(f)
    BY <1>6 DEF Release, AfterStop, Ops
  <1>7. CASE StopIqSkip(f)
    BY <1>7 DEF StopIqSkip, AfterStopIq, Ops
  <1>8. CASE StopIqSend(f)
    BY <1>8 DEF StopIqSend
  <1>9. CASE ReleaseIq(f)
    BY <1>9 DEF ReleaseIq
  <1>10. CASE ClearIq(f)
    BY <1>10 DEF ClearIq, AfterStopIq, Ops
  <1>11. CASE Acquire(f)
    BY <1>11 DEF Acquire
  <1>12. CASE Config(f)
    BY <1>12 DEF Config
  <1>13. CASE Search(f)
    BY <1>13 DEF Search
  <1>14. CASE AcquireIq(f)
    BY <1>14 DEF AcquireIq
  <1>15. CASE StartIq(f)
    BY <1>15 DEF StartIq
  <1>16. CASE TsIq(f)
    BY <1>16 DEF TsIq
  <1>17. CASE SetTuner(f)
    BY <1>17 DEF SetTuner
  <1>18. CASE FirstLock(f)
    BY <1>18 DEF FirstLock
  <1> QED
    BY <1>1, <1>2, <1>3, <1>4, <1>5, <1>6, <1>7, <1>8, <1>9, <1>10, <1>11, <1>12,
       <1>13, <1>14, <1>15, <1>16, <1>17, <1>18 DEF Step

\* Whoever gives its demod back gives its share of the budget back, and the
\* last one clears iq_mode.
LEMMA ShareStep ==
  ASSUME IInv, ShareConsistent, NEW f \in FE,
         Step(f) \/ SetParameters(f) \/ SetSymbolRate(f) \/ SleepOrSetInput(f) \/ FirstLock(f)
  PROVE  ShareConsistent'
  <1> USE DEF IInv, TypeOK, Goto, baseVars, stateVars, procVars, hwVars
  <1>1. CASE QuietStep(f)
    <2>1. CASE FirstLock(f)
      <3>1. /\ f \in Searching /\ \A g \in FE \ {f} : ldpc'[g] = ldpc[g]
        BY <2>1 DEF FirstLock, Searching
      <3> QED BY <1>1, <3>1, QuietKeeps DEF ShareConsistent
    <2>2. CASE ~FirstLock(f)
      <3>1. ldpc' = ldpc
        BY <1>1, <2>2 DEF QuietStep, SetParameters, SetSymbolRate, SleepOrSetInput, StopSkip,
           StopSend, StopIqSkip, StopIqSend, Config, Search, StartIq, TsIq, SetTuner
      <3> QED BY <1>1, <3>1, QuietKeeps DEF ShareConsistent
    <2> QED BY <2>1, <2>2
  <1>2. CASE Release(f)
    <2>1. Searching' = Searching \ {f} /\ iqMode' = 0 /\ ldpc' = [ldpc EXCEPT ![f] = 0]
      BY <1>2 DEF Release, DropDemod, AfterStop, Ops, PcConsistent, Searching
    <2> QED BY <2>1 DEF ShareConsistent
  <1>3. CASE ReleaseIq(f)
    <2>1. /\ Searching' = Searching /\ IqOwners' = IqOwners /\ iqMode' = iqMode
          /\ ldpc' = [ldpc EXCEPT ![f] = 0]
      BY <1>3 DEF ReleaseIq, DropDemod, PcConsistent, Searching, IqOwners
    <2> QED BY <2>1 DEF ShareConsistent
  <1>4. CASE ClearIq(f)
    <2>1. Searching' = Searching /\ iqMode' = 0 /\ ldpc' = ldpc
      BY <1>4 DEF ClearIq, AfterStopIq, Ops, PcConsistent, Searching
    <2> QED BY <2>1 DEF ShareConsistent
  <1>5. CASE Acquire(f)
    <2>1. CASE pc'[f] = "idle"
      <3>1. Searching' = Searching /\ IqOwners' = IqOwners /\ UNCHANGED <<iqMode, ldpc>>
        BY <1>5, <2>1 DEF Acquire, Searching, IqOwners, PcConsistent
      <3> QED BY <3>1 DEF ShareConsistent
    <2>2. CASE pc'[f] # "idle"
      <3>1. Searching' = Searching \cup {f}
        BY <1>5, <2>2 DEF Acquire, Searching, PcConsistent
      <3>2. \A g \in FE \ {f} : ldpc'[g] = ldpc[g]
        BY <1>5 DEF Acquire
      <3> QED BY <3>1, <3>2 DEF ShareConsistent
    <2> QED BY <2>1, <2>2
  <1>6. CASE AcquireIq(f)
    <2>1. Searching' = Searching /\ ldpc' = ldpc
      BY <1>6 DEF AcquireIq, Searching
    <2>2. CASE iqStarted[f] \/ pc'[f] = "startIq"
      <3>1. f \in IqOwners'
        BY <1>6, <2>2 DEF AcquireIq, IqOwners
      <3> QED BY <2>1, <3>1 DEF ShareConsistent
    <2>3. CASE ~(iqStarted[f] \/ pc'[f] = "startIq")
      <3>1. IqOwners' = IqOwners /\ iqMode' = iqMode
        BY <1>6, <2>3 DEF AcquireIq, IqOwners
      <3> QED BY <2>1, <3>1 DEF ShareConsistent
    <2> QED BY <2>2, <2>3
  <1> QED BY <1>1, <1>2, <1>3, <1>4, <1>5, <1>6 DEF Step, QuietStep

\* While nothing is changed nothing has to be shown.
LEMMA RestStutter ==
  ASSUME SleepConsistent, ShareConsistent, TsConsistent, UNCHANGED vars
  PROVE  SleepConsistent' /\ ShareConsistent' /\ TsConsistent'
  BY DEF vars, baseVars, stateVars, procVars, hwVars, SleepConsistent, ShareConsistent,
         TsConsistent, Searching, IqOwners

\* The TS interface follows iq_mode.
LEMMA TsStep ==
  ASSUME IInv, SleepConsistent, TsConsistent, NEW f \in FE,
         Step(f) \/ SetParameters(f) \/ SetSymbolRate(f) \/ SleepOrSetInput(f) \/ FirstLock(f)
  PROVE  TsConsistent'
  <1> SUFFICES ASSUME ~iqFailed' PROVE TsConsistent'
    BY DEF TsConsistent
  <1> USE DEF IInv, TypeOK, PcConsistent, IqConsistent, TsConsistent, Goto, baseVars, stateVars,
              procVars, hwVars, Searching, IqOwners
  <1>1. CASE SetParameters(f)
    BY <1>1 DEF SetParameters
  <1>2. CASE SetSymbolRate(f)
    BY <1>2 DEF SetSymbolRate
  <1>3. CASE SleepOrSetInput(f)
    BY <1>3 DEF SleepOrSetInput
  <1>4. CASE StopSkip(f)
    BY <1>4 DEF StopSkip, AfterStop, Ops
  <1>5. CASE StopSend(f)
    BY <1>5 DEF StopSend
  <1>6. CASE Release(f)
    BY <1>6 DEF Release, AfterStop, Ops
  <1>7. CASE StopIqSkip(f)
    BY <1>7 DEF StopIqSkip, AfterStopIq, Ops
  <1>8. CASE StopIqSend(f)
    BY <1>8 DEF StopIqSend
  <1>9. CASE ReleaseIq(f)
    BY <1>9 DEF ReleaseIq
  <1>10. CASE ClearIq(f)
    BY <1>10 DEF ClearIq, AfterStopIq, Ops
  <1>11. CASE Acquire(f)
    <2>1. CASE iqMode' = iqMode
      BY <1>11, <2>1 DEF Acquire, MayStart
    <2>2. CASE iqMode' # iqMode
      <3>1. /\ iqMode = 0 /\ inUse = {} /\ op[f] = "tuneTs" /\ iqMode' = 1
            /\ pc' = [pc EXCEPT ![f] = "config"]
        BY <1>11, <2>2 DEF Acquire, MayStart, IqAllowed
      <3>2. \A g \in FE : g \notin Searching /\ g \notin IqOwners
        BY <3>1, Holders
      <3>3. UNCHANGED <<op, started, iqStarted, iqFailed, tsConfig>>
        BY <1>11 DEF Acquire
      <3> QED BY <3>1, <3>2, <3>3
    <2> QED BY <2>1, <2>2
  <1>12. CASE Config(f)
    BY <1>12 DEF Config
  <1>13. CASE Search(f)
    BY <1>13 DEF Search
  <1>14. CASE AcquireIq(f)
    <2>1. CASE iqMode' = iqMode
      BY <1>14, <2>1 DEF AcquireIq
    <2>2. CASE iqMode' # iqMode
      <3>1. /\ iqMode = 0 /\ inUse = {} /\ ~iqStarted[f]
            /\ pc' = [pc EXCEPT ![f] = "startIq"]
        BY <1>14, <2>2 DEF AcquireIq
      <3>2. \A g \in FE : g \notin Searching /\ g \notin IqOwners
        BY <3>1, Holders
      <3>3. UNCHANGED <<op, started, iqStarted, iqFailed, tsConfig>> /\ iqMode' = 2
        BY <1>14, <2>2 DEF AcquireIq
      <3> QED BY <3>1, <3>2, <3>3
    <2> QED BY <2>1, <2>2
  <1>15. CASE StartIq(f)
    BY <1>15 DEF StartIq
  <1>16. CASE TsIq(f)
    BY <1>16 DEF TsIq
  <1>17. CASE SetTuner(f)
    BY <1>17 DEF SetTuner
  <1>18. CASE FirstLock(f)
    BY <1>18 DEF FirstLock
  <1> QED
    BY <1>1, <1>2, <1>3, <1>4, <1>5, <1>6, <1>7, <1>8, <1>9, <1>10, <1>11, <1>12,
       <1>13, <1>14, <1>15, <1>16, <1>17, <1>18 DEF Step

\* At the start everybody sleeps and the card is free.
LEMMA RestInit == Init => SleepConsistent /\ ShareConsistent /\ TsConsistent
  <1> SUFFICES ASSUME Init PROVE SleepConsistent /\ ShareConsistent /\ TsConsistent
    OBVIOUS
  <1>1. Searching = {}
    BY DEF Init, Searching
  <1> QED BY <1>1 DEF Init, SleepConsistent, ShareConsistent, TsConsistent

\* What frontends do keeps the three of them.
LEMMA RestStep ==
  IInv /\ SleepConsistent /\ ShareConsistent /\ TsConsistent /\ [Next]_vars
    => SleepConsistent' /\ ShareConsistent' /\ TsConsistent'
  <1> SUFFICES ASSUME IInv, SleepConsistent, ShareConsistent, TsConsistent, [Next]_vars
               PROVE  SleepConsistent' /\ ShareConsistent' /\ TsConsistent'
    OBVIOUS
  <1>1. CASE UNCHANGED vars
    BY <1>1, RestStutter
  <1>2. CASE Next
    <2>1. PICK f \in FE :
            Step(f) \/ SetParameters(f) \/ SetSymbolRate(f) \/ SleepOrSetInput(f)
              \/ FirstLock(f)
      BY <1>2 DEF Next
    <2> QED BY <2>1, SleepStep, ShareStep, TsStep
  <1> QED BY <1>1, <1>2

\* They hold in every reachable state.
LEMMA RestHolds == Spec => [](IInv /\ SleepConsistent /\ ShareConsistent /\ TsConsistent)
  BY RestInit, RestStep, InvariantHolds, PTL DEF Spec

\* A tuned frontend gets its stream through the interface mode that iq_mode
\* announces, whatever the other frontends started and stopped in between.
THEOREM TsConfigFollows == Spec => []TsConfigMatches
  <1>1. IInv /\ TsConsistent => TsConfigMatches
    BY DEF TsConfigMatches, TsConsistent, Searching, IInv, TypeOK, IqConsistent, IqOwners
  <1> QED BY <1>1, RestHolds, PTL

-----------------------------------------------------------------------------
(* UsedLdpc, the sum of what the frontends hold of the LDPC budget.  The    *)
(* library defines it by recursion over the subsets of FE; an induction is  *)
(* the search for a smallest set that does not have the property.           *)

Less == {p \in Nat \X Nat : p[1] < p[2]}

\* A set of numbers has a least element.
LEMMA LeastNumber ==
  ASSUME NEW N, N \subseteq Nat, N # {}
  PROVE  \E m \in N : \A n \in N : m <= n
  <1>1. IsWellFoundedOn(Less, Nat)
    BY NatLessThanWellFounded DEF OpToRel, Less
  <1>2. PICK m \in N : \A n \in N : ~(<<n, m>> \in Less)
    BY <1>1, WFMin
  <1>3. ASSUME NEW n \in N PROVE m <= n
    <2>1. m \in Nat /\ n \in Nat /\ <<n, m>> \notin Less
      BY <1>2
    <2> QED BY <2>1 DEF Less
  <1> QED BY <1>3

\* Of the sets in B one has no set of B just below it.
LEMMA SmallestSet ==
  ASSUME NEW S, IsFiniteSet(S), NEW B, B \subseteq SUBSET S, B # {}
  PROVE  \E s \in B : IsFiniteSet(s) /\ \A x \in s : s \ {x} \notin B
  <1> DEFINE Sizes == {Cardinality(s) : s \in B}
  <1>1. \A s \in B : IsFiniteSet(s) /\ Cardinality(s) \in Nat
    BY FS_Subset, FS_CardinalityType
  <1>2. Sizes \subseteq Nat /\ Sizes # {}
    BY <1>1
  <1>3. \E n \in Sizes : \A m \in Sizes : n <= m
    <2> HIDE DEF Sizes
    <2> QED BY <1>2, LeastNumber
  <1>4. PICK s \in B : \A t \in B : Cardinality(s) <= Cardinality(t)
    BY <1>3
  <1>5. ASSUME NEW x \in s, s \ {x} \in B PROVE FALSE
    <2>1. Cardinality(s \ {x}) = Cardinality(s) - 1
      BY <1>1, FS_RemoveElement
    <2> QED BY <1>1, <1>4, <1>5, <2>1
  <1> QED BY <1>1, <1>5

Pick(s) == CHOOSE x \in s : TRUE

\* The subsets of S with at most n elements.
Small(S, n) == {s \in SUBSET S : Cardinality(s) <= n}

\* i is the function of the partial sums of h on the sets in T.
IsPartial(h, T, i) ==
  i = [s \in T |-> IF s = {} THEN 0 ELSE h[Pick(s)] + i[s \ {Pick(s)}]]

LEMMA PickIn == ASSUME NEW s, s # {} PROVE Pick(s) \in s
  BY DEF Pick

\* Without the element that is added first a subset has one element less.
LEMMA PickSmaller ==
  ASSUME NEW S, IsFiniteSet(S), NEW s \in SUBSET S, s # {}
  PROVE  /\ s \ {Pick(s)} \in SUBSET S
         /\ Cardinality(s) \in Nat /\ Cardinality(s \ {Pick(s)}) = Cardinality(s) - 1
         /\ Cardinality(s) > 0
  <1>1. IsFiniteSet(s) /\ Pick(s) \in s
    BY FS_Subset, PickIn
  <1>2. Cardinality(s) \in Nat /\ Cardinality(s) # 0
    BY <1>1, FS_CardinalityType, FS_EmptySet
  <1>3. Cardinality(s \ {Pick(s)}) = Cardinality(s) - 1
    BY <1>1, FS_RemoveElement
  <1>4. s \ {Pick(s)} \in SUBSET S
    OBVIOUS
  <1> QED BY <1>2, <1>3, <1>4

\* The recursion has a solution.
LEMMA PartialExists ==
  ASSUME NEW S, IsFiniteSet(S), NEW h
  PROVE  \E i : IsPartial(h, SUBSET S, i)
  <1> DEFINE Bad == {n \in Nat : ~\E i : IsPartial(h, Small(S, n), i)}
  <1>1. Bad = {}
    <2> SUFFICES ASSUME Bad # {} PROVE FALSE
      OBVIOUS
    <2>1. PICK n \in Bad : \A m \in Bad : n <= m
      <3>1. Bad \subseteq Nat
        OBVIOUS
      <3> HIDE DEF Bad
      <3> QED BY <3>1, LeastNumber
    <2>3. CASE n = 0
      <3> DEFINE i == [s \in Small(S, n) |-> 0]
      <3>1. \A s \in Small(S, n) : s = {}
        <4>1. ASSUME NEW s \in Small(S, n), s # {} PROVE FALSE
          <5>1. s \in SUBSET S /\ Cardinality(s) <= 0
            BY <2>3 DEF Small
          <5>2. Cardinality(s) \in Nat /\ Cardinality(s) > 0
            BY <4>1, <5>1, PickSmaller
          <5> QED BY <5>1, <5>2
        <4> QED BY <4>1
      <3>2. IsPartial(h, Small(S, n), i)
        BY <3>1 DEF IsPartial
      <3> QED BY <2>1, <3>2
    <2>4. CASE n # 0
      <3>1. n \in Nat /\ n - 1 \in Nat /\ n - 1 \notin Bad
        BY <2>1, <2>4
      <3>2. PICK j : IsPartial(h, Small(S, n - 1), j)
        BY <3>1
      <3> DEFINE i == [s \in Small(S, n) |->
                         IF s = {} THEN 0 ELSE h[Pick(s)] + j[s \ {Pick(s)}]]
      <3>3. ASSUME NEW s \in Small(S, n), s # {}
            PROVE  i[s \ {Pick(s)}] = j[s \ {Pick(s)}]
        <4>1. s \ {Pick(s)} \in Small(S, n - 1) /\ s \ {Pick(s)} \in Small(S, n)
          BY <3>1, <3>3, PickSmaller DEF Small
        <4> DEFINE t == s \ {Pick(s)}
        <4>2. t \in Small(S, n - 1) /\ t \in Small(S, n)
          BY <4>1
        <4> HIDE DEF t
        <4>3. j[t] = IF t = {} THEN 0 ELSE h[Pick(t)] + j[t \ {Pick(t)}]
          BY <3>2, <4>2 DEF IsPartial
        <4>4. i[t] = j[t]
          BY <4>2, <4>3
        <4> QED BY <4>4 DEF t
      <3>4. IsPartial(h, Small(S, n), i)
        BY <3>3 DEF IsPartial
      <3> QED BY <2>1, <3>4
    <2> QED BY <2>3, <2>4
  <1>2. Small(S, Cardinality(S)) = SUBSET S
    <2>1. \A s \in SUBSET S : Cardinality(s) <= Cardinality(S)
      BY FS_Subset
    <2> QED BY <2>1 DEF Small
  <1>3. Cardinality(S) \in Nat
    BY FS_CardinalityType
  <1>4. \E i : IsPartial(h, Small(S, Cardinality(S)), i)
    BY <1>1, <1>3
  <1> QED BY <1>2, <1>4

\* UsedLdpc is the partial sum on FE.
LEMMA UsedIsPartial ==
  ASSUME ldpc \in [FE -> Nat]
  PROVE  UsedLdpc = (CHOOSE i : IsPartial(ldpc, SUBSET FE, i))[FE]
  <1>1. DOMAIN ldpc = FE
    OBVIOUS
  <1>2. UsedLdpc = (CHOOSE i : IsPartial(ldpc, SUBSET DOMAIN ldpc, i))[DOMAIN ldpc]
    BY DEF UsedLdpc, FoldFunction, FoldFunctionOnSet, MapThenFoldSet, IsPartial, Pick
  <1> QED BY <1>1, <1>2

\* The partial sums of numbers are numbers, and those of zeros are zero.
LEMMA PartialNat ==
  ASSUME NEW S, IsFiniteSet(S), NEW h \in [S -> Nat], NEW i, IsPartial(h, SUBSET S, i)
  PROVE  \A s \in SUBSET S : i[s] \in Nat /\ ((\A x \in s : h[x] = 0) => i[s] = 0)
  <1> DEFINE Ok(s) == i[s] \in Nat /\ ((\A x \in s : h[x] = 0) => i[s] = 0)
  <1> DEFINE B == {s \in SUBSET S : ~Ok(s)}
  <1> SUFFICES ASSUME B # {} PROVE FALSE
    OBVIOUS
  <1>1. PICK s \in B : \A x \in s : s \ {x} \notin B
    <2>1. B \subseteq SUBSET S
      OBVIOUS
    <2> HIDE DEF B
    <2> QED BY <2>1, SmallestSet
  <1>2. s \in SUBSET S /\ i[s] = IF s = {} THEN 0 ELSE h[Pick(s)] + i[s \ {Pick(s)}]
    BY DEF IsPartial
  <1>3. CASE s = {}
    BY <1>2, <1>3
  <1>4. CASE s # {}
    <2>1. Pick(s) \in s /\ s \ {Pick(s)} \in SUBSET S
      BY <1>4, PickIn
    <2> DEFINE t == s \ {Pick(s)}
    <2>2. Ok(t) /\ i[s] = h[Pick(s)] + i[t] /\ \A x \in t : x \in s
      BY <1>1, <1>2, <1>4, <2>1
    <2>3. h[Pick(s)] \in Nat
      BY <1>2, <2>1
    <2> HIDE DEF t
    <2>4. Ok(s)
      BY <2>1, <2>2, <2>3
    <2> QED BY <2>4
  <1> QED BY <1>3, <1>4

\* k differs from h in giving f the number v.
Gives(k, h, f, v) == k = [h EXCEPT ![f] = v]

\* Changing the number of one frontend changes the sums it is in by as much.
LEMMA PartialExcept ==
  ASSUME NEW S, IsFiniteSet(S), NEW h \in [S -> Nat], NEW f \in S, NEW v \in Nat,
         NEW k, Gives(k, h, f, v),
         NEW i, IsPartial(h, SUBSET S, i), NEW j, IsPartial(k, SUBSET S, j)
  PROVE  j[S] = i[S] - h[f] + v
  <1> DEFINE Ok(s) == j[s] = IF f \in s THEN i[s] - h[f] + v ELSE i[s]
  <1> DEFINE B == {s \in SUBSET S : ~Ok(s)}
  <1>0. k \in [S -> Nat] /\ k[f] = v /\ \A x \in S \ {f} : k[x] = h[x]
    BY DEF Gives
  <1> SUFFICES ASSUME B # {} PROVE FALSE
    <2>1. ASSUME B = {} PROVE j[S] = i[S] - h[f] + v
      BY <2>1
    <2> QED BY <2>1
  <1>1. PICK s \in B : \A x \in s : s \ {x} \notin B
    <2>1. B \subseteq SUBSET S
      OBVIOUS
    <2> HIDE DEF B
    <2> QED BY <2>1, SmallestSet
  <1>2. /\ s \in SUBSET S
        /\ i[s] = IF s = {} THEN 0 ELSE h[Pick(s)] + i[s \ {Pick(s)}]
        /\ j[s] = IF s = {} THEN 0 ELSE k[Pick(s)] + j[s \ {Pick(s)}]
    BY DEF IsPartial
  <1>3. CASE s = {}
    BY <1>2, <1>3
  <1>4. CASE s # {}
    <2>1. Pick(s) \in s /\ s \ {Pick(s)} \in SUBSET S
      BY <1>4, PickIn
    <2> DEFINE t == s \ {Pick(s)}
    <2>2. /\ Ok(t) /\ i[s] = h[Pick(s)] + i[t] /\ j[s] = k[Pick(s)] + j[t]
          /\ f \in t <=> f \in s /\ f # Pick(s)
      BY <1>1, <1>2, <1>4, <2>1
    <2>3. /\ h[Pick(s)] \in Nat /\ k[Pick(s)] \in Nat /\ h[f] \in Nat /\ k[f] = v
          /\ Pick(s) # f => k[Pick(s)] = h[Pick(s)]
      BY <1>0, <1>2, <2>1
    <2>4. i[t] \in Nat /\ j[t] \in Nat
      BY <1>0, <2>1, PartialNat
    <2> HIDE DEF t
    <2>5. Ok(s)
      BY <2>1, <2>2, <2>3, <2>4
    <2> QED BY <2>5
  <1> QED BY <1>3, <1>4

\* What is used of the budget is a number, nothing if nobody has a share.
LEMMA UsedNat ==
  ASSUME TypeOK
  PROVE  UsedLdpc \in Nat /\ ((\A f \in FE : ldpc[f] = 0) => UsedLdpc = 0)
  <1>1. IsFiniteSet(FE) /\ ldpc \in [FE -> Nat]
    BY Sx8Assumption DEF Sx8Assumption, TypeOK
  <1> DEFINE i == CHOOSE g : IsPartial(ldpc, SUBSET FE, g)
  <1>2. IsPartial(ldpc, SUBSET FE, i)
    BY <1>1, PartialExists
  <1>3. UsedLdpc = i[FE]
    BY <1>1, UsedIsPartial
  <1> HIDE DEF i
  <1> QED BY <1>1, <1>2, <1>3, PartialNat

\* What it becomes when one frontend's share changes.
LEMMA UsedExcept ==
  ASSUME TypeOK, NEW f \in FE, NEW v \in Nat, ldpc' = [ldpc EXCEPT ![f] = v]
  PROVE  UsedLdpc' = UsedLdpc - ldpc[f] + v
  <1>1. IsFiniteSet(FE) /\ ldpc \in [FE -> Nat] /\ ldpc' \in [FE -> Nat]
    BY Sx8Assumption DEF Sx8Assumption, TypeOK
  <1> DEFINE i == CHOOSE g : IsPartial(ldpc, SUBSET FE, g)
  <1> DEFINE j == CHOOSE g : IsPartial(ldpc', SUBSET FE, g)
  <1>2. IsPartial(ldpc, SUBSET FE, i) /\ IsPartial(ldpc', SUBSET FE, j)
    BY <1>1, PartialExists
  <1>3. UsedLdpc = i[FE]
    BY <1>1, UsedIsPartial
  <1>4. UsedLdpc' = j[FE]
    <2>1. UsedLdpc' = (CHOOSE g : IsPartial(ldpc', SUBSET DOMAIN ldpc', g))[DOMAIN ldpc']
      BY DEF UsedLdpc, FoldFunction, FoldFunctionOnSet, MapThenFoldSet, IsPartial, Pick
    <2> QED BY <1>1, <2>1
  <1> HIDE DEF i, j
  <1>5. j[FE] = i[FE] - ldpc[f] + v
    <2> DEFINE h == ldpc
    <2> DEFINE k == ldpc'
    <2>1. /\ h \in [FE -> Nat] /\ Gives(k, h, f, v)
          /\ IsPartial(h, SUBSET FE, i) /\ IsPartial(k, SUBSET FE, j)
      BY <1>1, <1>2 DEF Gives
    <2> HIDE DEF h, k
    <2>2. j[FE] = i[FE] - h[f] + v
      BY <1>1, <2>1, PartialExcept
    <2> QED BY <2>2 DEF h
  <1> QED BY <1>3, <1>4, <1>5

\* A start gets what is free at most.
LEMMA GrantFits ==
  ASSUME TypeOK, NEW r \in Rates, NEW w, NEW b \in Affordable(r, w), UsedLdpc < MaxLdpc
  PROVE  r * b \in Nat /\ r * b <= MaxDemodLdpc /\ UsedLdpc + r * b <= MaxLdpc
  <1>1. b \in Nat /\ r * b <= FreeLdpc
    BY DEF Affordable
  <1>2. r * b \in Nat
    BY <1>1, BitsTimesRate
  <1>3. UsedLdpc \in Nat /\ MaxLdpc \in Nat /\ MaxDemodLdpc \in Nat
    BY UsedNat, Sx8Assumption DEF Sx8Assumption
  <1> QED BY <1>1, <1>2, <1>3 DEF FreeLdpc

\* Whoever gets a demod in a step fits in what was free before it.
LEMMA GrantStep ==
  ASSUME IInv, ShareConsistent, [Next]_vars, NEW g \in FE, ~Holds(g), demod'[g] # None
  PROVE  UsedLdpc' <= MaxLdpc /\ ldpc'[g] <= MaxDemodLdpc
  <1> USE DEF IInv, TypeOK
  <1>1. demod'[g] # demod[g]
    BY DEF Holds
  <1>2. PICK f \in FE : Release(f) \/ ReleaseIq(f) \/ Acquire(f) \/ AcquireIq(f)
    <2>1. Next
      BY <1>1 DEF vars, stateVars
    <2> QED BY <1>1, <2>1 DEF Next, Step, SetParameters, SetSymbolRate, SleepOrSetInput,
         StopSkip, StopSend, StopIqSkip, StopIqSend, ClearIq, Config, Search, StartIq, TsIq,
         SetTuner, FirstLock, stateVars
  <1>3. CASE Release(f) \/ ReleaseIq(f)
    BY <1>1, <1>3 DEF Release, ReleaseIq, DropDemod
  <1>4. CASE Acquire(f)
    <2>1. f = g
      BY <1>1, <1>4 DEF Acquire
    <2> DEFINE r == symbolRate[f]
    <2>2. PICK w \in 1 .. MaxBits : \E b \in Affordable(r, w) :
            ldpc' = [ldpc EXCEPT ![f] = r * b] /\ UsedLdpc < MaxLdpc
      BY <1>1, <1>4 DEF Acquire, MayStart
    <2>3. r \in Rates
      OBVIOUS
    <2> HIDE DEF r
    <2>7. PICK b \in Affordable(r, w) :
            ldpc' = [ldpc EXCEPT ![f] = r * b] /\ UsedLdpc < MaxLdpc
      BY <2>2
    <2>4. r * b \in Nat /\ r * b <= MaxDemodLdpc /\ UsedLdpc + r * b <= MaxLdpc
      BY <2>3, <2>7, GrantFits
    <2>5. UsedLdpc' = UsedLdpc - ldpc[f] + r * b /\ ldpc'[f] = r * b /\ ldpc[f] \in Nat
      BY <2>4, <2>7, UsedExcept
    <2>6. UsedLdpc \in Nat /\ MaxLdpc \in Nat
      BY UsedNat, Sx8Assumption DEF Sx8Assumption
    <2> QED BY <2>1, <2>4, <2>5, <2>6
  <1>5. CASE AcquireIq(f)
    <2>1. inUse = {} /\ iqMode = 0 /\ ldpc' = ldpc
      BY <1>1, <1>5 DEF AcquireIq
    <2>2. \A h \in FE : ldpc[h] = 0
      BY <2>1, Holders DEF ShareConsistent
    <2>3. UsedLdpc = 0
      BY <2>2, UsedNat
    <2>4. UsedLdpc' = UsedLdpc
      <3>1. ldpc' = [ldpc EXCEPT ![f] = ldpc[f]] /\ ldpc[f] \in Nat
        BY <2>1
      <3>2. UsedLdpc' = UsedLdpc - ldpc[f] + ldpc[f]
        BY <3>1, UsedExcept
      <3> QED BY <2>3, <3>1, <3>2
    <2> QED BY <2>1, <2>2, <2>3, <2>4, Sx8Assumption DEF Sx8Assumption
  <1> QED BY <1>2, <1>3, <1>4, <1>5

\* The card's decoding budget is never promised twice, for any number of
\* frontends and whatever they change their symbol rates to meanwhile.
THEOREM BudgetKept == Spec => GrantWithinBudget
  <1>1. IInv /\ ShareConsistent /\ [Next]_vars =>
          [\A f \in FE : ~Holds(f) /\ demod'[f] # None =>
             UsedLdpc' <= MaxLdpc /\ ldpc'[f] <= MaxDemodLdpc]_vars
    BY GrantStep
  <1> QED BY <1>1, RestHolds, PTL DEF Spec, GrantWithinBudget

\* When the last frontend sleeps, nothing of the card is left in use.
LEMMA RestReleased ==
  IInv /\ SleepConsistent /\ ShareConsistent /\ TunerAccounting => AllReleased
  <1> SUFFICES ASSUME IInv, SleepConsistent, ShareConsistent, TunerAccounting,
                      \A f \in FE : pc[f] = "idle" /\ op[f] = "sleep"
               PROVE  /\ inUse = {} /\ iqMode = 0 /\ hwTuner = {} /\ UsedLdpc = 0
                      /\ \A d \in Demod : hwDemod[d] = Nobody
    BY DEF AllReleased
  <1> USE DEF IInv, TypeOK
  <1>1. \A f \in FE : ~started[f] /\ ~iqStarted[f]
    BY DEF SleepConsistent
  <1>2. Searching = {} /\ Capturing = {} /\ IqOwners = {}
    BY <1>1 DEF Searching, Capturing, IqOwners
  <1>3. inUse = {} /\ iqMode = 0 /\ \A f \in FE : ~Holds(f) /\ ldpc[f] = 0
    BY <1>2 DEF DemodConsistent, ShareConsistent
  <1>4. UsedLdpc = 0
    BY <1>3, UsedNat
  <1>5. hwTuner = {}
    <2>1. ASSUME NEW t \in Tuner PROVE t \notin hwTuner
      <3>1. Users(t) = {}
        BY <1>3 DEF Users
      <3>2. Cardinality(Users(t)) = 0
        BY <3>1, FS_EmptySet
      <3> QED BY <3>2 DEF TunerAccounting
    <2> QED BY <2>1
  <1>6. \A d \in Demod : hwDemod[d] = Nobody
    BY <1>1 DEF HwConsistent
  <1> QED BY <1>3, <1>4, <1>5, <1>6

\* Nothing of the card is ever lost to a start that failed or a stop that came
\* in between: inputs are counted right, and all is free when all sleep.
THEOREM CardReleased == Spec => []NothingLeaked
  BY TunersCounted, RestHolds, RestReleased, PTL DEF NothingLeaked
=============================================================================
