--------------------------------- MODULE Sx8 ---------------------------------
(***************************************************************************)
(* The resource manager of the Max SX8 (ddbridge-sx8.c).  The frontends of *)
(* a card share Demods demodulators, Tuners inputs, the LDPC decoding      *)
(* budget and the one TS interface, which an IQ capture takes over.        *)
(*                                                                         *)
(* state->lock admits one operation per frontend at a time, so each        *)
(* frontend is one process that runs set_parameters, set_input or sleep    *)
(* step by step.  A step is a section under mci_base->tuner_lock or the    *)
(* MCI commands between two of them.                                       *)
(***************************************************************************)
EXTENDS Integers, FiniteSets, Functions

CONSTANTS FE,          \* frontends (outputs, mci.nr)
          Tuner,       \* inputs 0 .. SX8_TUNER_NUM - 1
          NumDemod,    \* SX8_DEMOD_NUM
          NumHigh,     \* the first NumHigh demods take high symbol rates
          Rates,       \* symbol rates user space asks for
          HighRate,    \* MCLK / 2
          MaxBits,     \* bits per symbol of the highest modulation
          MaxLdpc,     \* MAX_LDPC_BITRATE
          MaxDemodLdpc \* MAX_DEMOD_LDPC_BITRATE

Demod == 0 .. NumDemod - 1
None  == NumDemod      \* SX8_DEMOD_NONE
Nobody == "nobody"     \* no frontend

ASSUME Sx8Assumption ==
  /\ IsFiniteSet(FE) /\ IsFiniteSet(Tuner) /\ Nobody \notin FE
  /\ NumDemod \in Nat \ {0} /\ NumHigh \in 1 .. NumDemod
  /\ Rates \subseteq Nat \ {0} /\ HighRate \in Nat /\ MaxBits \in Nat \ {0}
  /\ MaxLdpc \in Nat /\ MaxDemodLdpc \in Nat

VARIABLES
  \* struct sx8_base
  useCount,    \* tuner_use_count
  inUse,       \* demod_in_use
  ldpc,        \* used_ldpc_bitrate
  iqMode,      \* iq_mode: 0 none, 1 IQ through start(), 2 through start_iq()
  \* struct sx8
  tuner, demod, started, iqStarted, firstLock,
  symbolRate,  \* dtv_property_cache.symbol_rate
  \* the operation each frontend is in
  pc, op,
  \* the card (external)
  hwTuner,     \* the inputs that are powered
  hwDemod,     \* the frontend each demod was told to search for
  tsConfig,    \* SX8_TSCONFIG
  iqFailed     \* history: a START_IQ command has failed

baseVars  == <<useCount, inUse, ldpc, iqMode>>
stateVars == <<tuner, demod, started, iqStarted, firstLock, symbolRate>>
procVars  == <<pc, op>>
hwVars    == <<hwTuner, hwDemod, tsConfig, iqFailed>>
vars      == <<baseVars, stateVars, procVars, hwVars>>

Ops    == {"tune", "tuneTs", "tuneIq", "sleep", "input", "undo"}

Goto(f, l) == pc' = [pc EXCEPT ![f] = l]

UsedLdpc == FoldFunction(LAMBDA a, b : a + b, 0, ldpc)

-----------------------------------------------------------------------------
(* The calls.  set_parameters() stops what runs and starts anew: with IQ    *)
(* mode 0 ("tune") or 1 ("tuneTs") through start(), with 2 ("tuneIq")       *)
(* through start_iq(), which leaves a running IQ capture alone.             *)

SetParameters(f) ==
  /\ pc[f] = "idle"
  /\ \E o \in {"tune", "tuneTs", "tuneIq"} : op' = [op EXCEPT ![f] = o]
  /\ Goto(f, "stop")
  /\ UNCHANGED <<baseVars, stateVars, hwVars>>

\* FE_SET_PROPERTY without DTV_TUNE changes the property cache under a search.
SetSymbolRate(f) ==
  /\ pc[f] = "idle"
  /\ \E r \in Rates : symbolRate' = [symbolRate EXCEPT ![f] = r]
  /\ UNCHANGED <<baseVars, tuner, demod, started, iqStarted, firstLock, procVars, hwVars>>

SleepOrSetInput(f) ==
  /\ pc[f] = "idle"
  /\ \E o \in {"sleep", "input"} : op' = [op EXCEPT ![f] = o]
  /\ Goto(f, "stopIq")
  /\ UNCHANGED <<baseVars, stateVars, hwVars>>

\* Where an operation goes on after stop() and after stop_iq().
AfterStop(o) == CASE o = "tuneIq"            -> "acquireIq"
                  [] o \in {"tune", "tuneTs"} -> "stopIq"
                  [] o = "input"             -> "setTuner"
                  [] o \in {"sleep", "undo"} -> "idle"

AfterStopIq(o) == CASE o \in {"tune", "tuneTs"}  -> "acquire"
                    [] o \in {"sleep", "input"} -> "stop"
                    [] o \in {"tuneIq", "undo"} -> "tsIq"

SetTuner(f) ==
  /\ pc[f] = "setTuner"
  /\ \E t \in Tuner \ {tuner[f]} : tuner' = [tuner EXCEPT ![f] = t]
  /\ Goto(f, "idle")
  /\ UNCHANGED <<baseVars, demod, started, iqStarted, firstLock, symbolRate, op,
                 hwVars>>

-----------------------------------------------------------------------------
(* What stop() and stop_iq() do under tuner_lock.                           *)

\* tuner_use_count goes down and the last user switches the input off.
DropTuner_KeepOn(f) ==
  /\ useCount' = [useCount EXCEPT ![tuner[f]] = @ - 1]
  /\ hwTuner' = hwTuner

DropTuner(f) ==
  /\ useCount' = [useCount EXCEPT ![tuner[f]] = @ - 1]
  /\ hwTuner' = IF useCount'[tuner[f]] = 0 THEN hwTuner \ {tuner[f]} ELSE hwTuner

DropDemod(f) ==
  /\ inUse' = inUse \ {demod[f]}
  /\ demod' = [demod EXCEPT ![f] = None]
  /\ ldpc' = [ldpc EXCEPT ![f] = 0]

-----------------------------------------------------------------------------
(* stop().                                                                  *)

StopSkip(f) ==
  /\ pc[f] = "stop" /\ ~started[f]
  /\ Goto(f, AfterStop(op[f]))
  /\ UNCHANGED <<baseVars, stateVars, op, hwVars>>

\* MCI_CMD_STOP, and in IQ mode SX8_CMD_DISABLE_IQOUTPUT and SX8_TSCONFIG.
StopSend(f) ==
  /\ pc[f] = "stop" /\ started[f]
  /\ hwDemod' = [hwDemod EXCEPT ![demod[f]] = Nobody]
  /\ tsConfig' = IF iqMode # 0 THEN "normal" ELSE tsConfig
  /\ Goto(f, "release")
  /\ UNCHANGED <<baseVars, stateVars, op, hwTuner, iqFailed>>

Release(f) ==
  /\ pc[f] = "release"
  /\ DropTuner(f)
  /\ DropDemod(f)
  /\ iqMode' = 0
  /\ started' = [started EXCEPT ![f] = FALSE]
  /\ Goto(f, AfterStop(op[f]))
  /\ UNCHANGED <<tuner, iqStarted, firstLock, symbolRate, op, hwDemod, tsConfig,
                 iqFailed>>

-----------------------------------------------------------------------------
(* stop_iq().                                                               *)

StopIqSkip(f) ==
  /\ pc[f] = "stopIq" /\ ~iqStarted[f]
  /\ Goto(f, AfterStopIq(op[f]))
  /\ UNCHANGED <<baseVars, stateVars, op, hwVars>>

StopIqSend(f) ==
  /\ pc[f] = "stopIq" /\ iqStarted[f]
  /\ hwDemod' = [hwDemod EXCEPT ![demod[f]] = Nobody]
  /\ tsConfig' = "normal"
  /\ Goto(f, "releaseIq")
  /\ UNCHANGED <<baseVars, stateVars, op, hwTuner, iqFailed>>

ReleaseIq(f) ==
  /\ pc[f] = "releaseIq"
  /\ DropTuner(f)
  /\ DropDemod(f)
  /\ Goto(f, "clearIq")
  /\ UNCHANGED <<iqMode, tuner, started, iqStarted, firstLock, symbolRate, op,
                 hwDemod, tsConfig, iqFailed>>

\* iq_mode is cleared after tuner_lock was given back.
ClearIq(f) ==
  /\ pc[f] = "clearIq"
  /\ iqMode' = 0
  /\ iqStarted' = [iqStarted EXCEPT ![f] = FALSE]
  /\ Goto(f, AfterStopIq(op[f]))
  /\ UNCHANGED <<useCount, inUse, ldpc, tuner, demod, started, firstLock,
                 symbolRate, op, hwVars>>

-----------------------------------------------------------------------------
(* start().                                                                 *)

\* The first input user switches it on.
TakeTuner(f) ==
  /\ hwTuner' = IF useCount[tuner[f]] = 0 THEN hwTuner \cup {tuner[f]} ELSE hwTuner
  /\ useCount' = [useCount EXCEPT ![tuner[f]] = @ + 1]

FreeLdpc ==
  IF MaxLdpc - UsedLdpc > MaxDemodLdpc THEN MaxDemodLdpc ELSE MaxLdpc - UsedLdpc

\* The bits per symbol a search for w gets, if any: as many as still fit.
Affordable_Wanted(r, w) == {b \in {w} : b >= 2}
Affordable(r, w) ==
  {b \in 2 .. w : r * b <= FreeLdpc /\ (b = w \/ r * (b + 1) > FreeLdpc)}

\* Demods are handed out from the top; the high rate demods are the lowest.
TopDemod(r)          == IF r > HighRate THEN NumHigh - 1 ELSE NumDemod - 1
FreeDemods(r)        == (0 .. TopDemod(r)) \ inUse
BestDemod_Top(r)     == {TopDemod(r)}
BestDemod(r)         == {d \in FreeDemods(r) : \A e \in FreeDemods(r) : e <= d}

\* What start() checks before it looks for bits and for a demod.
IqAllowed_Always(o) == TRUE
IqAllowed(o)        == o = "tuneTs" => inUse = {}
MayStart(o)         == iqMode = 0 /\ UsedLdpc < MaxLdpc /\ IqAllowed(o)

Acquire(f) ==
  /\ pc[f] = "acquire"
  /\ \E w \in 1 .. MaxBits : LET r == symbolRate[f] IN
       \/ /\ MayStart(op[f])
          /\ \E b \in Affordable(r, w), d \in BestDemod(r) :
               /\ inUse' = inUse \cup {d}
               /\ demod' = [demod EXCEPT ![f] = d]
               /\ ldpc' = [ldpc EXCEPT ![f] = r * b]
          /\ TakeTuner(f)
          /\ iqMode' = IF op[f] = "tuneTs" THEN 1 ELSE 0
          /\ Goto(f, "config")
       \/ /\ MayStart(op[f]) => Affordable(r, w) = {} \/ BestDemod(r) = {}   \* -EBUSY
          /\ Goto(f, "idle")
          /\ UNCHANGED <<baseVars, demod, hwTuner>>
  /\ UNCHANGED <<tuner, started, iqStarted, firstLock, symbolRate, op, hwDemod, tsConfig,
                 iqFailed>>

\* SX8_CMD_ENABLE_IQOUTPUT and SX8_TSCONFIG.
Config(f) ==
  /\ pc[f] = "config"
  /\ tsConfig' = IF op[f] = "tuneTs" THEN "iq" ELSE "normal"
  /\ Goto(f, "search")
  /\ UNCHANGED <<baseVars, stateVars, op, hwTuner, hwDemod, iqFailed>>

\* MCI_CMD_SEARCH_DVBS; when the card refuses, stop() undoes the start.
Search(f) ==
  /\ pc[f] = "search"
  /\ started' = [started EXCEPT ![f] = TRUE]
  /\ firstLock' = [firstLock EXCEPT ![f] = TRUE]
  /\ \/ /\ hwDemod' = [hwDemod EXCEPT ![demod[f]] = f]
        /\ Goto(f, "idle")
        /\ op' = op
     \/ /\ hwDemod' = hwDemod
        /\ op' = [op EXCEPT ![f] = "undo"]
        /\ Goto(f, "stop")
  /\ UNCHANGED <<baseVars, tuner, demod, iqStarted, symbolRate, hwTuner, tsConfig,
                 iqFailed>>

-----------------------------------------------------------------------------
(* start_iq().                                                              *)

AcquireIq_NoDemodCheck(f) ==
  /\ pc[f] = "acquireIq"
  /\ \/ /\ ~iqStarted[f] /\ iqMode = 0
        /\ demod' = [demod EXCEPT ![f] = 0]
        /\ useCount' = [useCount EXCEPT ![tuner[f]] = @ + 1]
        /\ iqMode' = 2
        /\ hwTuner' = hwTuner \cup {tuner[f]}
        /\ Goto(f, "startIq")
     \/ /\ iqStarted[f]
        /\ Goto(f, "startIq")
        /\ UNCHANGED <<demod, useCount, iqMode, hwTuner>>
     \/ /\ ~iqStarted[f] /\ iqMode # 0
        /\ Goto(f, "idle")
        /\ UNCHANGED <<demod, useCount, iqMode, hwTuner>>
  /\ UNCHANGED <<inUse, ldpc, tuner, started, iqStarted, firstLock, symbolRate, op,
                 hwDemod, tsConfig, iqFailed>>

AcquireIq(f) ==
  /\ pc[f] = "acquireIq"
  /\ \/ /\ ~iqStarted[f] /\ iqMode = 0 /\ inUse = {}
        /\ demod' = [demod EXCEPT ![f] = 0]
        /\ useCount' = [useCount EXCEPT ![tuner[f]] = @ + 1]
        /\ iqMode' = 2
        /\ hwTuner' = hwTuner \cup {tuner[f]}
        /\ Goto(f, "startIq")
     \/ /\ iqStarted[f]
        /\ Goto(f, "startIq")
        /\ UNCHANGED <<demod, useCount, iqMode, hwTuner>>
     \/ /\ ~iqStarted[f] /\ (iqMode # 0 \/ inUse # {})   \* -EBUSY
        /\ Goto(f, "idle")
        /\ UNCHANGED <<demod, useCount, iqMode, hwTuner>>
  /\ UNCHANGED <<inUse, ldpc, tuner, started, iqStarted, firstLock, symbolRate, op,
                 hwDemod, tsConfig, iqFailed>>

\* SX8_CMD_START_IQ; when the card refuses, stop_iq() undoes the start.
StartIq(f) ==
  /\ pc[f] = "startIq"
  /\ iqStarted' = [iqStarted EXCEPT ![f] = TRUE]
  /\ firstLock' = [firstLock EXCEPT ![f] = TRUE]
  /\ \/ /\ hwDemod' = [hwDemod EXCEPT ![demod[f]] = f]
        /\ Goto(f, "tsIq")
        /\ UNCHANGED <<op, iqFailed>>
     \/ /\ hwDemod' = hwDemod
        /\ op' = [op EXCEPT ![f] = "undo"]
        /\ Goto(f, "stopIq")
        /\ iqFailed' = TRUE
  /\ UNCHANGED <<baseVars, tuner, demod, started, symbolRate, hwTuner, tsConfig>>

\* SX8_TSCONFIG is written last, whether the start succeeded or not.
TsIq(f) ==
  /\ pc[f] = "tsIq"
  /\ tsConfig' = "iq"
  /\ Goto(f, "idle")
  /\ UNCHANGED <<baseVars, stateVars, op, hwTuner, hwDemod, iqFailed>>

-----------------------------------------------------------------------------
(* read_status(): the first lock after a search replaces the reservation by *)
(* what the stream needs, or by nothing for DVB-S, computed from the symbol  *)
(* rate that is in the property cache by then.                               *)

FirstLock(f) ==
  /\ pc[f] = "idle" /\ started[f] /\ firstLock[f]
  /\ \E b \in {0} \cup (2 .. MaxBits) : ldpc' = [ldpc EXCEPT ![f] = symbolRate[f] * b]
  /\ firstLock' = [firstLock EXCEPT ![f] = FALSE]
  /\ UNCHANGED <<useCount, inUse, iqMode, tuner, demod, started, iqStarted, symbolRate,
                 procVars, hwVars>>

-----------------------------------------------------------------------------
Init ==
  /\ useCount = [t \in Tuner |-> 0] /\ inUse = {}
  /\ ldpc = [f \in FE |-> 0] /\ iqMode = 0
  /\ tuner \in [FE -> Tuner] /\ demod = [f \in FE |-> None]
  /\ started = [f \in FE |-> FALSE] /\ iqStarted = [f \in FE |-> FALSE]
  /\ firstLock = [f \in FE |-> FALSE]
  /\ symbolRate \in [FE -> Rates]
  /\ pc = [f \in FE |-> "idle"] /\ op = [f \in FE |-> "sleep"]
  /\ hwTuner = {} /\ hwDemod = [d \in Demod |-> Nobody]
  /\ tsConfig = "normal" /\ iqFailed = FALSE

Step(f) ==
  \/ StopSkip(f) \/ StopSend(f) \/ Release(f)
  \/ StopIqSkip(f) \/ StopIqSend(f) \/ ReleaseIq(f) \/ ClearIq(f)
  \/ Acquire(f) \/ Config(f) \/ Search(f)
  \/ AcquireIq(f) \/ StartIq(f) \/ TsIq(f) \/ SetTuner(f)

Next == \E f \in FE :
  SetParameters(f) \/ SetSymbolRate(f) \/ SleepOrSetInput(f) \/ Step(f) \/ FirstLock(f)

Spec == Init /\ [][Next]_vars

-----------------------------------------------------------------------------
Labels == {"idle", "stop", "release", "stopIq", "releaseIq", "clearIq", "acquire",
           "config", "search", "acquireIq", "startIq", "tsIq", "setTuner"}

TypeOK ==
  /\ useCount \in [Tuner -> Int] /\ inUse \subseteq Demod
  /\ ldpc \in [FE -> Nat] /\ iqMode \in 0 .. 2
  /\ tuner \in [FE -> Tuner] /\ demod \in [FE -> Demod \cup {None}]
  /\ started \in [FE -> BOOLEAN] /\ iqStarted \in [FE -> BOOLEAN]
  /\ firstLock \in [FE -> BOOLEAN]
  /\ symbolRate \in [FE -> Rates]
  /\ pc \in [FE -> Labels] /\ op \in [FE -> Ops]
  /\ hwTuner \subseteq Tuner /\ hwDemod \in [Demod -> FE \cup {Nobody}]
  /\ tsConfig \in {"normal", "iq"} /\ iqFailed \in BOOLEAN

Holds(f) == demod[f] # None

\* No two frontends ever hold the same demod, in whatever order their starts,
\* stops, failures and IQ captures interleave.
DemodExclusive == \A f, g \in FE : Holds(f) /\ demod[f] = demod[g] => f = g

\* The frontends that hold a demod behind an input.
Users(t) == {f \in FE : Holds(f) /\ tuner[f] = t}

\* tuner_use_count is the number of an input's users, and an input is powered
\* exactly while it has one.
TunerAccounting ==
  \A t \in Tuner :
    /\ useCount[t] = Cardinality(Users(t))
    /\ t \in hwTuner <=> useCount[t] > 0

\* An IQ capture has the card for itself.
IqExclusive == iqMode # 0 => \A f, g \in FE : Holds(f) /\ Holds(g) => f = g

\* No demod is shared, and none is used beside an IQ capture.
NothingShared == DemodExclusive /\ IqExclusive

\* start() never promises a frontend more than one demod can decode, nor, with
\* what the others were promised or measured to need, more than the card can,
\* whatever the others do to their symbol rates meanwhile.
GrantWithinBudget ==
  [][\A f \in FE : ~Holds(f) /\ demod'[f] # None =>
        UsedLdpc' <= MaxLdpc /\ ldpc'[f] <= MaxDemodLdpc]_vars

\* A demod that works for a frontend is stopped by that frontend, while it
\* holds the demod, before another one searches with it: a late STOP never hits
\* the next owner and a new search never the previous one.
NoForeignStop ==
  [][\A d \in Demod : LET g == hwDemod[d] IN
        g # Nobody /\ hwDemod'[d] # g =>
          hwDemod'[d] = Nobody /\ demod[g] = d /\ pc'[g] # pc[g]]_vars

\* While a frontend is tuned the TS interface is in the mode iq_mode says, as
\* long as no START_IQ command has ever failed: the error path of start_iq()
\* switches the interface to IQ after stop_iq() has given the card back.
TsConfigMatches ==
  ~iqFailed =>
    \A f \in FE : (started[f] \/ iqStarted[f]) /\ pc[f] = "idle" =>
       (tsConfig = "iq" <=> iqMode # 0)

\* Nothing is leaked: when all frontends have been put to sleep, the card is
\* as it was at the start.
AllReleased ==
  (\A f \in FE : pc[f] = "idle" /\ op[f] = "sleep") =>
     /\ inUse = {} /\ iqMode = 0 /\ hwTuner = {} /\ UsedLdpc = 0
     /\ \A d \in Demod : hwDemod[d] = Nobody

\* What is in use is what somebody uses, to the end.
NothingLeaked == TunerAccounting /\ AllReleased
-----------------------------------------------------------------------------
(* The inductive invariant: which program points hold a demod, and that     *)
(* demod_in_use and iq_mode say so to the other frontends.                  *)

\* Frontends with a demod from start(), with one from start_iq(), and those
\* that have an IQ capture, the one that is just giving it up included.
Searching == {f \in FE : started[f] \/ pc[f] \in {"config", "search"}}
Capturing == {f \in FE : (iqStarted[f] /\ pc[f] # "clearIq") \/ pc[f] = "startIq"}
IqOwners  == {f \in FE : iqStarted[f] \/ pc[f] = "startIq"}

\* An operation comes to its starts and to the end with what they need stopped.
PcConsistent ==
  \A f \in FE :
    /\ ~(started[f] /\ iqStarted[f])
    /\ started[f] => pc[f] \notin {"config", "search", "acquire", "acquireIq", "setTuner",
                                  "startIq", "tsIq"}
    /\ iqStarted[f] => pc[f] \notin {"config", "search", "acquire", "setTuner"}
    /\ started[f] /\ pc[f] = "stopIq" => op[f] \in {"sleep", "input"}
    /\ iqStarted[f] /\ pc[f] = "stop" => op[f] \notin {"sleep", "input"}
    /\ pc[f] = "release" => started[f]
    /\ pc[f] \in {"releaseIq", "clearIq"} => iqStarted[f]

DemodConsistent ==
  /\ \A f \in FE : Holds(f) <=> f \in Searching \cup Capturing
  /\ inUse = {demod[f] : f \in Searching}
  /\ \A f, g \in Searching : demod[f] = demod[g] => f = g

IqConsistent ==
  /\ IqOwners # {} => iqMode # 0
  /\ iqMode # 0 => \A f, g \in Searching \cup IqOwners : f = g

\* A demod works for the frontend that holds it, until it is told to stop.
HwConsistent ==
  \A d \in Demod : hwDemod[d] # Nobody =>
    /\ demod[hwDemod[d]] = d
    /\ started[hwDemod[d]] \/ iqStarted[hwDemod[d]]
    /\ pc[hwDemod[d]] \notin {"release", "releaseIq"}

IInv == TypeOK /\ PcConsistent /\ DemodConsistent /\ IqConsistent /\ HwConsistent

(* What the properties about the release of the card and about its modes    *)
(* need beyond it.                                                          *)

\* A frontend comes to the end of sleep() with nothing running.
SleepConsistent ==
  \A f \in FE : op[f] = "sleep" =>
    /\ pc[f] \in {"idle", "stopIq", "releaseIq", "clearIq", "stop", "release"}
    /\ pc[f] = "idle" => ~started[f] /\ ~iqStarted[f]

\* Only a search has a share of the LDPC budget, and iq_mode is only set for
\* somebody.
ShareConsistent ==
  /\ \A f \in FE : ldpc[f] # 0 => f \in Searching
  /\ iqMode # 0 => Searching \cup IqOwners # {}

\* What the TS interface is in while start(), stop(), start_iq() and stop_iq()
\* have announced a mode or not yet, as long as no START_IQ command failed.
TsConsistent ==
  ~iqFailed =>
    /\ iqMode = 0 => tsConfig = "normal"
    /\ \A f \in FE :
         /\ pc[f] = "config" => (op[f] = "tuneTs" <=> iqMode # 0)
         /\ pc[f] = "tsIq" => iqStarted[f]
         /\ pc[f] \in {"stopIq", "releaseIq", "clearIq"} =>
              op[f] \in {"tune", "tuneTs", "sleep", "input"}
         /\ pc[f] \in {"release", "releaseIq", "clearIq"} => tsConfig = "normal"
         /\ f \in Searching /\ pc[f] \notin {"config", "release"} /\ iqMode # 0 =>
              tsConfig = "iq"
         /\ iqStarted[f] /\ pc[f] = "idle" => tsConfig = "iq"
         /\ iqStarted[f] /\ pc[f] = "stop" => op[f] # "undo"
=============================================================================
