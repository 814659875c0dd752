--------------------------- MODULE Frontend_proofs ---------------------------
(***************************************************************************)
(* What holds of the frontend device for any number of monitors, opens and *)
(* ioctls, any queue and any steps of the zigzag: the semaphore excludes,  *)
(* the thread lives as long as it is needed, the status is not that of a   *)
(* former tuning, and the fast scan leaves nothing out.                    *)
(***************************************************************************)
EXTENDS Frontend, FiniteSetTheorems, TLAPS

(* The thread works, or will.                                               *)
Ready == tpc \in {"init", "wait", "down", "pass"}

(* The removal has not set fe->exit.                                        *)
Registered == pc.remove \in {"idle", "flag"}

(* A thread is started only when there is none, and a device without one is *)
(* tuned to nothing.                                                        *)
OneThread ==
  /\ pc.open \in {"down", "run"} => tpc \in {"none", "exit"}
  /\ pc.open \in {"run", "assign"} => ~thread
  /\ ~thread /\ pc.open # "assign" => tpc \in {"none", "exit"}
  /\ pc.open # "idle" => W \notin file
  /\ tpc \in {"none", "exit"} => hw = "off"

(* Before a removal fepriv->thread, fe->exit and kthread_should_stop tell   *)
(* where the thread is.                                                     *)
ThreadKnown ==
  Registered =>
    /\ pc.open = "assign" => Ready
    /\ thread => Ready \/ tpc \in {"quit", "off"}
    /\ stopReq /\ tpc # "none" => pc.open = "joined"
    /\ pc.open \in {"run", "assign"} => exit = "no"
    /\ tpc = "off" => exit # "no"
    /\ ~orphan /\ (W \in file \/ pc.open = "events") => thread /\ Ready /\ exit = "no"

(* A removal that met nothing stops what there is.                          *)
RemovedAlone ==
  ~overlap =>
    /\ ~Registered => pc.open = "idle"
    /\ pc.remove \in {"unlink", "put", "gone"} => tpc = "none"

(* References are those of the files, and two of the registration.          *)
RefsCounted ==
  refs = Cardinality(file) + puts + (IF pc.remove = "gone" THEN 0 ELSE 2)

(* What each file is doing; only the writer waits for events, and the event *)
(* it has seen is still there.                                              *)
CallsKnown ==
  /\ \A f \in File : ipc[f] # "idle" => f \in file
  /\ \A f \in File : icmd[f] = "event" => f = W
  /\ \A f \in File : ipc[f] \notin {"idle", "in"} => icmd[f] = "event"
  /\ ipc[W] \in {"got", "taken"} => queued > 0

(* Whoever is between down and up is alone.                                 *)
SemHeld ==
  ~reinit => \/ sem = 1 /\ Holders = {}
             \/ sem = 0 /\ \E h : Holders = {h}

(* A request that stands and was seen by the thread is what the hardware is *)
(* tuned to.                                                                *)
Tuning == wanted /\ state # "RETUNE" => hw \in {"last", "off"}

IInv == /\ TypeOK /\ OneThread /\ ThreadKnown /\ RemovedAlone /\ RefsCounted /\ CallsKnown
        /\ SemHeld /\ Tuning
-----------------------------------------------------------------------------
(* The zigzag stays within the drift.                                       *)
LEMMA LeastSub ==
  ASSUME NEW S, S \subseteq 0 .. 3, S # {}
  PROVE  \E t \in S : \A u \in S : t <= u
<1>1. CASE 0 \in S
  BY <1>1
<1>2. CASE 0 \notin S /\ 1 \in S
  BY <1>2
<1>3. CASE 0 \notin S /\ 1 \notin S /\ 2 \in S
  BY <1>3
<1>4. CASE 0 \notin S /\ 1 \notin S /\ 2 \notin S
  <2>1. PICK t \in S : TRUE
    OBVIOUS
  <2>2. \A u \in S : u = 3
    BY <1>4
  <2> QED
    BY <2>1, <2>2
<1> QED
  BY <1>1, <1>2, <1>3, <1>4

(* A setting lies on a step and has a whole drift.                          *)
LEMMA DriftNat ==
  ASSUME NEW z \in Scan, NEW k \in Nat
  PROVE  Drift(z, k) \in Nat /\ -Drift(z, k) \in Int
<1>1. z.zig.step \in Nat
  BY DEF Scan
<1> QED
  BY <1>1 DEF Drift

LEMMA WrapTyped ==
  ASSUME NEW z \in Scan, NEW k \in AutoStep
  PROVE  Wrap(z, k) \in AutoStep /\ Wrap(z, (k + 1) % StepRange) \in AutoStep
BY FrontendAssumption DEF Wrap, AutoStep

LEMMA PositionTyped ==
  ASSUME NEW z \in Scan
  PROVE  \E n \in AutoStep, t \in 0 .. 3 : Position(z) = <<n, t>>
<1> DEFINE k == Wrap(z, z.step)
           S == {t \in (IF k = z.step THEN z.sub ELSE 0) .. 3 : ~Skipped(z, k, t)}
<1>0. z.step \in AutoStep /\ z.sub \in 0 .. 4 /\ k \in AutoStep
  BY WrapTyped DEF Scan
<1>1. CASE S # {}
  <2>1. S \subseteq 0 .. 3
    BY <1>0
  <2> DEFINE m == CHOOSE t \in S : \A u \in S : t <= u
  <2>2. m \in S
    <3> HIDE DEF S
    <3> QED
      BY <1>1, <2>1, LeastSub
  <2>3. Position(z) = <<k, m>>
    BY <1>1 DEF Position
  <2> HIDE DEF S, m, k
  <2> QED
    BY <1>0, <2>1, <2>2, <2>3
<1>2. CASE S = {}
  <2>1. Position(z) = <<Wrap(z, (k + 1) % StepRange), 0>>
    BY <1>2 DEF Position
  <2> HIDE DEF k
  <2> QED
    BY <1>0, <2>1, WrapTyped
<1> QED
  BY <1>1, <1>2

(* The next setting is one that may be tried.                               *)
LEMMA SettingTyped ==
  ASSUME NEW z \in Scan
  PROVE  /\ Setting(z).at[1] \in AutoStep /\ Setting(z).at[2] \in 0 .. 3
         /\ Setting(z).inv \in {OFF, ON}
         /\ Setting(z).trial \in Trial /\ Setting(z).trial[2] \in {OFF, ON}
<1>1. PICK n \in AutoStep, t \in 0 .. 3 : Position(z) = <<n, t>>
  BY PositionTyped
<1> DEFINE i == IF t \in {1, 3} THEN 1 - z.inv ELSE z.inv
           d == IF t \in {2, 3} THEN -Drift(z, n) ELSE Drift(z, n)
<1>2. Setting(z) = [at |-> <<n, t>>, inv |-> i, trial |-> <<d, Fixed(z, i)>>]
  BY <1>1 DEF Setting
<1>3. i \in {OFF, ON}
  BY DEF Scan, OFF, ON
<1>4. Fixed(z, i) \in {OFF, ON}
  BY <1>3 DEF Fixed, Scan
<1>5. d \in Int
  BY DriftNat DEF AutoStep
<1> HIDE DEF i, d
<1> QED
  BY <1>2, <1>3, <1>4, <1>5 DEF Trial

(* What the thread makes of the scan is a scan.                             *)
LEMMA ScanTyped ==
  ASSUME NEW z \in Scan
  PROVE  /\ Arrived(z) \in Scan /\ Tried(z) \in Scan /\ Failed(z) \in Scan
         /\ [Arrived(z) EXCEPT !.began = Setting(z).at[1]] \in Scan
         /\ Fresh(z) \in Scan /\ Lost(z) \in Scan /\ Found(z) \in Scan /\ Once(z) \in Scan
         /\ Over(z) \in Scan
<1> DEFINE n == Setting(z).at[1]  t == Setting(z).at[2]  v == Setting(z).inv
           d == Setting(z).trial
<1>1. /\ n \in AutoStep /\ t \in 0 .. 3 /\ t \in 0 .. 4 /\ v \in {OFF, ON}
      /\ d \in Trial /\ d[2] \in {OFF, ON}
  BY SettingTyped
<1>2. 0 \in AutoStep /\ 0 \in 0 .. 4
  BY FrontendAssumption DEF AutoStep
<1>3. /\ Arrived(z) = [z EXCEPT !.step = n, !.sub = 0]
      /\ Tried(z) = [z EXCEPT !.step = n, !.sub = t + 1, !.inv = v, !.trial = d,
                              !.tried = IF z.full THEN @ \cup {d} ELSE @, !.wrapped = TRUE]
      /\ Failed(z) = [Over(z) EXCEPT !.step = n, !.sub = t, !.inv = v, !.cache = d[2]]
  BY DEF Arrived, Tried, Failed
<1> HIDE DEF n, t, v, d
<1>4. Arrived(z) \in Scan /\ [Arrived(z) EXCEPT !.began = n] \in Scan
  BY <1>1, <1>2, <1>3 DEF Scan
<1>5. Tried(z) \in Scan
  <2>1. z.tried \cup {d} \in SUBSET Trial /\ t + 1 \in 0 .. 4
    BY <1>1 DEF Scan
  <2> QED
    BY <1>1, <1>3, <2>1 DEF Scan
<1>6. Over(z) \in Scan
  BY DEF Over, Scan
<1>7. Failed(z) \in Scan
  BY <1>1, <1>3, <1>6 DEF Scan
<1>8. Fresh(z) \in Scan
  <2>1. Inversions(z) \in SUBSET {OFF, ON}
    BY DEF Inversions, Scan
  <2> QED
    BY <1>2, <2>1 DEF Fresh, Scan
<1>9. Lost(z) \in Scan
  <2>1. z.step \in AutoStep
    BY DEF Scan
  <2> QED
    BY <1>6, <2>1 DEF Lost, Scan
<1>10. Found(z) \in Scan
  <2>1. Fixed(z, z.inv) \in {OFF, ON, AUTO}
    BY DEF Fixed, Scan
  <2> QED
    BY <1>6, <2>1 DEF Found, Scan
<1>11. Once(z) \in Scan
  <2>1. <<0, IF z.cache = ON THEN ON ELSE OFF>> \in Trial
    BY DEF Trial
  <2> QED
    BY <2>1 DEF Once, Scan
<1> QED
  BY <1>4, <1>5, <1>6, <1>7, <1>8, <1>9, <1>10, <1>11 DEF n
-----------------------------------------------------------------------------
(* A pass of the thread.                                                    *)
State == {"IDLE", "RETUNE", "TUNED", "DISEQC", "ERROR", "TUNING_FAST", "ZIGZAG_FAST", "SLOW"}

Passed ==
  /\ state' \in State /\ scan' \in Scan /\ hw' \in {"off", "former", "last"}
  /\ wanted' \in BOOLEAN /\ inputs' \in Nat
  /\ wanted' => wanted /\ hw' \in {hw, "last"}

Reported ==
  /\ queued' \in 0 .. MaxEvent - 1 /\ overflow' \in BOOLEAN /\ told' \in BOOLEAN
  /\ status' \in BOOLEAN
  /\ queued > 0 => queued' > 0

(* A setting is the last request, or the request is given up.               *)
LEMMA TryPasses ==
  ASSUME TypeOK, NEW z \in Scan, NEW to \in State, Try(z, to)
  PROVE  Passed /\ (wanted' => hw' = "last")
<1>1. CASE SetFrontend /\ scan' = Tried(z) /\ state' = to
  <2>1. scan' \in Scan
    BY <1>1, ScanTyped
  <2> QED
    BY <1>1, <2>1 DEF SetFrontend, Passed, TypeOK
<1>2. CASE SetFails /\ scan' = Failed(z)
  <2>1. scan' \in Scan
    BY <1>2, ScanTyped
  <2>2. inputs' \in Nat /\ hw' \in {"off", "former", "last"} /\ state' \in State
    BY <1>2 DEF SetFails, Input, TypeOK, State
  <2>3. wanted' \in BOOLEAN /\ ~wanted'
    BY <1>2 DEF SetFails
  <2> QED
    BY <2>1, <2>2, <2>3 DEF Passed
<1> QED
  BY <1>1, <1>2 DEF Try

(* A new request begins a scan that is not complete, so it is tried.        *)
LEMMA SearchPasses ==
  ASSUME TypeOK, NEW z \in Scan, NEW from \in State, Search(z, from)
  PROVE  Passed /\ (from = "RETUNE" /\ wanted' => hw' = "last")
<1> DEFINE new == IF from = "RETUNE" THEN Fresh(z) ELSE z
<1>1. new \in Scan
  BY ScanTyped
<1>2. from = "RETUNE" => ~Complete(new)
  BY DEF Complete, Fresh, Scan
<1> HIDE DEF new
<1>3. CASE /\ state' = "SLOW" /\ scan' = [Arrived(new) EXCEPT !.began = Setting(new).at[1]]
           /\ UNCHANGED <<hw, wanted, inputs>>
           /\ from # "RETUNE"
  <2>1. scan' \in Scan
    BY <1>1, <1>3, ScanTyped
  <2> QED
    BY <1>3, <2>1 DEF Passed, TypeOK, State
<1>4. ASSUME NEW to \in State, Try(new, to) PROVE Passed /\ (wanted' => hw' = "last")
  BY <1>1, <1>4, TryPasses
<1>5. CASE Nothing /\ from # "RETUNE"
  BY <1>5 DEF Nothing, Passed, TypeOK, State
<1>6. \/ /\ state' = "SLOW" /\ scan' = [Arrived(new) EXCEPT !.began = Setting(new).at[1]]
         /\ UNCHANGED <<hw, wanted, inputs>>
         /\ from # "RETUNE"
      \/ \E to \in State : Try(new, to)
      \/ Nothing /\ from # "RETUNE"
  <2>1. CASE from = "RETUNE"
    BY <1>2, <2>1 DEF Search, new, State
  <2>2. CASE from \in {"TUNING_FAST", "ZIGZAG_FAST"}
    BY <2>2 DEF Search, new, State
  <2>3. CASE from = "SLOW"
    BY <2>3 DEF Search, new, State
  <2>4. CASE from \notin {"RETUNE", "TUNING_FAST", "ZIGZAG_FAST", "SLOW"}
    BY <2>4 DEF Search, new
  <2> QED
    BY <2>1, <2>2, <2>3, <2>4
<1> QED
  BY <1>3, <1>4, <1>5, <1>6

LEMMA ReportTyped ==
  ASSUME TypeOK, NEW s \in BOOLEAN, Report(s) \/ UNCHANGED <<eventVars, status>>
  PROVE  Reported
<1> USE FrontendAssumption
<1>1. CASE UNCHANGED <<eventVars, status>>
  BY <1>1 DEF Reported, TypeOK, eventVars
<1>2. CASE AddEvent(s) /\ status' = s
  BY <1>2 DEF Reported, TypeOK, AddEvent
<1> QED
  BY <1>1, <1>2 DEF Report

(* After a pass no request waits, and the hardware is tuned to what stands. *)
LEMMA PassTyped ==
  ASSUME TypeOK, ThreadPass
  PROVE  Passed /\ Reported /\ (state = "RETUNE" /\ wanted' => hw' = "last")
<1>1. CASE HwPass
  <2>1. Reported
    BY <1>1, ReportTyped DEF HwPass, Locked
  <2>2. /\ state' \in State /\ scan' \in Scan /\ hw' \in {"off", "former", "last"}
        /\ inputs' \in Nat
    <3>1. scan' \in Scan
      BY <1>1 DEF HwPass, TypeOK
    <3>2. hw' \in {"off", "former", "last"} /\ inputs' \in Nat
      <4>1. CASE SetFrontend \/ UNCHANGED <<hw, inputs>>
        BY <4>1 DEF SetFrontend, TypeOK
      <4>2. CASE Input /\ UNCHANGED hw
        BY <4>2 DEF Input, TypeOK
      <4> QED
        BY <1>1, <4>1, <4>2 DEF HwPass
    <3>3. state' \in State
      BY <1>1 DEF HwPass, TypeOK, State
    <3> QED
      BY <3>1, <3>2, <3>3
  <2>3. /\ wanted' \in BOOLEAN /\ (wanted' => wanted /\ hw' \in {hw, "last"})
        /\ state = "RETUNE" /\ wanted' => hw' = "last"
    <3>1. wanted' \in BOOLEAN
      BY <1>1 DEF HwPass, SetFrontend, TypeOK
    <3>2. /\ wanted' => wanted /\ hw' \in {hw, "last"}
          /\ state = "RETUNE" /\ wanted' => hw' = "last"
      BY <1>1 DEF HwPass, SetFrontend
    <3> QED
      BY <3>1, <3>2
  <2> QED
    BY <2>1, <2>2, <2>3 DEF Passed
<1>2. CASE SwPass /\ oneshot
  <2>1. Reported
    BY <1>2, ReportTyped DEF SwPass
  <2>2. scan \in Scan
    BY DEF TypeOK
  <2>3. Once(scan) \in Scan
    BY <2>2, ScanTyped
  <2>4. CASE /\ SetFrontend /\ state = "RETUNE" /\ state' = "TUNED"
             /\ scan' = Once(scan)
    BY <2>1, <2>3, <2>4 DEF SetFrontend, Passed, TypeOK, State
  <2>5. CASE SetFails /\ UNCHANGED scan
    <3>1. inputs' \in Nat /\ hw' \in {"off", "former", "last"} /\ state' \in State
      BY <2>5 DEF SetFails, Input, TypeOK, State
    <3>2. wanted' \in BOOLEAN /\ ~wanted' /\ scan' \in Scan
      BY <2>2, <2>5 DEF SetFails
    <3> QED
      BY <2>1, <3>1, <3>2 DEF Passed
  <2>6. CASE Nothing /\ state # "RETUNE"
    BY <2>1, <2>6 DEF Nothing, Passed, TypeOK, State
  <2> QED
    BY <1>2, <2>4, <2>5, <2>6 DEF SwPass
<1>3. CASE SwPass /\ ~oneshot
  <2> DEFINE s == state # "RETUNE" /\ Locked
  <2>1. Reported
    <3>1. Report(s) \/ UNCHANGED <<eventVars, status>>
      BY <1>3 DEF SwPass
    <3> QED
      BY <3>1, ReportTyped
  <2>2. scan \in Scan /\ Lost(scan) \in Scan /\ Found(scan) \in Scan
    <3>1. scan \in Scan
      BY DEF TypeOK
    <3> QED
      BY <3>1, ScanTyped DEF Scan
  <2>3. \/ /\ state # "RETUNE" /\ state' \in State
           /\ scan' \in {Found(scan), Lost(scan)}
           /\ UNCHANGED <<hw, wanted, inputs>>
        \/ state # "RETUNE" /\ Search(Lost(scan), "ZIGZAG_FAST")
        \/ state # "RETUNE" /\ Nothing
        \/ Search(scan, state)
    <3>1. CASE state \in {"TUNING_FAST", "ZIGZAG_FAST", "SLOW", "DISEQC"} /\ s
      BY <1>3, <3>1 DEF SwPass, State
    <3>2. CASE state = "TUNED" /\ ~s
      BY <1>3, <3>2 DEF SwPass, State
    <3>3. CASE LeftAlone /\ ~s
      BY <1>3, <3>3 DEF SwPass, LeftAlone
    <3>4. CASE /\ ~(state \in {"TUNING_FAST", "ZIGZAG_FAST", "SLOW", "DISEQC"} /\ s)
               /\ ~(state = "TUNED" /\ ~s)
               /\ ~(LeftAlone /\ ~s)
      BY <1>3, <3>4 DEF SwPass
    <3> QED
      BY <3>1, <3>2, <3>3, <3>4
  <2>4. Search(Lost(scan), "ZIGZAG_FAST") => Passed
    BY <2>2, SearchPasses DEF State
  <2>5. Search(scan, state) => Passed /\ (state = "RETUNE" /\ wanted' => hw' = "last")
    <3>1. state \in State
      BY DEF TypeOK, State
    <3> QED
      BY <2>2, <3>1, SearchPasses
  <2>6. state # "RETUNE" /\ Nothing => Passed
    BY DEF Nothing, Passed, TypeOK, State
  <2>7. /\ state' \in State /\ UNCHANGED <<hw, wanted, inputs>>
        /\ scan' \in {Found(scan), Lost(scan)}
        => Passed
    <3> SUFFICES ASSUME state' \in State, UNCHANGED <<hw, wanted, inputs>>,
                        scan' \in {Found(scan), Lost(scan)}
                 PROVE  Passed
      OBVIOUS
    <3>1. scan' \in Scan
      BY <2>2
    <3> QED
      BY <3>1 DEF Passed, TypeOK
  <2> QED
    BY <2>1, <2>3, <2>4, <2>5, <2>6, <2>7
<1> QED
  BY <1>1, <1>2, <1>3 DEF ThreadPass
-----------------------------------------------------------------------------
(* The steps, one by one.                                                   *)
Ioctl(f) == IoctlStep(f) \/ EventDown(f) \/ EventSignal(f)
CallStep == (\E cmd \in Command : Call(W, cmd)) \/ (\E m \in Monitor : Call(m, "status"))
CloseStep == \E f \in File : Close(f)
OpenMonitorStep == \E m \in Monitor : OpenMonitor(m)

ThreadCase == \/ ThreadInit \/ ThreadWake \/ ThreadGo \/ ThreadDown \/ ThreadPass \/ ThreadQuit
              \/ ThreadOff \/ ThreadExit
IoctlCase  == CallStep \/ (\E f \in File : Ioctl(f))
StopCase   == \/ StopFlag("open", "down") \/ StopJoin("open") \/ StopDone("open", "down")
              \/ StopFlag("remove", "unlink") \/ StopJoin("remove")
              \/ StopDone("remove", "unlink")
OpenCase   == \/ OpenBegin \/ OpenGeneric \/ Start \/ StartDown \/ StartFails \/ StartRun
              \/ StartAssign \/ OpenEnd \/ OpenFail
RestCase   == \/ Carrier \/ Timeout \/ OpenMonitorStep \/ CloseStep \/ ClosePut
              \/ Remove \/ RemoveDevice \/ RemovePut

LEMMA NextCases == Next => ThreadCase \/ IoctlCase \/ StopCase \/ OpenCase \/ RestCase
BY DEF Next, ThreadSem, ThreadStep, OpenStep, Stop, ThreadCase, IoctlCase, StopCase, OpenCase,
   RestCase, CallStep, CloseStep, OpenMonitorStep, Ioctl

(* An ioctl starts and ends nothing; a former tuning stays a former one.    *)
LEMMA IoctlFrame ==
  ASSUME IoctlCase
  PROVE  /\ UNCHANGED <<exit, thread, tpc, stopReq, pc, file, refs, puts, elapsed, orphan, reinit,
                       overlap>>
         /\ hw = "off" => hw' = "off"
<1>1. CASE CallStep
  BY <1>1 DEF CallStep, Call, threadVars, fileVars, tuneVars, ghostVars
<1>2. ASSUME NEW f \in File, Ioctl(f)
      PROVE  /\ UNCHANGED <<exit, thread, tpc, stopReq, pc, file, refs, puts, elapsed, orphan,
                            reinit, overlap>>
             /\ hw = "off" => hw' = "off"
  <2> USE DEF Return, threadVars, fileVars, tuneVars, ghostVars, EventVars
  <2>1. CASE IoctlRead(f) \/ IoctlEvent(f) \/ EventTake(f) \/ EventSignal(f)
    BY <2>1 DEF IoctlRead, IoctlEvent, EventTake, EventSignal
  <2>2. CASE IoctlTune(f) \/ IoctlDiseqc(f) \/ IoctlInversion(f) \/ IoctlTuneMode(f)
    BY <2>2 DEF IoctlTune, IoctlDiseqc, IoctlInversion, IoctlTuneMode
  <2>3. CASE EventUp(f) \/ EventTest(f) \/ EventDown(f)
    BY <2>3 DEF EventUp, EventTest, EventDown
  <2> QED
    BY <1>2, <2>1, <2>2, <2>3 DEF Ioctl, IoctlStep
<1> QED
  BY <1>1, <1>2 DEF IoctlCase

(* A file that is opened for reading is not the writer.                     *)
LEMMA OtherFiles ==
  ASSUME NEW m \in Monitor
  PROVE  m \in File \ {W, "thread", "open"}
BY FrontendAssumption DEF File

(* A thread is started only when there is none.                             *)
LEMMA OneThreadNext ==
  ASSUME TypeOK, OneThread, Next
  PROVE  OneThread'
<1> USE DEF OneThread, threadVars, fileVars, tuneVars
<1>1. CASE ThreadCase
  BY <1>1 DEF ThreadCase, ThreadInit, ThreadWake, ThreadGo, ThreadDown, ThreadPass, ThreadQuit,
              ThreadOff,
     ThreadExit, Thread
<1>2. CASE IoctlCase
  BY <1>2, IoctlFrame
<1>3. CASE StopCase
  BY <1>3 DEF StopCase, StopFlag, StopJoin, StopDone, Step, TypeOK
<1>4. CASE OpenBegin \/ OpenGeneric \/ Start \/ OpenEnd \/ OpenFail
  BY <1>4 DEF OpenBegin, OpenGeneric, Start, OpenEnd, OpenFail, Step, TypeOK
<1>5. CASE StartDown \/ StartFails \/ StartRun \/ StartAssign
  BY <1>5 DEF StartDown, StartFails, StartRun, StartAssign, Step, TypeOK
<1>6. CASE OpenMonitorStep \/ CloseStep
  <2>1. UNCHANGED <<thread, tpc, pc, hw>>
    BY <1>6 DEF OpenMonitorStep, CloseStep, OpenMonitor, Close
  <2>2. pc.open # "idle" => W \notin file'
    BY <1>6, OtherFiles DEF OpenMonitorStep, CloseStep, OpenMonitor, Close
  <2> QED
    BY <2>1, <2>2
<1>7. CASE Carrier \/ Timeout \/ ClosePut
  BY <1>7 DEF Carrier, Timeout, ClosePut
<1>8. CASE Remove \/ RemoveDevice \/ RemovePut
  BY <1>8 DEF Remove, RemoveDevice, RemovePut, Step, TypeOK
<1> QED
  BY <1>1, <1>2, <1>3, <1>4, <1>5, <1>6, <1>7, <1>8, NextCases DEF OpenCase, RestCase

(* fepriv->thread, fe->exit and kthread_should_stop tell where it is.       *)
LEMMA ThreadKnownNext ==
  ASSUME TypeOK, OneThread, ThreadKnown, Next
  PROVE  ThreadKnown'
<1> USE DEF ThreadKnown, Registered, Ready, threadVars, fileVars, ghostVars
<1>1. CASE ThreadInit \/ ThreadDown \/ ThreadPass
  BY <1>1 DEF ThreadInit, ThreadDown, ThreadPass, Thread
<1>2. CASE ThreadWake \/ ThreadGo
  BY <1>2 DEF ThreadWake, ThreadGo, Thread, Exiting, OneThread
<1>3. CASE ThreadQuit
  BY <1>3 DEF ThreadQuit, Thread, OneThread
<1>4. CASE ThreadOff
  BY <1>4 DEF ThreadOff, Thread
<1>5. CASE ThreadExit
  BY <1>5 DEF ThreadExit, Thread
<1>6. CASE IoctlCase
  BY <1>6, IoctlFrame
<1>7. CASE StopFlag("open", "down") \/ StopJoin("open")
  BY <1>7 DEF StopFlag, StopJoin, Step, TypeOK, OneThread
<1>8. CASE StopDone("open", "down")
  BY <1>8 DEF StopDone, Step, TypeOK, OneThread
<1>9. CASE \/ StopFlag("remove", "unlink") \/ StopJoin("remove") \/ StopDone("remove", "unlink")
  BY <1>9 DEF StopFlag, StopJoin, StopDone, Step, TypeOK
<1>10. CASE OpenBegin \/ OpenGeneric \/ OpenFail
  BY <1>10 DEF OpenBegin, OpenGeneric, OpenFail, Step, TypeOK
<1>11. CASE Start
  BY <1>11 DEF Start, Step, TypeOK, OneThread
<1>12. CASE StartDown \/ StartFails
  BY <1>12 DEF StartDown, StartFails, Step, TypeOK, OneThread
<1>13. CASE StartRun \/ StartAssign
  BY <1>13 DEF StartRun, StartAssign, Step, TypeOK, OneThread
<1>14. CASE OpenEnd
  BY <1>14 DEF OpenEnd, Step, TypeOK
<1>15. CASE OpenMonitorStep \/ CloseStep
  BY <1>15, OtherFiles DEF OpenMonitorStep, CloseStep, OpenMonitor, Close, OneThread
<1>16. CASE Carrier \/ Timeout \/ ClosePut
  BY <1>16 DEF Carrier, Timeout, ClosePut
<1>17. CASE Remove \/ RemoveDevice \/ RemovePut
  BY <1>17 DEF Remove, RemoveDevice, RemovePut, Step, TypeOK
<1> QED
  BY <1>1, <1>2, <1>3, <1>4, <1>5, <1>6, <1>7, <1>8, <1>9, <1>10, <1>11, <1>12, <1>13, <1>14,
     <1>15, <1>16, <1>17, NextCases DEF ThreadCase, StopCase, OpenCase, RestCase

(* A removal that met nothing stops what there is.                          *)
LEMMA RemovedAloneNext ==
  ASSUME TypeOK, OneThread, RemovedAlone, Next
  PROVE  RemovedAlone'
<1> USE DEF RemovedAlone, Registered, threadVars, ghostVars
<1>1. CASE ThreadCase
  BY <1>1 DEF ThreadCase, ThreadInit, ThreadWake, ThreadGo, ThreadDown, ThreadPass, ThreadQuit,
              ThreadOff,
     ThreadExit, Thread
<1>2. CASE IoctlCase
  BY <1>2, IoctlFrame
<1>3. CASE StopFlag("remove", "unlink")
  BY <1>3 DEF StopFlag, Step, TypeOK, Ending, OneThread
<1>4. CASE StopJoin("remove") \/ StopDone("remove", "unlink")
  BY <1>4 DEF StopJoin, StopDone, Step, TypeOK
<1>5. CASE StopFlag("open", "down") \/ StopJoin("open") \/ StopDone("open", "down")
  BY <1>5 DEF StopFlag, StopJoin, StopDone, Step, TypeOK
<1>6. CASE OpenCase
  BY <1>6 DEF OpenCase, OpenBegin, OpenGeneric, Start, StartDown, StartFails, StartRun,
     StartAssign, OpenEnd, OpenFail, Step, TypeOK
<1>7. CASE OpenMonitorStep \/ CloseStep
  BY <1>7 DEF OpenMonitorStep, CloseStep, OpenMonitor, Close
<1>8. CASE Carrier \/ Timeout \/ ClosePut
  BY <1>8 DEF Carrier, Timeout, ClosePut
<1>9. CASE Remove \/ RemoveDevice \/ RemovePut
  BY <1>9 DEF Remove, RemoveDevice, RemovePut, Step, TypeOK
<1> QED
  BY <1>1, <1>2, <1>3, <1>4, <1>5, <1>6, <1>7, <1>8, <1>9, NextCases DEF StopCase, RestCase

(* References are counted.                                                  *)
LEMMA FileFinite ==
  ASSUME TypeOK
  PROVE  IsFiniteSet(file) /\ Cardinality(file) \in Nat
<1>1. IsFiniteSet(File)
  BY FrontendAssumption, FS_AddElement DEF File
<1> QED
  BY <1>1, FS_Subset, FS_CardinalityType DEF TypeOK

LEMMA RefsCountedNext ==
  ASSUME TypeOK, OneThread, RefsCounted, Next
  PROVE  RefsCounted' /\ refs' \in Nat /\ puts' \in Nat
<1> DEFINE n == IF pc.remove = "gone" THEN 0 ELSE 2
<1>1. /\ refs \in Nat /\ puts \in Nat /\ Cardinality(file) \in Nat /\ IsFiniteSet(file)
      /\ refs = Cardinality(file) + puts + n
  BY FileFinite DEF TypeOK, RefsCounted
<1> USE DEF RefsCounted, fileVars
<1>2. CASE UNCHANGED <<file, refs, puts>> /\ (pc'.remove = "gone" <=> pc.remove = "gone")
  BY <1>1, <1>2
<1>3. CASE ThreadCase
  BY <1>2, <1>3 DEF ThreadCase, ThreadInit, ThreadWake, ThreadGo, ThreadDown, ThreadPass,
                    ThreadQuit,
     ThreadOff, ThreadExit
<1>4. CASE IoctlCase
  BY <1>2, <1>4, IoctlFrame
<1>5. CASE StopCase
  BY <1>2, <1>5 DEF StopCase, StopFlag, StopJoin, StopDone, Step, TypeOK
<1>6. CASE \/ OpenBegin \/ OpenGeneric \/ Start \/ StartDown \/ StartFails \/ StartRun
           \/ StartAssign \/ OpenFail
  BY <1>2, <1>6 DEF OpenBegin, OpenGeneric, Start, StartDown, StartFails, StartRun, StartAssign,
     OpenFail, Step, TypeOK
<1>7. CASE OpenEnd
  <2>1. Cardinality(file \cup {W}) = Cardinality(file) + 1
    BY <1>1, <1>7, FS_AddElement DEF OpenEnd, Step, OneThread
  <2> QED
    BY <1>1, <1>7, <2>1 DEF OpenEnd, Step, TypeOK
<1>8. ASSUME NEW m \in Monitor, OpenMonitor(m)
      PROVE  RefsCounted' /\ refs' \in Nat /\ puts' \in Nat
  <2>1. Cardinality(file \cup {m}) = Cardinality(file) + 1
    BY <1>1, <1>8, FS_AddElement DEF OpenMonitor
  <2> QED
    BY <1>1, <1>8, <2>1 DEF OpenMonitor
<1>9. ASSUME NEW f \in File, Close(f)
      PROVE  RefsCounted' /\ refs' \in Nat /\ puts' \in Nat
  <2>1. Cardinality(file \ {f}) = Cardinality(file) - 1
    BY <1>1, <1>9, FS_RemoveElement DEF Close
  <2> QED
    BY <1>1, <1>9, <2>1 DEF Close
<1>10. CASE ClosePut
  BY <1>1, <1>10 DEF ClosePut
<1>11. CASE Carrier \/ Timeout
  BY <1>2, <1>11 DEF Carrier, Timeout
<1>12. CASE Remove \/ RemoveDevice
  BY <1>2, <1>12 DEF Remove, RemoveDevice, Step, TypeOK
<1>13. CASE RemovePut
  BY <1>1, <1>13 DEF RemovePut, Step, TypeOK
<1> QED
  BY <1>3, <1>4, <1>5, <1>6, <1>7, <1>8, <1>9, <1>10, <1>11, <1>12, <1>13, NextCases
     DEF OpenCase, RestCase, OpenMonitorStep, CloseStep

(* What a pass does to the queue of events.                                 *)
LEMMA PassQueue == TypeOK /\ ThreadPass => (queued > 0 => queued' > 0)
BY PassTyped DEF Reported

(* The event a waiting file has seen is still there.                        *)
LEMMA CallsKnownNext ==
  ASSUME TypeOK, OneThread, CallsKnown, Next
  PROVE  CallsKnown'
<1> USE DEF CallsKnown, fileVars, ioctlVars, eventVars
<1>0. W \in File /\ Monitor \subseteq File /\ W \notin Monitor
  BY OtherFiles DEF File
<1>1. CASE ThreadPass
  BY <1>1, PassQueue DEF ThreadPass
<1>2. CASE \/ ThreadInit \/ ThreadWake \/ ThreadGo \/ ThreadDown \/ ThreadQuit \/ ThreadOff
           \/ ThreadExit
  BY <1>2 DEF ThreadInit, ThreadWake, ThreadGo, ThreadDown, ThreadQuit, ThreadOff, ThreadExit
<1>3. CASE CallStep
  BY <1>0, <1>3 DEF CallStep, Call, TypeOK
<1>4. ASSUME NEW f \in File, Ioctl(f) PROVE CallsKnown'
  <2>1. CASE IoctlRead(f) \/ IoctlTune(f) \/ IoctlDiseqc(f) \/ IoctlInversion(f) \/ IoctlTuneMode(f)
    BY <1>0, <2>1 DEF IoctlRead, IoctlTune, IoctlDiseqc, IoctlInversion, IoctlTuneMode, In, Return,
                      TypeOK
  <2>2. CASE IoctlEvent(f) \/ EventTake(f)
    <3>1. f = W
      BY <2>2 DEF IoctlEvent, EventTake, In
    <3>2. /\ ipc' = [ipc EXCEPT ![f] = "idle"] /\ icmd' = [icmd EXCEPT ![f] = "none"]
          /\ file' = file
      BY <2>2 DEF IoctlEvent, EventTake, Return
    <3> QED
      BY <1>0, <3>1, <3>2 DEF TypeOK
  <2>3. CASE EventSignal(f)
    BY <1>0, <2>3 DEF EventSignal, Return, TypeOK
  <2>4. CASE EventUp(f) \/ EventTest(f) \/ EventDown(f)
    BY <1>0, <2>4 DEF EventUp, EventTest, EventDown, EventVars, In, TypeOK
  <2> QED
    BY <1>4, <2>1, <2>2, <2>3, <2>4 DEF Ioctl, IoctlStep
<1>5. CASE StopCase
  BY <1>5 DEF StopCase, StopFlag, StopJoin, StopDone
<1>6. CASE OpenEnd
  BY <1>0, <1>6 DEF OpenEnd, Step, OneThread
<1>7. CASE \/ OpenBegin \/ OpenGeneric \/ Start \/ StartDown \/ StartFails \/ StartRun
           \/ StartAssign \/ OpenFail
  BY <1>7 DEF OpenBegin, OpenGeneric, Start, StartDown, StartFails, StartRun, StartAssign, OpenFail
<1>8. CASE OpenMonitorStep \/ CloseStep
  BY <1>8 DEF OpenMonitorStep, CloseStep, OpenMonitor, Close
<1>9. CASE Carrier \/ Timeout \/ ClosePut
  BY <1>9 DEF Carrier, Timeout, ClosePut
<1>10. CASE Remove \/ RemoveDevice \/ RemovePut
  BY <1>10 DEF Remove, RemoveDevice, RemovePut
<1> QED
  BY <1>1, <1>2, <1>3, <1>4, <1>5, <1>6, <1>7, <1>8, <1>9, <1>10, NextCases
     DEF ThreadCase, IoctlCase, OpenCase, RestCase
-----------------------------------------------------------------------------
(* The semaphore.                                                           *)
CallHolders  == {f \in File : ipc[f] \in {"in", "hold", "taken"}}
ThreadHolder == {t \in {"thread"} : tpc \in {"init", "pass", "off", "exit"}}
OpenHolder   == {o \in {"open"} : pc.open = "run"}

LEMMA HolderParts ==
  /\ Holders = CallHolders \cup ThreadHolder \cup OpenHolder
  /\ Holders' = CallHolders' \cup ThreadHolder' \cup OpenHolder'
BY DEF Holders, CallHolders, ThreadHolder, OpenHolder

(* The three are apart.                                                     *)
LEMMA PartsApart ==
  /\ "thread" \notin CallHolders \cup OpenHolder /\ "thread" \notin CallHolders' \cup OpenHolder'
  /\ "open" \notin CallHolders \cup ThreadHolder /\ "open" \notin CallHolders' \cup ThreadHolder'
  /\ \A f \in File : f \notin ThreadHolder \cup OpenHolder
<1>1. "thread" \notin File /\ "open" \notin File
  BY OtherFiles DEF File, W
<1> QED
  BY <1>1 DEF CallHolders, ThreadHolder, OpenHolder

(* Who takes it is then alone, ...                                          *)
LEMMA SemDown ==
  ASSUME SemHeld, sem \in Nat, NEW x, Down, UNCHANGED reinit, Holders' = Holders \cup {x}
  PROVE  SemHeld'
<1> SUFFICES ASSUME ~reinit' PROVE sem' = 0 /\ Holders' = {x}
  BY DEF SemHeld
<1>1. sem = 1 /\ Holders = {}
  BY DEF SemHeld, Down
<1> QED
  BY <1>1 DEF Down

(* ... who gives it back was, ...                                           *)
LEMMA SemUp ==
  ASSUME SemHeld, NEW x \in Holders, Up, UNCHANGED reinit, Holders' = Holders \ {x}
  PROVE  SemHeld'
<1> SUFFICES ASSUME ~reinit' PROVE sem' = 1 /\ Holders' = {}
  BY DEF SemHeld
<1>1. PICK h : sem = 0 /\ Holders = {h}
  BY DEF SemHeld
<1> QED
  BY <1>1 DEF Up

(* ... and the others leave it.                                             *)
LEMMA SemKept ==
  ASSUME SemHeld, UNCHANGED <<sem, reinit>>,
         CallHolders' = CallHolders, ThreadHolder' = ThreadHolder, OpenHolder' = OpenHolder
  PROVE  SemHeld'
BY HolderParts DEF SemHeld

(* The semaphore excludes unless it was initialised in use.                 *)
LEMMA SemHeldNext ==
  ASSUME TypeOK, OneThread, SemHeld, Next
  PROVE  SemHeld'
<1> USE DEF threadVars, ioctlVars, ghostVars
<1>c. UNCHANGED ipc => CallHolders' = CallHolders
  BY DEF CallHolders
<1>t. UNCHANGED tpc => ThreadHolder' = ThreadHolder
  BY DEF ThreadHolder
<1>o. UNCHANGED pc => OpenHolder' = OpenHolder
  BY DEF OpenHolder
<1>1. CASE ThreadInit \/ ThreadPass \/ ThreadExit
  <2>1. /\ UNCHANGED <<ipc, pc, reinit>> /\ Up
        /\ ThreadHolder = {"thread"} /\ ThreadHolder' = {}
    BY <1>1 DEF ThreadInit, ThreadPass, ThreadExit, Thread, ThreadHolder
  <2>2. "thread" \in Holders /\ Holders' = Holders \ {"thread"}
    BY <1>c, <1>o, <2>1, HolderParts, PartsApart
  <2> QED
    BY <2>1, <2>2, SemUp
<1>2. CASE ThreadDown \/ ThreadQuit
  <2>1. UNCHANGED <<ipc, pc, reinit>> /\ Down /\ ThreadHolder = {} /\ ThreadHolder' = {"thread"}
    BY <1>2 DEF ThreadDown, ThreadQuit, Thread, ThreadHolder
  <2>2. Holders' = Holders \cup {"thread"}
    BY <1>c, <1>o, <2>1, HolderParts
  <2> QED
    BY <2>1, <2>2, SemDown DEF TypeOK
<1>3. CASE ThreadWake \/ ThreadGo \/ ThreadOff
  <2>1. UNCHANGED <<ipc, pc, sem, reinit>> /\ ThreadHolder' = ThreadHolder
    BY <1>3 DEF ThreadWake, ThreadGo, ThreadOff, Thread, ThreadHolder
  <2> QED
    BY <1>c, <1>o, <2>1, SemKept
<1>4. ASSUME NEW f \in File, UNCHANGED <<tpc, pc, reinit>>, Down,
             NEW i \in {"in", "hold", "taken"}, ipc' = [ipc EXCEPT ![f] = i]
      PROVE  SemHeld'
  <2>1. CallHolders' = CallHolders \cup {f}
    BY <1>4 DEF CallHolders, TypeOK
  <2>2. Holders' = Holders \cup {f}
    BY <1>t, <1>o, <1>4, <2>1, HolderParts
  <2> QED
    BY <1>4, <2>2, SemDown DEF TypeOK
<1>5. ASSUME NEW f \in File, UNCHANGED <<tpc, pc, reinit>>, Up, ipc[f] \in {"in", "hold", "taken"},
             NEW i \in {"idle", "test"}, ipc' = [ipc EXCEPT ![f] = i]
      PROVE  SemHeld'
  <2>1. f \in CallHolders /\ CallHolders' = CallHolders \ {f}
    BY <1>5 DEF CallHolders, TypeOK
  <2>2. f \in Holders /\ Holders' = Holders \ {f}
    BY <1>t, <1>o, <1>5, <2>1, HolderParts, PartsApart
  <2> QED
    BY <1>5, <2>2, SemUp
<1>6. ASSUME NEW f \in File, Ioctl(f) PROVE SemHeld'
  <2>1. CASE \/ IoctlRead(f) \/ IoctlTune(f) \/ IoctlDiseqc(f) \/ IoctlInversion(f)
             \/ IoctlTuneMode(f) \/ IoctlEvent(f)
    BY <1>5, <2>1 DEF IoctlRead, IoctlTune, IoctlDiseqc, IoctlInversion, IoctlTuneMode, IoctlEvent,
                      In, Return
  <2>2. CASE EventTake(f) \/ EventSignal(f)
    BY <1>5, <2>2 DEF EventTake, EventSignal, Return
  <2>3. CASE EventUp(f)
    BY <1>5, <2>3 DEF EventUp, In, EventVars
  <2>4. CASE EventTest(f)
    <3>1. UNCHANGED <<sem, tpc, pc, reinit>> /\ CallHolders' = CallHolders
      BY <2>4 DEF EventTest, EventVars, CallHolders, TypeOK
    <3> QED
      BY <1>t, <1>o, <3>1, SemKept
  <2>5. CASE EventDown(f)
    <3>1. /\ Down /\ UNCHANGED <<tpc, pc, reinit>>
          /\ ipc' = [ipc EXCEPT ![f] = "taken"] \/ ipc' = [ipc EXCEPT ![f] = "hold"]
      BY <2>5 DEF EventDown, EventVars
    <3> QED
      BY <1>4, <3>1
  <2> QED
    BY <1>6, <2>1, <2>2, <2>3, <2>4, <2>5 DEF Ioctl, IoctlStep
<1>7. CASE StopDone("open", "down") \/ StopDone("remove", "unlink")
  <2>1. /\ sem' = 1 /\ reinit' = (reinit \/ sem = 0) /\ UNCHANGED <<tpc, ipc>>
        /\ OpenHolder' = OpenHolder
    BY <1>7 DEF StopDone, Step, TypeOK, OpenHolder
  <2>2. Holders' = Holders
    BY <1>c, <1>t, <2>1, HolderParts
  <2>3. ~reinit' => sem = 1 /\ Holders = {}
    BY <2>1 DEF SemHeld
  <2> QED
    BY <2>1, <2>2, <2>3 DEF SemHeld
<1>8. CASE \/ StopFlag("open", "down") \/ StopJoin("open")
           \/ StopFlag("remove", "unlink") \/ StopJoin("remove")
  <2>1. UNCHANGED <<sem, reinit, ipc, tpc>> /\ OpenHolder' = OpenHolder
    BY <1>8 DEF StopFlag, StopJoin, Step, TypeOK, OpenHolder
  <2> QED
    BY <1>c, <1>t, <2>1, SemKept
<1>9. CASE OpenBegin \/ OpenGeneric \/ Start \/ StartAssign \/ OpenEnd \/ OpenFail
  <2>1. UNCHANGED <<sem, reinit, ipc, tpc>> /\ OpenHolder' = OpenHolder
    BY <1>9 DEF OpenBegin, OpenGeneric, Start, StartAssign, OpenEnd, OpenFail, Step, TypeOK,
       OpenHolder
  <2> QED
    BY <1>c, <1>t, <2>1, SemKept
<1>10. CASE StartDown
  <2>1. UNCHANGED <<ipc, tpc, reinit>> /\ Down /\ OpenHolder' = {"open"} /\ OpenHolder = {}
    BY <1>10 DEF StartDown, Step, TypeOK, OpenHolder
  <2>2. Holders' = Holders \cup {"open"}
    BY <1>c, <1>t, <2>1, HolderParts
  <2> QED
    BY <2>1, <2>2, SemDown DEF TypeOK
<1>11. CASE StartFails /\ pc.open = "run"
  <2>1. UNCHANGED <<ipc, tpc, reinit>> /\ Up /\ OpenHolder = {"open"} /\ OpenHolder' = {}
    BY <1>11 DEF StartFails, Step, TypeOK, OpenHolder
  <2>2. "open" \in Holders /\ Holders' = Holders \ {"open"}
    BY <1>c, <1>t, <2>1, HolderParts, PartsApart
  <2> QED
    BY <2>1, <2>2, SemUp
<1>12. CASE StartFails /\ pc.open # "run"
  <2>1. UNCHANGED <<sem, reinit, ipc, tpc>> /\ OpenHolder' = OpenHolder
    BY <1>12 DEF StartFails, Step, TypeOK, OpenHolder
  <2> QED
    BY <1>c, <1>t, <2>1, SemKept
<1>13. CASE StartRun
  <2>1. /\ UNCHANGED <<sem, reinit, ipc>>
        /\ OpenHolder = {"open"} /\ OpenHolder' = {}
        /\ ThreadHolder = {} /\ ThreadHolder' = {"thread"}
    BY <1>13 DEF StartRun, Step, TypeOK, OpenHolder, ThreadHolder
  <2> SUFFICES ASSUME ~reinit PROVE sem' = 0 /\ Holders' = {"thread"}
    BY <2>1 DEF SemHeld
  <2>2. PICK h : sem = 0 /\ Holders = {h}
    BY <2>1, HolderParts DEF SemHeld
  <2>3. CallHolders = {}
    BY <2>1, <2>2, HolderParts, PartsApart
  <2> QED
    BY <1>c, <2>1, <2>2, <2>3, HolderParts
<1>14. CASE OpenMonitorStep \/ CloseStep
  <2>1. UNCHANGED <<sem, reinit, ipc, tpc, pc>>
    BY <1>14 DEF OpenMonitorStep, CloseStep, OpenMonitor, Close
  <2> QED
    BY <1>c, <1>t, <1>o, <2>1, SemKept
<1>15. CASE Carrier \/ Timeout \/ ClosePut
  <2>1. UNCHANGED <<sem, reinit, ipc, tpc, pc>>
    BY <1>15 DEF Carrier, Timeout, ClosePut
  <2> QED
    BY <1>c, <1>t, <1>o, <2>1, SemKept
<1>16. CASE Remove \/ RemoveDevice \/ RemovePut
  <2>1. UNCHANGED <<sem, reinit, ipc, tpc>> /\ OpenHolder' = OpenHolder
    BY <1>16 DEF Remove, RemoveDevice, RemovePut, Step, TypeOK, OpenHolder
  <2> QED
    BY <1>c, <1>t, <2>1, SemKept
<1>17. CASE CallStep
  <2>1. PICK f \in File : \E cmd \in Command : Call(f, cmd)
    BY <1>17, OtherFiles DEF CallStep, File, Command
  <2>2. Down /\ UNCHANGED <<tpc, pc, reinit>> /\ ipc' = [ipc EXCEPT ![f] = "in"]
    BY <2>1 DEF Call
  <2> QED
    BY <1>4, <2>2
<1> QED
  BY <1>1, <1>2, <1>3, <1>6, <1>7, <1>8, <1>9, <1>10, <1>11, <1>12, <1>13, <1>14, <1>15, <1>16,
     <1>17, NextCases DEF ThreadCase, IoctlCase, StopCase, OpenCase, RestCase
-----------------------------------------------------------------------------
(* Only a request that is still due is for another setting than the former. *)
LEMMA TuningNext ==
  ASSUME TypeOK, OneThread, Tuning, Next
  PROVE  Tuning'
<1> USE DEF Tuning, tuneVars
<1>1. CASE ThreadPass
  <2>1. Passed /\ (state = "RETUNE" /\ wanted' => hw' = "last")
    BY <1>1, PassTyped
  <2> QED
    BY <2>1 DEF Passed
<1>2. CASE \/ ThreadInit \/ ThreadWake \/ ThreadGo \/ ThreadDown \/ ThreadQuit \/ ThreadOff
           \/ ThreadExit
  BY <1>2 DEF ThreadInit, ThreadWake, ThreadGo, ThreadDown, ThreadQuit, ThreadOff, ThreadExit
<1>3. CASE CallStep
  BY <1>3 DEF CallStep, Call
<1>4. ASSUME NEW f \in File, Ioctl(f) PROVE Tuning'
  <2>1. CASE IoctlTune(f) \/ IoctlDiseqc(f) \/ IoctlInversion(f) \/ IoctlTuneMode(f)
    BY <2>1 DEF IoctlTune, IoctlDiseqc, IoctlInversion, IoctlTuneMode
  <2>2. CASE IoctlRead(f) \/ IoctlEvent(f) \/ EventTake(f) \/ EventSignal(f)
    BY <2>2 DEF IoctlRead, IoctlEvent, EventTake, EventSignal
  <2>3. CASE EventUp(f) \/ EventTest(f) \/ EventDown(f)
    BY <2>3 DEF EventUp, EventTest, EventDown, EventVars
  <2> QED
    BY <1>4, <2>1, <2>2, <2>3 DEF Ioctl, IoctlStep
<1>5. CASE StopCase
  BY <1>5 DEF StopCase, StopFlag, StopJoin, StopDone, OneThread
<1>6. CASE StartDown
  BY <1>6 DEF StartDown, Step, OneThread
<1>7. CASE OpenEnd
  BY <1>7 DEF OpenEnd
<1>8. CASE \/ OpenBegin \/ OpenGeneric \/ Start \/ StartFails \/ StartRun \/ StartAssign
           \/ OpenFail
  BY <1>8 DEF OpenBegin, OpenGeneric, Start, StartFails, StartRun, StartAssign, OpenFail
<1>9. CASE OpenMonitorStep \/ CloseStep
  BY <1>9 DEF OpenMonitorStep, CloseStep, OpenMonitor, Close
<1>10. CASE Carrier \/ Timeout \/ ClosePut
  BY <1>10 DEF Carrier, Timeout, ClosePut
<1>11. CASE Remove \/ RemoveDevice \/ RemovePut
  BY <1>11 DEF Remove, RemoveDevice, RemovePut
<1> QED
  BY <1>1, <1>2, <1>3, <1>4, <1>5, <1>6, <1>7, <1>8, <1>9, <1>10, <1>11, NextCases
     DEF ThreadCase, IoctlCase, OpenCase, RestCase

(* The kinds, in parts.                                                     *)
CoreTyped ==
  /\ sem \in Nat /\ exit \in {"no", "normal", "removed"} /\ state \in State
  /\ tpc \in {"none", "init", "wait", "down", "pass", "quit", "off", "exit"}
  /\ pc \in [open : {"idle", "generic", "start", "flag", "join", "joined", "down", "run",
                     "assign", "events", "fail", "lost"},
             remove : {"idle", "flag", "join", "joined", "unlink", "put", "gone", "lost"}]
FilesTyped ==
  /\ file \subseteq File /\ refs \in Nat /\ puts \in Nat
  /\ ipc \in [File -> {"idle", "in", "test", "got", "again", "hold", "taken"}]
  /\ icmd \in [File -> Command \cup {"none"}]
TuneTyped ==
  /\ queued \in 0 .. MaxEvent - 1 /\ scan \in Scan /\ hw \in {"off", "former", "last"}
  /\ algo \in {"HW", "SW"} /\ signal \in [at : Trial, on : BOOLEAN]
  /\ opens \in Nat /\ inputs \in Nat
FlagsTyped ==
  /\ thread \in BOOLEAN /\ stopReq \in BOOLEAN /\ elapsed \in BOOLEAN
  /\ overflow \in BOOLEAN /\ told \in BOOLEAN /\ oneshot \in BOOLEAN /\ status \in BOOLEAN
  /\ wanted \in BOOLEAN /\ orphan \in BOOLEAN /\ reinit \in BOOLEAN /\ overlap \in BOOLEAN

LEMMA TypeParts ==
  /\ TypeOK <=> CoreTyped /\ FilesTyped /\ TuneTyped /\ FlagsTyped
  /\ TypeOK' <=> CoreTyped' /\ FilesTyped' /\ TuneTyped' /\ FlagsTyped'
BY DEF TypeOK, CoreTyped, FilesTyped, TuneTyped, FlagsTyped, State

LEMMA CoreTypedNext ==
  ASSUME TypeOK, Next
  PROVE  CoreTyped'
<1>0. CoreTyped
  BY TypeParts
<1> USE <1>0 DEF CoreTyped, threadVars
<1>1. CASE ThreadPass
  BY <1>1, PassTyped DEF ThreadPass, Thread, Up, Passed
<1>2. CASE \/ ThreadInit \/ ThreadWake \/ ThreadGo \/ ThreadDown \/ ThreadQuit \/ ThreadOff
           \/ ThreadExit
  BY <1>2 DEF ThreadInit, ThreadWake, ThreadGo, ThreadDown, ThreadQuit, ThreadOff, ThreadExit,
              Thread, Up,
     Down
<1>3. CASE CallStep
  BY <1>3 DEF CallStep, Call, Down
<1>4. ASSUME NEW f \in File, Ioctl(f) PROVE CoreTyped'
  <2>1. CASE IoctlTune(f) \/ IoctlDiseqc(f) \/ IoctlInversion(f) \/ IoctlTuneMode(f)
    BY <2>1 DEF IoctlTune, IoctlDiseqc, IoctlInversion, IoctlTuneMode, Return, Up, State
  <2>2. CASE IoctlRead(f) \/ IoctlEvent(f) \/ EventTake(f) \/ EventSignal(f)
    BY <2>2 DEF IoctlRead, IoctlEvent, EventTake, EventSignal, Return, Up
  <2>3. CASE EventUp(f) \/ EventTest(f) \/ EventDown(f)
    BY <2>3 DEF EventUp, EventTest, EventDown, EventVars, Up, Down
  <2> QED
    BY <1>4, <2>1, <2>2, <2>3 DEF Ioctl, IoctlStep
<1>5. CASE StopCase
  BY <1>5 DEF StopCase, StopFlag, StopJoin, StopDone, Step, State
<1>6. CASE OpenBegin \/ OpenGeneric \/ Start \/ OpenEnd \/ OpenFail
  BY <1>6 DEF OpenBegin, OpenGeneric, Start, OpenEnd, OpenFail, Step
<1>7. CASE StartDown \/ StartFails \/ StartRun \/ StartAssign
  BY <1>7 DEF StartDown, StartFails, StartRun, StartAssign, Step, Up, Down, State
<1>8. CASE OpenMonitorStep \/ CloseStep
  BY <1>8 DEF OpenMonitorStep, CloseStep, OpenMonitor, Close
<1>9. CASE Carrier \/ Timeout \/ ClosePut
  BY <1>9 DEF Carrier, Timeout, ClosePut
<1>10. CASE Remove \/ RemoveDevice \/ RemovePut
  BY <1>10 DEF Remove, RemoveDevice, RemovePut, Step
<1> QED
  BY <1>1, <1>2, <1>3, <1>4, <1>5, <1>6, <1>7, <1>8, <1>9, <1>10, NextCases
     DEF ThreadCase, IoctlCase, OpenCase, RestCase

LEMMA FilesTypedNext ==
  ASSUME TypeOK, OneThread, RefsCounted, Next
  PROVE  FilesTyped'
<1>0. FilesTyped /\ refs' \in Nat /\ puts' \in Nat /\ W \in File
  BY TypeParts, RefsCountedNext DEF File
<1> USE <1>0 DEF FilesTyped, fileVars, ioctlVars
<1>1. CASE ThreadCase
  BY <1>1 DEF ThreadCase, ThreadInit, ThreadWake, ThreadGo, ThreadDown, ThreadPass, ThreadQuit,
              ThreadOff,
     ThreadExit
<1>2. CASE CallStep
  BY <1>2, OtherFiles DEF CallStep, Call, Command
<1>3. ASSUME NEW f \in File, Ioctl(f) PROVE FilesTyped'
  <2>1. CASE \/ IoctlRead(f) \/ IoctlTune(f) \/ IoctlDiseqc(f) \/ IoctlInversion(f)
             \/ IoctlTuneMode(f)
             \/ IoctlEvent(f) \/ EventTake(f) \/ EventSignal(f)
    BY <2>1 DEF IoctlRead, IoctlTune, IoctlDiseqc, IoctlInversion, IoctlTuneMode, IoctlEvent,
                EventTake,
       EventSignal, Return
  <2>2. CASE EventUp(f) \/ EventTest(f) \/ EventDown(f)
    BY <2>2 DEF EventUp, EventTest, EventDown, EventVars
  <2> QED
    BY <1>3, <2>1, <2>2 DEF Ioctl, IoctlStep
<1>4. CASE StopCase
  BY <1>4 DEF StopCase, StopFlag, StopJoin, StopDone
<1>5. CASE OpenCase
  BY <1>5 DEF OpenCase, OpenBegin, OpenGeneric, Start, StartDown, StartFails, StartRun,
     StartAssign, OpenEnd, OpenFail
<1>6. CASE OpenMonitorStep \/ CloseStep
  BY <1>6, OtherFiles DEF OpenMonitorStep, CloseStep, OpenMonitor, Close
<1>7. CASE \/ Carrier \/ Timeout \/ ClosePut \/ Remove \/ RemoveDevice \/ RemovePut
  BY <1>7 DEF Carrier, Timeout, ClosePut, Remove, RemoveDevice, RemovePut
<1> QED
  BY <1>1, <1>2, <1>3, <1>4, <1>5, <1>6, <1>7, NextCases DEF IoctlCase, RestCase

(* A request gives a new inversion and a new zigzag.                        *)
LEMMA AskedTyped ==
  ASSUME scan \in Scan, Asked
  PROVE  scan' \in Scan
<1>1. CASE algo = "HW"
  BY <1>1 DEF Asked
<1>2. CASE \E i \in {OFF, ON, AUTO}, z \in Zigzag :
             scan' = [Over(scan) EXCEPT !.cache = i, !.zig = z]
  <2>1. PICK i \in {OFF, ON, AUTO}, z \in Zigzag :
               scan' = [Over(scan) EXCEPT !.cache = i, !.zig = z]
    BY <1>2
  <2>2. z \in [step : Nat, max : Nat] /\ Over(scan) \in Scan
    BY FrontendAssumption, ScanTyped
  <2> QED
    BY <2>1, <2>2 DEF Scan
<1> QED
  BY <1>1, <1>2 DEF Asked

(* A file takes an event only when there is one.                            *)
LEMMA TuneTypedNext ==
  ASSUME TypeOK, CallsKnown, Next
  PROVE  TuneTyped'
<1>0. TuneTyped
  BY TypeParts
<1>1. MaxEvent \in Nat \ {0, 1}
  BY FrontendAssumption
<1> USE <1>0, <1>1 DEF TuneTyped, eventVars, tuneVars, envVars
<1>2. CASE ThreadPass
  BY <1>2, PassTyped DEF ThreadPass, Passed, Reported
<1>3. CASE ThreadInit
  <2>1. [scan EXCEPT !.wrapped = FALSE] \in Scan
    BY DEF Scan
  <2> QED
    BY <1>3, <2>1 DEF ThreadInit
<1>4. CASE ThreadWake \/ ThreadGo \/ ThreadDown \/ ThreadQuit \/ ThreadOff \/ ThreadExit
  BY <1>4 DEF ThreadWake, ThreadGo, ThreadDown, ThreadQuit, ThreadOff, ThreadExit
<1>5. CASE CallStep
  BY <1>5 DEF CallStep, Call, Input
<1>6. ASSUME NEW f \in File, Ioctl(f) PROVE TuneTyped'
  <2>1. CASE IoctlTune(f)
    <3>1. scan' \in Scan
      BY <2>1, AskedTyped DEF IoctlTune
    <3> QED
      BY <2>1, <3>1 DEF IoctlTune, Return
  <2>6. CASE IoctlInversion(f)
    <3>1. scan' \in Scan
      BY <2>6 DEF IoctlInversion, Scan
    <3> QED
      BY <2>6, <3>1 DEF IoctlInversion, Return
  <2>2. CASE IoctlDiseqc(f) \/ IoctlTuneMode(f) \/ IoctlRead(f) \/ EventSignal(f)
    BY <2>2 DEF IoctlDiseqc, IoctlTuneMode, IoctlRead, EventSignal, Return
  <2>3. CASE IoctlEvent(f)
    BY <2>3 DEF IoctlEvent, Return
  <2>4. CASE EventTake(f)
    <3>1. queued > 0
      BY <2>4 DEF EventTake, CallsKnown
    <3> QED
      BY <2>4, <3>1 DEF EventTake, Return
  <2>5. CASE EventUp(f) \/ EventTest(f) \/ EventDown(f)
    BY <2>5 DEF EventUp, EventTest, EventDown, EventVars
  <2> QED
    BY <1>6, <2>1, <2>2, <2>3, <2>4, <2>5, <2>6 DEF Ioctl, IoctlStep
<1>7. CASE StopCase
  BY <1>7 DEF StopCase, StopFlag, StopJoin, StopDone
<1>8. CASE OpenEnd \/ OpenBegin \/ StartFails
  BY <1>8 DEF OpenEnd, OpenBegin, StartFails, Input
<1>9. CASE OpenGeneric \/ Start \/ StartDown \/ StartRun \/ StartAssign \/ OpenFail
  BY <1>9 DEF OpenGeneric, Start, StartDown, StartRun, StartAssign, OpenFail
<1>10. CASE OpenMonitorStep \/ CloseStep
  <2>1. /\ UNCHANGED <<queued, scan, hw, algo, signal, inputs>>
        /\ opens' \in {opens, opens + 1}
    BY <1>10 DEF OpenMonitorStep, CloseStep, OpenMonitor, Close
  <2> QED
    BY <2>1
<1>11. CASE Carrier
  <2>1. [signal EXCEPT !.on = ~@] \in [at : Trial, on : BOOLEAN]
    <3>1. signal.at \in Trial /\ (~signal.on) \in BOOLEAN
      OBVIOUS
    <3> QED
      BY <3>1
  <2> QED
    BY <1>11, <2>1 DEF Carrier, Input
<1>12. CASE \/ Timeout \/ ClosePut \/ Remove \/ RemoveDevice \/ RemovePut
  BY <1>12 DEF Timeout, ClosePut, Remove, RemoveDevice, RemovePut
<1> QED
  BY <1>2, <1>3, <1>4, <1>5, <1>6, <1>7, <1>8, <1>9, <1>10, <1>11, <1>12, NextCases
     DEF ThreadCase, IoctlCase, OpenCase, RestCase

LEMMA FlagsTypedNext ==
  ASSUME TypeOK, Next
  PROVE  FlagsTyped'
<1>0. FlagsTyped
  BY TypeParts
<1> USE <1>0 DEF FlagsTyped, threadVars, fileVars, eventVars, tuneVars, ghostVars
<1>1. CASE ThreadPass
  BY <1>1, PassTyped DEF ThreadPass, Passed, Reported
<1>2. CASE \/ ThreadInit \/ ThreadWake \/ ThreadGo \/ ThreadDown \/ ThreadQuit \/ ThreadOff
           \/ ThreadExit
  <2>1. CASE ThreadInit
    BY <2>1 DEF ThreadInit
  <2>2. CASE ThreadWake \/ ThreadGo \/ ThreadDown \/ ThreadQuit
    BY <2>2 DEF ThreadWake, ThreadGo, ThreadDown, ThreadQuit
  <2>3. CASE ThreadOff
    BY <2>3 DEF ThreadOff
  <2>4. CASE ThreadExit
    BY <2>4 DEF ThreadExit
  <2> QED
    BY <1>2, <2>1, <2>2, <2>3, <2>4
<1>3. CASE CallStep
  BY <1>3 DEF CallStep, Call
<1>4. ASSUME NEW f \in File, Ioctl(f) PROVE FlagsTyped'
  <2>1. CASE IoctlTune(f) \/ IoctlDiseqc(f) \/ IoctlInversion(f) \/ IoctlTuneMode(f)
    <3>1. CASE IoctlTune(f)
      BY <3>1 DEF IoctlTune, Return
    <3>2. CASE IoctlDiseqc(f)
      BY <3>2 DEF IoctlDiseqc, Return
    <3>3. CASE IoctlInversion(f)
      BY <3>3 DEF IoctlInversion, Return
    <3>4. CASE IoctlTuneMode(f)
      BY <3>4 DEF IoctlTuneMode, Return
    <3> QED
      BY <2>1, <3>1, <3>2, <3>3, <3>4
  <2>2. CASE IoctlRead(f) \/ IoctlEvent(f) \/ EventTake(f) \/ EventSignal(f)
    <3>1. CASE IoctlRead(f)
      BY <3>1 DEF IoctlRead, Return
    <3>2. CASE IoctlEvent(f)
      BY <3>2 DEF IoctlEvent, Return
    <3>3. CASE EventTake(f)
      BY <3>3 DEF EventTake, Return
    <3>4. CASE EventSignal(f)
      BY <3>4 DEF EventSignal, Return
    <3> QED
      BY <2>2, <3>1, <3>2, <3>3, <3>4
  <2>3. CASE EventUp(f) \/ EventTest(f) \/ EventDown(f)
    BY <2>3 DEF EventUp, EventTest, EventDown, EventVars
  <2> QED
    BY <1>4, <2>1, <2>2, <2>3 DEF Ioctl, IoctlStep
<1>5. CASE StopCase
  <2>1. CASE StopFlag("open", "down")
    BY <2>1 DEF StopFlag
  <2>2. CASE StopJoin("open")
    BY <2>2 DEF StopJoin
  <2>3. CASE StopDone("open", "down")
    BY <2>3 DEF StopDone
  <2>4. CASE StopFlag("remove", "unlink")
    BY <2>4 DEF StopFlag
  <2>5. CASE StopJoin("remove")
    BY <2>5 DEF StopJoin
  <2>6. CASE StopDone("remove", "unlink")
    BY <2>6 DEF StopDone
  <2> QED
    BY <1>5, <2>1, <2>2, <2>3, <2>4, <2>5, <2>6 DEF StopCase
<1>6. CASE OpenBegin \/ OpenGeneric \/ Start \/ OpenEnd \/ OpenFail
  <2>1. CASE OpenBegin
    BY <2>1 DEF OpenBegin
  <2>2. CASE OpenGeneric
    BY <2>2 DEF OpenGeneric
  <2>3. CASE Start
    BY <2>3 DEF Start
  <2>4. CASE OpenEnd
    BY <2>4 DEF OpenEnd
  <2>5. CASE OpenFail
    BY <2>5 DEF OpenFail
  <2> QED
    BY <1>6, <2>1, <2>2, <2>3, <2>4, <2>5
<1>7. CASE StartDown \/ StartFails \/ StartRun \/ StartAssign
  <2>1. CASE StartDown
    BY <2>1 DEF StartDown
  <2>2. CASE StartFails
    BY <2>2 DEF StartFails
  <2>3. CASE StartRun
    BY <2>3 DEF StartRun
  <2>4. CASE StartAssign
    BY <2>4 DEF StartAssign
  <2> QED
    BY <1>7, <2>1, <2>2, <2>3, <2>4
<1>8. CASE OpenMonitorStep \/ CloseStep
  <2>1. CASE OpenMonitorStep
    BY <2>1 DEF OpenMonitorStep, OpenMonitor
  <2>2. CASE CloseStep
    BY <2>2 DEF CloseStep, Close
  <2> QED
    BY <1>8, <2>1, <2>2
<1>9. CASE Carrier \/ Timeout \/ ClosePut
  <2>1. CASE Carrier
    BY <2>1 DEF Carrier
  <2>2. CASE Timeout
    BY <2>2 DEF Timeout
  <2>3. CASE ClosePut
    BY <2>3 DEF ClosePut
  <2> QED
    BY <1>9, <2>1, <2>2, <2>3
<1>10. CASE Remove \/ RemoveDevice \/ RemovePut
  BY <1>10 DEF Remove, RemoveDevice, RemovePut
<1> QED
  BY <1>1, <1>2, <1>3, <1>4, <1>5, <1>6, <1>7, <1>8, <1>9, <1>10, NextCases
     DEF ThreadCase, IoctlCase, OpenCase, RestCase

LEMMA TypeNext ==
  ASSUME TypeOK, OneThread, RefsCounted, CallsKnown, Next
  PROVE  TypeOK'
BY CoreTypedNext, FilesTypedNext, TuneTypedNext, FlagsTypedNext, TypeParts
-----------------------------------------------------------------------------
(* A frontend that was registered and never opened.                         *)
LEMMA IInvInit == Init => IInv
<1> SUFFICES ASSUME Init PROVE IInv
  OBVIOUS
<1> USE DEF Init
<1>1. TypeOK
  <2>1. 0 \in AutoStep
    BY FrontendAssumption DEF AutoStep
  <2>2. <<0, 0>> \in Trial /\ <<0, OFF>> \in Trial
    BY DEF Trial, OFF
  <2>3. scan \in Scan
    BY <2>1, <2>2 DEF Scan
  <2>4. signal \in [at : Trial, on : BOOLEAN]
    BY <2>2, WhereAssumption DEF Trial
  <2>5. TuneTyped
    BY <2>3, <2>4, FrontendAssumption DEF TuneTyped
  <2>6. CoreTyped /\ FilesTyped /\ FlagsTyped
    BY DEF CoreTyped, FilesTyped, FlagsTyped, State, Command
  <2> QED
    BY <2>5, <2>6, TypeParts
<1>2. OneThread /\ ThreadKnown /\ RemovedAlone /\ CallsKnown /\ Tuning
  BY DEF OneThread, ThreadKnown, Registered, RemovedAlone, CallsKnown, Tuning, File
<1>3. RefsCounted
  BY FS_EmptySet DEF RefsCounted
<1>4. SemHeld
  BY DEF SemHeld, Holders
<1> QED
  BY <1>1, <1>2, <1>3, <1>4 DEF IInv

LEMMA IInvNext == IInv /\ [Next]_vars => IInv'
<1> SUFFICES ASSUME IInv, [Next]_vars PROVE IInv'
  OBVIOUS
<1>1. CASE Next
  BY <1>1, OneThreadNext, ThreadKnownNext, RemovedAloneNext, RefsCountedNext, CallsKnownNext,
     SemHeldNext, TuningNext, TypeNext DEF IInv
<1>2. CASE UNCHANGED vars
  <2> USE <1>2 DEF vars, threadVars, fileVars, ioctlVars, eventVars, tuneVars, envVars, ghostVars
  <2>1. TypeOK'
    BY DEF IInv, TypeOK
  <2>2. OneThread' /\ ThreadKnown' /\ RemovedAlone' /\ RefsCounted'
    BY DEF IInv, OneThread, ThreadKnown, Ready, Registered, RemovedAlone, RefsCounted
  <2>3. CallsKnown' /\ Tuning'
    BY DEF IInv, CallsKnown, Tuning
  <2>4. SemHeld'
    BY DEF IInv, SemHeld, Holders
  <2> QED
    BY <2>1, <2>2, <2>3, <2>4 DEF IInv
<1> QED
  BY <1>1, <1>2

(* Every reachable state has the invariant.                                 *)
THEOREM FrontendInvariant == Spec => []IInv
  BY IInvInit, IInvNext, PTL DEF Spec

(* The variables of the frontend have values of their kinds: auto_step      *)
(* stays within its range and the queue of events within MAX_EVENT.         *)
THEOREM FrontendWellTyped == Spec => []TypeOK
<1>1. IInv => TypeOK
  BY DEF IInv
<1> QED
  BY <1>1, FrontendInvariant, PTL

(* fepriv->sem: at any time one of thread, ioctls and dvb_frontend_start    *)
(* works on the frontend or the semaphore is free, as long as               *)
(* dvb_frontend_stop has not initialised it in use.                         *)
THEOREM SemaphoreExcludes == Spec => []SemExclusive
<1>1. IInv => SemExclusive
  <2> SUFFICES ASSUME SemHeld, ~reinit PROVE Cardinality(Holders) + sem = 1
    BY DEF IInv, SemExclusive
  <2>1. CASE sem = 1 /\ Holders = {}
    BY <2>1, FS_EmptySet
  <2>2. CASE sem = 0 /\ \E h : Holders = {h}
    <3>1. PICK h : Holders = {h}
      BY <2>2
    <3>2. Cardinality(Holders) = 1
      BY <3>1, FS_Singleton
    <3> QED
      BY <2>2, <3>2
  <2> QED
    BY <2>1, <2>2 DEF SemHeld
<1> QED
  BY <1>1, FrontendInvariant, PTL

(* dvb_frontend_open, dvb_frontend_thread, dvb_unregister_frontend: the     *)
(* writer has a thread that stays, and the last reference goes after the    *)
(* thread and the files, for any number of files.                           *)
THEOREM ThreadLives == Spec => []ThreadLifetime
<1>1. IInv => OpenHasThread
  BY DEF IInv, ThreadKnown, Registered, Ready, OpenHasThread, Ending
<1>2. IInv => FreedUnused
  <2> SUFFICES ASSUME IInv, refs = 0, ~overlap
               PROVE  tpc = "none" /\ file = {} /\ pc.open = "idle"
    BY DEF FreedUnused
  <2>1. IsFiniteSet(file) /\ Cardinality(file) \in Nat /\ puts \in Nat
    BY FileFinite DEF IInv, TypeOK
  <2>2. Cardinality(file) = 0 /\ pc.remove = "gone"
    BY <2>1 DEF IInv, RefsCounted
  <2> QED
    BY <2>1, <2>2, FS_EmptySet DEF IInv, RemovedAlone, Registered
<1> QED
  BY <1>1, <1>2, FrontendInvariant, PTL DEF ThreadLifetime

(* dvb_frontend_ioctl_legacy: FE_READ_STATUS does not return the lock of a  *)
(* former tuning, for any zigzag and any carrier.                           *)
THEOREM StatusOfLastTuning == Spec => []StatusFresh
<1>1. IInv => StatusFresh
  BY DEF IInv, TypeOK, Tuning, StatusFresh, ReadsLock, Locked
<1> QED
  BY <1>1, FrontendInvariant, PTL

-----------------------------------------------------------------------------
(* The software zigzag tries everything.                                    *)

(* Drift d was tried as it was asked for, or with the inversion of now.     *)
Want(z, d) == /\ \E i \in {OFF, ON} : <<d, i>> \in z.tried
              /\ \A v \in z.asked : <<d, v>> \in z.tried
Last(z, d) == /\ \E i \in {OFF, ON} : <<d, i>> \in z.tried
              /\ z.asked # {} => <<d, Fixed(z, z.inv)>> \in z.tried
Both(z, j) == Want(z, Drift(z, j)) /\ Want(z, -Drift(z, j))

(* All before the next setting was tried.                                   *)
Reached(z) ==
  /\ Drift(z, z.step) <= z.zig.max
  /\ z.asked \in {{}, Inversions(z)}
  /\ \A j \in AutoStep : j < z.step => Both(z, j)
  /\ z.sub = 1 => Last(z, Drift(z, z.step))
  /\ z.sub >= 2 => Want(z, Drift(z, z.step))
  /\ z.sub = 3 => Last(z, -Drift(z, z.step))
  /\ z.sub = 4 => Want(z, -Drift(z, z.step))

Covers(z) == \A d \in Drifts(z) : Want(z, d)

(* A fast scan that began with a request has left out nothing.              *)
Scanning ==
  /\ state \in {"TUNING_FAST", "ZIGZAG_FAST"} /\ scan.full =>
       scan.began = 0 /\ scan.sub >= 1 /\ Reached(scan)
  /\ state = "SLOW" /\ scan.full => Covers(scan)

(* Only these fields of the scan matter.                                    *)
LEMMA LikeScan ==
  ASSUME Scanning, state' = state,
         scan'.full = scan.full, scan'.began = scan.began, scan'.sub = scan.sub,
         scan'.step = scan.step, scan'.inv = scan.inv, scan'.cache = scan.cache,
         scan'.zig = scan.zig, scan'.asked = scan.asked, scan'.tried = scan.tried
  PROVE  Scanning'
<1>1. Reached(scan) => Reached(scan)'
  BY DEF Reached, Both, Want, Last, Drift, Inversions, Fixed
<1>2. Covers(scan) => Covers(scan)'
  BY DEF Covers, Want, Drifts, Drift
<1> QED
  BY <1>1, <1>2 DEF Scanning

LEMMA SameScan == ASSUME Scanning, UNCHANGED <<state, scan>> PROVE Scanning'
BY LikeScan

(* A larger drift is a later step.                                          *)
LEMMA DriftGrows ==
  ASSUME NEW z \in Scan, NEW j \in Nat, NEW k \in Nat, Drift(z, j) < Drift(z, k)
  PROVE  j < k
<1> DEFINE size == z.zig.step
<1>1. size \in Nat
  BY DEF Scan
<1>2. ASSUME k <= j PROVE FALSE
  <2>1. PICK d \in Nat : j = k + d
    <3>1. j - k \in Nat /\ j = k + (j - k)
      BY <1>2
    <3> QED
      BY <3>1
  <2>2. Drift(z, j) = j * size /\ Drift(z, k) = k * size
    BY DEF Drift
  <2> HIDE DEF size
  <2>3. j * size = k * size + d * size
    BY <1>1, <2>1
  <2>4. d * size \in Nat /\ k * size \in Nat
    BY <1>1
  <2> QED
    BY <2>2, <2>3, <2>4
<1> QED
  BY <1>2

(* The next setting is the first of this step that is not skipped, or the   *)
(* first of the next step.                                                  *)
LEMMA PositionCases ==
  ASSUME NEW z \in Scan, Drift(z, z.step) <= z.zig.max
  PROVE  \/ \E t \in z.sub .. 3 : /\ ~Skipped(z, z.step, t) /\ Position(z) = <<z.step, t>>
                                  /\ \A u \in z.sub .. 3 : u < t => Skipped(z, z.step, u)
         \/ /\ \A u \in z.sub .. 3 : Skipped(z, z.step, u)
            /\ Position(z) = <<Wrap(z, (z.step + 1) % StepRange), 0>>
<1> DEFINE S == {t \in z.sub .. 3 : ~Skipped(z, z.step, t)}
<1>1. z.sub \in 0 .. 4 /\ z.step \in Nat /\ z.zig.max \in Nat
  BY DEF Scan, AutoStep
<1>2. Wrap(z, z.step) = z.step
  BY <1>1, DriftNat DEF Wrap
<1>3. Position(z) = IF S # {} THEN <<z.step, CHOOSE t \in S : \A u \in S : t <= u>>
                    ELSE <<Wrap(z, (z.step + 1) % StepRange), 0>>
  BY <1>2 DEF Position
<1>4. CASE S # {}
  <2> DEFINE t == CHOOSE t \in S : \A u \in S : t <= u
  <2>1. S \subseteq 0 .. 3
    BY <1>1
  <2>2. t \in S /\ \A u \in S : t <= u
    <3> HIDE DEF S
    <3> QED
      BY <1>4, <2>1, LeastSub
  <2>3. Position(z) = <<z.step, t>>
    BY <1>3, <1>4
  <2> HIDE DEF t
  <2>4. t \in z.sub .. 3 /\ ~Skipped(z, z.step, t)
    BY <2>2
  <2>5. \A u \in z.sub .. 3 : u < t => Skipped(z, z.step, u)
    BY <1>1, <2>2, <2>4
  <2> QED
    BY <2>3, <2>4, <2>5
<1>5. CASE S = {}
  BY <1>3, <1>5
<1> QED
  BY <1>4, <1>5

(* A setting is tried.                                                      *)
LEMMA TriedFields ==
  ASSUME NEW z \in Scan, z.full
  PROVE  /\ Tried(z).step = Setting(z).at[1] /\ Tried(z).sub = Setting(z).at[2] + 1
         /\ Tried(z).inv = Setting(z).inv
         /\ Tried(z).tried = z.tried \cup {Setting(z).trial}
         /\ Tried(z).began = z.began /\ Tried(z).full
         /\ Tried(z).cache = z.cache /\ Tried(z).zig = z.zig /\ Tried(z).asked = z.asked
BY DEF Tried, Scan

(* What was tried stays tried.                                              *)
LEMMA TriedKeeps ==
  ASSUME NEW z \in Scan, z.full
  PROVE  /\ \A k : Drift(Tried(z), k) = Drift(z, k)
         /\ Drifts(Tried(z)) = Drifts(z) /\ Inversions(Tried(z)) = Inversions(z)
         /\ \A d : Want(z, d) => Want(Tried(z), d)
<1> DEFINE n == Tried(z)
<1>1. n.zig = z.zig /\ n.cache = z.cache /\ n.asked = z.asked /\ z.tried \subseteq n.tried
  BY TriedFields
<1> HIDE DEF n
<1>2. \A k : Drift(n, k) = Drift(z, k)
  BY <1>1 DEF Drift
<1>3. Drifts(n) = Drifts(z) /\ Inversions(n) = Inversions(z)
  BY <1>1, <1>2 DEF Drifts, Inversions
<1>4. \A d : Want(z, d) => Want(n, d)
  BY <1>1 DEF Want
<1> QED
  BY <1>2, <1>3, <1>4 DEF n

(* With one inversion to try, the last one is all.                          *)
LEMMA LastWanted ==
  ASSUME NEW z, NEW d, z.asked \in {{}, Inversions(z)}, z.cache # AUTO, Last(z, d)
  PROVE  Want(z, d)
BY DEF Last, Want, Inversions, Fixed

LEMMA NoSign == \A e \in Int : e = 0 => -e = e
<1>1. \A e \in Int : -e = 0 - e
  OBVIOUS
<1>2. \A e, f \in Int : f = 0 - e /\ e = 0 => f = e
  OBVIOUS
<1>3. \A e \in Int : -e \in Int
  OBVIOUS
<1> QED
  BY <1>1, <1>2, <1>3, Zenon

(* The next step begins when both drifts of this one were tried.            *)
LEMMA StepOver ==
  ASSUME NEW z \in Scan, Reached(z), \A u \in z.sub .. 3 : Skipped(z, z.step, u)
  PROVE  \A j \in AutoStep : j <= z.step => Both(z, j)
<1> DEFINE d == Drift(z, z.step)
<1>1. z.step \in AutoStep /\ z.sub \in {0, 1, 2, 3, 4} /\ d \in Nat
  BY DriftNat DEF Scan, AutoStep
<1>2. Want(z, d) /\ Want(z, -d)
  <2>1. CASE z.sub = 0
    <3>1. 0 \in z.sub .. 3
      BY <2>1
    <3> QED
      BY <3>1 DEF Skipped
  <2>2. CASE z.sub = 1
    <3>1. 1 \in z.sub .. 3 /\ 2 \in z.sub .. 3
      BY <2>2
    <3>2. z.cache # AUTO /\ d = 0
      BY <3>1 DEF Skipped
    <3>3. -d = d
      <4> HIDE DEF d
      <4>1. d \in Int
        BY <1>1
      <4> QED
        BY <4>1, <3>2, NoSign
    <3>4. Want(z, d)
      BY <2>2, <3>2, LastWanted DEF Reached
    <3> QED
      BY <3>3, <3>4
  <2>3. CASE z.sub = 2
    <3>1. 2 \in z.sub .. 3
      BY <2>3
    <3>2. d = 0
      BY <3>1 DEF Skipped
    <3>3. -d = d
      <4> HIDE DEF d
      <4>1. d \in Int
        BY <1>1
      <4> QED
        BY <4>1, <3>2, NoSign
    <3> QED
      BY <2>3, <3>3 DEF Reached
  <2>4. CASE z.sub = 3
    <3>1. 3 \in z.sub .. 3
      BY <2>4
    <3>2. Want(z, d) /\ Last(z, -d)
      BY <2>4 DEF Reached
    <3>3. CASE d = 0
      BY <3>2, <3>3
    <3>4. CASE z.cache # AUTO
      BY <3>2, <3>4, LastWanted DEF Reached
    <3> QED
      BY <3>1, <3>3, <3>4 DEF Skipped
  <2>5. CASE z.sub = 4
    BY <2>5 DEF Reached
  <2> QED
    BY <1>1, <2>1, <2>2, <2>3, <2>4, <2>5
<1>3. \A j \in AutoStep : j < z.step \/ j = z.step \/ ~(j <= z.step)
  BY <1>1 DEF AutoStep
<1> QED
  BY <1>2, <1>3 DEF Reached, Both

(* Each setting is the next.                                                *)
LEMMA TriedReaches ==
  ASSUME NEW z \in Scan, z.full, Reached(z)
  PROVE  Tried(z).sub >= 1 /\ Reached(Tried(z))
<1> DEFINE k == z.step  i == z.inv  p == Position(z)  n == Tried(z)  D(j) == Drift(z, j)
<1> SUFFICES n.sub >= 1 /\ Reached(n)
  OBVIOUS
<1>1. /\ k \in AutoStep /\ k \in Nat /\ D(k) <= z.zig.max
      /\ z.sub \in {0, 1, 2, 3, 4} /\ i \in {OFF, ON}
  BY DEF Scan, AutoStep, Reached
<1> DEFINE w == IF p[2] \in {1, 3} THEN 1 - i ELSE i
           x == <<IF p[2] \in {2, 3} THEN -D(p[1]) ELSE D(p[1]), Fixed(z, w)>>
<1>2. /\ n.step = p[1] /\ n.sub = p[2] + 1 /\ n.inv = w /\ n.tried = z.tried \cup {x}
      /\ n.asked = z.asked /\ n.cache = z.cache /\ n.zig = z.zig
  BY TriedFields DEF Setting
<1>3. /\ \A j : Drift(n, j) = D(j)
      /\ \A d : Want(z, d) => Want(n, d)
      /\ Inversions(n) = Inversions(z)
  BY TriedKeeps
<1>4. n.asked \in {{}, Inversions(n)} /\ \A j : Both(z, j) => Both(n, j)
  BY <1>2, <1>3 DEF Reached, Both
<1>5. Fixed(n, w) = Fixed(z, w) /\ Fixed(z, w) \in {OFF, ON} /\ w \in {OFF, ON}
  <2>1. w \in {OFF, ON}
    BY <1>1 DEF OFF, ON
  <2> HIDE DEF w
  <2> QED
    BY <1>2, <2>1 DEF Fixed, Scan
<1> HIDE DEF n
<1>6. ASSUME NEW d, x = <<d, Fixed(z, w)>> PROVE Last(n, d)
  BY <1>2, <1>5, <1>6 DEF Last
<1>7. ASSUME NEW t \in z.sub .. 3, ~Skipped(z, k, t), p = <<k, t>>,
             \A u \in z.sub .. 3 : u < t => Skipped(z, k, u)
      PROVE  n.sub >= 1 /\ Reached(n)
  <2>1. n.step = k /\ n.sub = t + 1 /\ t \in {0, 1, 2, 3}
    BY <1>1, <1>2, <1>7
  <2>2. \A j \in AutoStep : j < k => Both(n, j)
    BY <1>4 DEF Reached
  <2>3. 0 \in z.sub .. 3 => t = 0
    BY <1>7, <2>1 DEF Skipped
  <2>4. CASE t = 0
    <3>1. Last(n, D(k))
      <4>1. x = <<D(k), Fixed(z, w)>>
        BY <1>7, <2>4
      <4> QED
        BY <4>1, <1>6
    <3> HIDE DEF x, w
    <3> QED
      BY <1>1, <1>2, <1>3, <1>4, <2>1, <2>2, <2>4, <3>1 DEF Reached
  <2>5. CASE t = 1
    <3>1. z.sub = 1 /\ z.cache = AUTO
      BY <1>1, <1>7, <2>3, <2>5 DEF Skipped
    <3>2. x = <<D(k), 1 - i>>
      BY <1>7, <2>5, <3>1 DEF Fixed
    <3>3. Last(z, D(k)) /\ z.asked \in {{}, {OFF, ON}}
      BY <3>1 DEF Reached, Inversions
    <3>4. Want(n, D(k))
      <4>1. z.asked # {} => <<D(k), i>> \in z.tried
        BY <3>1, <3>3 DEF Last, Fixed
      <4>2. 1 - i \in {OFF, ON} /\ {OFF, ON} = {i, 1 - i}
        BY <1>1 DEF OFF, ON
      <4> HIDE DEF x, w
      <4> QED
        BY <1>2, <3>2, <3>3, <4>1, <4>2 DEF Want
    <3> HIDE DEF x, w
    <3> QED
      BY <1>1, <1>2, <1>3, <1>4, <2>1, <2>2, <2>5, <3>4 DEF Reached
  <2>6. CASE t = 2
    <3>1. Want(z, D(k))
      <4>1. CASE z.sub = 1
        <5>1. z.cache # AUTO
          BY <1>7, <2>6, <4>1 DEF Skipped
        <5> QED
          BY <4>1, <5>1, LastWanted DEF Reached
      <4>2. CASE z.sub = 2
        BY <4>2 DEF Reached
      <4> QED
        BY <1>1, <2>3, <2>6, <4>1, <4>2
    <3>2. Last(n, -D(k))
      <4>1. x = <<-D(k), Fixed(z, w)>>
        BY <1>7, <2>6
      <4> QED
        BY <4>1, <1>6
    <3>3. Want(n, D(k))
      BY <1>3, <3>1
    <3> HIDE DEF x, w
    <3> QED
      BY <1>1, <1>2, <1>3, <1>4, <2>1, <2>2, <2>6, <3>2, <3>3 DEF Reached
  <2>7. CASE t = 3
    <3>1. z.cache = AUTO /\ D(k) # 0
      BY <1>7, <2>7 DEF Skipped
    <3>2. z.sub = 3
      <4>1. ~Skipped(z, k, 2)
        BY <3>1 DEF Skipped
      <4>2. 2 \notin z.sub .. 3
        BY <1>7, <2>7, <4>1
      <4> QED
        BY <1>1, <1>7, <2>7, <4>2
    <3>3. x = <<-D(k), 1 - i>>
      BY <1>7, <2>7, <3>1 DEF Fixed
    <3>4. Last(z, -D(k)) /\ Want(n, D(k)) /\ z.asked \in {{}, {OFF, ON}}
      BY <1>3, <3>1, <3>2 DEF Reached, Inversions
    <3>5. Want(n, -D(k))
      <4>1. z.asked # {} => <<-D(k), i>> \in z.tried
        BY <3>1, <3>4 DEF Last, Fixed
      <4>2. 1 - i \in {OFF, ON} /\ {OFF, ON} = {i, 1 - i}
        BY <1>1 DEF OFF, ON
      <4> HIDE DEF x, w
      <4> QED
        BY <1>2, <3>3, <3>4, <4>1, <4>2 DEF Want
    <3> HIDE DEF x, w
    <3> QED
      BY <1>1, <1>2, <1>3, <1>4, <2>1, <2>2, <2>7, <3>4, <3>5 DEF Reached
  <2> QED
    BY <2>1, <2>4, <2>5, <2>6, <2>7
<1>8. ASSUME \A u \in z.sub .. 3 : Skipped(z, k, u), p = <<Wrap(z, (k + 1) % StepRange), 0>>
      PROVE  n.sub >= 1 /\ Reached(n)
  <2> DEFINE m == Wrap(z, (k + 1) % StepRange)
  <2>1. m \in AutoStep /\ m <= k + 1 /\ D(m) <= z.zig.max
    <3> DEFINE e == (k + 1) % StepRange
    <3>1. e \in AutoStep /\ e <= k + 1
      BY <1>1, FrontendAssumption DEF AutoStep
    <3> HIDE DEF e
    <3>2. z.zig.max \in Nat /\ z.zig.step \in Nat
      BY DEF Scan
    <3>3. D(0) = 0 /\ D(e) \in Nat
      BY <3>1, <3>2, DriftNat DEF Drift, AutoStep
    <3>4. CASE D(e) > z.zig.max
      BY <1>1, <3>2, <3>3, <3>4, FrontendAssumption DEF Wrap, AutoStep, e
    <3>5. CASE ~(D(e) > z.zig.max)
      BY <3>1, <3>2, <3>3, <3>5 DEF Wrap, e
    <3> QED
      BY <3>4, <3>5
  <2>2. n.step = m /\ n.sub = 1 /\ Last(n, D(m))
    <3>1. x = <<D(m), Fixed(z, w)>>
      BY <1>8
    <3> QED
      BY <1>2, <1>6, <1>8, <3>1
  <2> HIDE DEF m, x, w
  <2>3. \A j \in AutoStep : j < m => j <= k
    BY <1>1, <2>1 DEF AutoStep
  <2>4. \A j \in AutoStep : j < m => Both(n, j)
    BY <1>4, <1>8, <2>3, StepOver
  <2> QED
    BY <1>2, <1>3, <1>4, <2>1, <2>2, <2>4 DEF Reached
<1> QED
  BY <1>1, <1>7, <1>8, PositionCases

(* When the fast scan comes back to where it began it has tried all.        *)
LEMMA CompleteTried ==
  ASSUME NEW z \in Scan, z.began = 0, z.sub >= 1, Reached(z), Complete(z)
  PROVE  Covers(z)
<1>1. /\ z.step \in AutoStep /\ z.step \in Nat /\ z.sub \in 0 .. 4 /\ z.zig.max \in Nat
      /\ Drift(z, z.step) <= z.zig.max
  BY DEF Scan, AutoStep, Reached
<1>2. Position(z) = <<0, 0>>
  BY DEF Complete, Setting
<1>3. /\ \A u \in z.sub .. 3 : Skipped(z, z.step, u)
      /\ Wrap(z, (z.step + 1) % StepRange) = 0
  BY <1>1, <1>2, PositionCases
<1>4. ASSUME NEW j \in AutoStep, Drift(z, j) <= z.zig.max PROVE j <= z.step
  <2>1. CASE z.step + 1 = StepRange
    BY <1>1, <2>1 DEF AutoStep
  <2>2. CASE z.step + 1 # StepRange
    <3>1. (z.step + 1) % StepRange = z.step + 1
      BY <1>1, <2>2, FrontendAssumption DEF AutoStep
    <3>2. Drift(z, z.step + 1) > z.zig.max
      BY <1>1, <1>3, <3>1 DEF Wrap
    <3>3. j \in Nat /\ Drift(z, j) \in Nat /\ Drift(z, z.step + 1) \in Nat
      BY <1>1, DriftNat DEF AutoStep
    <3>4. Drift(z, j) < Drift(z, z.step + 1)
      BY <1>1, <1>4, <3>2, <3>3
    <3>5. j < z.step + 1
      BY <1>1, <3>3, <3>4, DriftGrows
    <3> QED
      BY <1>1, <3>3, <3>5
  <2> QED
    BY <2>1, <2>2
<1>5. \A j \in AutoStep : Drift(z, j) <= z.zig.max => Both(z, j)
  BY <1>3, <1>4, StepOver
<1>6. ASSUME NEW d \in Drifts(z) PROVE Want(z, d)
  <2>1. PICK j \in AutoStep : d \in {Drift(z, j), -Drift(z, j)}
    BY DEF Drifts
  <2>2. d \in -z.zig.max .. z.zig.max /\ Drift(z, j) \in Nat
    BY DriftNat DEF Drifts, AutoStep
  <2>3. Drift(z, j) <= z.zig.max
    BY <1>1, <2>1, <2>2
  <2> QED
    BY <1>5, <2>1, <2>3 DEF Both
<1> QED
  BY <1>6 DEF Covers

(* A try goes on with the scan, or the request is given up.                 *)
LEMMA TryScans ==
  ASSUME NEW z \in Scan, NEW to \in {"TUNING_FAST", "ZIGZAG_FAST", "SLOW"}, Try(z, to),
         z.full /\ to # "SLOW" => z.began = 0 /\ Reached(z),
         z.full /\ to = "SLOW" => Covers(z)
  PROVE  Scanning'
<1>1. CASE SetFails
  BY <1>1 DEF SetFails, Scanning
<1>2. CASE scan' = Tried(z) /\ state' = to
  <2>1. CASE ~z.full
    BY <1>2, <2>1 DEF Tried, Scan, Scanning
  <2>2. CASE z.full /\ to = "SLOW"
    <3>1. Covers(Tried(z))
      BY <2>2, TriedKeeps DEF Covers
    <3>2. Covers(scan)'
      BY <1>2, <3>1 DEF Covers, Want, Drifts, Drift
    <3> QED
      BY <1>2, <2>2, <3>2 DEF Scanning
  <2>3. CASE z.full /\ to # "SLOW"
    <3>1. Tried(z).sub >= 1 /\ Reached(Tried(z))
      BY <2>3, TriedReaches
    <3>2. Tried(z).began = 0
      BY <2>3, TriedFields
    <3>3. Reached(scan)'
      BY <1>2, <3>1 DEF Reached, Both, Want, Last, Drift, Inversions, Fixed
    <3> QED
      BY <1>2, <2>3, <3>1, <3>2, <3>3 DEF Scanning
  <2> QED
    BY <2>1, <2>2, <2>3
<1> QED
  BY <1>1, <1>2 DEF Try

(* A fast scan that is complete becomes a slow one.                         *)
LEMMA SearchScans ==
  ASSUME TypeOK, Scanning, NEW z \in Scan, NEW from \in State, Search(z, from),
         z.full => z = scan /\ from = state,
         from = "RETUNE" => state = from, state' \in State
  PROVE  Scanning'
<1> DEFINE new == IF from = "RETUNE" THEN Fresh(z) ELSE z
<1>1. new \in Scan
  BY ScanTyped
<1>2. CASE from = "RETUNE"
  <2>1. /\ new.began = 0 /\ new.full /\ new.step = 0 /\ new.sub = 0
        /\ new.asked = Inversions(z) /\ new.cache = z.cache
    BY <1>2 DEF Fresh, Scan
  <2>2. Reached(new)
    <3>1. new.zig.max \in Nat /\ new.zig.step \in Nat
      BY <1>1 DEF Scan
    <3>2. Drift(new, new.step) <= new.zig.max
      BY <2>1, <3>1 DEF Drift
    <3>3. Inversions(new) = Inversions(z)
      BY <2>1 DEF Inversions
    <3> HIDE DEF new
    <3> QED
      BY <2>1, <3>2, <3>3 DEF Reached, AutoStep
  <2>3. Try(new, "TUNING_FAST")
    BY <1>2 DEF Search, Complete, Fresh, Scan
  <2> HIDE DEF new
  <2> QED
    BY <1>1, <2>1, <2>2, <2>3, TryScans
<1>3. CASE from \in {"TUNING_FAST", "ZIGZAG_FAST"}
  <2>1. z.full => z.began = 0 /\ z.sub >= 1 /\ Reached(z)
    BY <1>3 DEF Scanning
  <2>2. CASE Complete(z)
    <3>1. state' = "SLOW" /\ scan' = [Arrived(z) EXCEPT !.began = Setting(z).at[1]]
      BY <1>3, <2>2 DEF Search
    <3>2. /\ scan'.full = z.full /\ scan'.tried = z.tried /\ scan'.asked = z.asked
          /\ scan'.zig = z.zig
      BY <3>1 DEF Arrived, Scan
    <3>3. z.full => Covers(z)
      BY <2>1, <2>2, CompleteTried
    <3>4. Covers(z) => Covers(scan)'
      BY <3>2 DEF Covers, Want, Drifts, Drift
    <3> QED
      BY <3>1, <3>2, <3>3, <3>4 DEF Scanning
  <2>3. CASE ~Complete(z)
    <3>1. Try(z, from)
      BY <1>3, <2>3 DEF Search
    <3> QED
      BY <1>3, <2>1, <3>1, TryScans
  <2> QED
    BY <2>2, <2>3
<1>4. CASE from = "SLOW"
  <2>1. Try(z, "SLOW") /\ (z.full => Covers(z))
    BY <1>4 DEF Search, Scanning
  <2> QED
    BY <2>1, TryScans
<1>5. CASE from \notin {"RETUNE", "TUNING_FAST", "ZIGZAG_FAST", "SLOW"}
  <2>1. UNCHANGED <<state, scan>>
    BY <1>5 DEF Search, Nothing
  <2> QED
    BY <2>1, SameScan
<1> QED
  BY <1>2, <1>3, <1>4, <1>5

(* Whatever a pass does.                                                    *)
LEMMA PassScans ==
  ASSUME TypeOK, Scanning, ThreadPass
  PROVE  Scanning'
<1>1. state \in State /\ state' \in State /\ scan \in Scan
  BY PassTyped DEF Passed, TypeOK, State
<1>2. CASE UNCHANGED <<state, scan>>
  BY <1>2, SameScan
<1>3. CASE state' \notin {"TUNING_FAST", "ZIGZAG_FAST", "SLOW", "RETUNE"}
  BY <1>3 DEF Scanning
<1>4. CASE HwPass
  BY <1>2, <1>3, <1>4 DEF HwPass
<1>5. CASE SwPass /\ oneshot
  BY <1>2, <1>3, <1>5 DEF SwPass, SetFrontend, SetFails, Nothing
<1>6. CASE SwPass /\ ~oneshot
  <2>1. Lost(scan) \in Scan /\ ~Lost(scan).full
    <3>1. Over(scan) \in Scan /\ ~Over(scan).full
      BY <1>1, ScanTyped DEF Over, Scan
    <3> QED
      BY <1>1, <3>1, ScanTyped DEF Lost, Scan
  <2>2. CASE state' = "TUNED"
    BY <1>3, <2>2
  <2>3. CASE state' = "ZIGZAG_FAST" /\ scan' = Lost(scan)
    BY <2>1, <2>3 DEF Scanning
  <2>4. CASE Search(Lost(scan), "ZIGZAG_FAST")
    <3>1. "ZIGZAG_FAST" \in State
      BY DEF State
    <3> DEFINE z == Lost(scan)
    <3>2. z \in Scan /\ ~z.full /\ Search(z, "ZIGZAG_FAST")
      BY <2>1, <2>4
    <3> HIDE DEF z
    <3> QED
      BY <1>1, <3>1, <3>2, SearchScans
  <2>5. CASE Search(scan, state)
    BY <1>1, <2>5, SearchScans
  <2>6. CASE Nothing
    BY <1>2, <2>6 DEF Nothing
  <2>7. \/ state' = "TUNED"
        \/ state' = "ZIGZAG_FAST" /\ scan' = Lost(scan)
        \/ Search(Lost(scan), "ZIGZAG_FAST") \/ Search(scan, state) \/ Nothing
    BY <1>6 DEF SwPass
  <2> QED
    BY <2>2, <2>3, <2>4, <2>5, <2>6, <2>7
<1> QED
  BY <1>4, <1>5, <1>6 DEF ThreadPass

(* DTV_INVERSION under a scan: the drifts that were tried stay tried.       *)
LEMMA InversionScans ==
  ASSUME TypeOK, Scanning, NEW f \in File, IoctlInversion(f)
  PROVE  Scanning'
<1>1. PICK i \in {OFF, ON, AUTO} : scan' = [scan EXCEPT !.cache = i, !.asked = {}]
  BY DEF IoctlInversion
<1>2. state' = state
  BY DEF IoctlInversion
<1>3. /\ scan'.full = scan.full /\ scan'.began = scan.began /\ scan'.sub = scan.sub
      /\ scan'.step = scan.step /\ scan'.zig = scan.zig /\ scan'.asked = {}
      /\ scan'.tried = scan.tried
  BY <1>1 DEF TypeOK, Scan
<1>4. Reached(scan) => Reached(scan)'
  BY <1>3 DEF Reached, Both, Want, Last, Drift
<1>5. Covers(scan) => Covers(scan)'
  BY <1>3 DEF Covers, Want, Drifts, Drift
<1> QED
  BY <1>2, <1>3, <1>4, <1>5 DEF Scanning

(* A request starts a new scan, and the other calls leave it alone or end   *)
(* it.                                                                      *)
LEMMA ScanningNext ==
  ASSUME TypeOK, Scanning, [Next]_vars
  PROVE  Scanning'
<1> USE DEF tuneVars
<1>0. CASE UNCHANGED <<state, scan>>
  BY <1>0, SameScan
<1>1. CASE ThreadPass
  BY <1>1, PassScans
<1>2. CASE ThreadInit
  <2>1. state' = state /\ scan' = [scan EXCEPT !.wrapped = FALSE]
    BY <1>2 DEF ThreadInit
  <2>2. scan \in Scan
    BY DEF TypeOK
  <2>3. /\ scan'.full = scan.full /\ scan'.began = scan.began /\ scan'.sub = scan.sub
        /\ scan'.step = scan.step /\ scan'.inv = scan.inv /\ scan'.cache = scan.cache
        /\ scan'.zig = scan.zig /\ scan'.asked = scan.asked /\ scan'.tried = scan.tried
    BY <2>1, <2>2 DEF Scan
  <2> QED
    BY <2>1, <2>3, LikeScan
<1>3. CASE ThreadWake \/ ThreadGo \/ ThreadDown \/ ThreadQuit \/ ThreadOff \/ ThreadExit
  BY <1>0, <1>3 DEF ThreadWake, ThreadGo, ThreadDown, ThreadQuit, ThreadOff, ThreadExit
<1>4. CASE CallStep
  BY <1>0, <1>4 DEF CallStep, Call
<1>5. ASSUME NEW f \in File, Ioctl(f) PROVE Scanning'
  <2>1. CASE IoctlTune(f)
    <3>1. state' = "RETUNE"
      BY <2>1 DEF IoctlTune
    <3> QED
      BY <3>1 DEF Scanning
  <2>5. CASE IoctlInversion(f)
    BY <2>5, InversionScans
  <2>2. CASE IoctlDiseqc(f)
    BY <2>2 DEF IoctlDiseqc, Scanning
  <2>3. CASE IoctlTuneMode(f) \/ IoctlRead(f) \/ IoctlEvent(f) \/ EventTake(f) \/ EventSignal(f)
    BY <1>0, <2>3 DEF IoctlTuneMode, IoctlRead, IoctlEvent, EventTake, EventSignal
  <2>4. CASE EventUp(f) \/ EventTest(f) \/ EventDown(f)
    BY <1>0, <2>4 DEF EventUp, EventTest, EventDown, EventVars
  <2> QED
    BY <1>5, <2>1, <2>2, <2>3, <2>4, <2>5 DEF Ioctl, IoctlStep
<1>6. CASE StopCase
  <2>1. state' = "IDLE" \/ UNCHANGED <<state, scan>>
    BY <1>6 DEF StopCase, StopFlag, StopJoin, StopDone
  <2> QED
    BY <1>0, <2>1 DEF Scanning
<1>7. CASE StartDown
  BY <1>7 DEF StartDown, Scanning
<1>8. CASE \/ OpenBegin \/ OpenGeneric \/ Start \/ StartFails \/ StartRun \/ StartAssign
           \/ OpenFail \/ OpenEnd
  BY <1>0, <1>8 DEF OpenBegin, OpenGeneric, Start, StartFails, StartRun, StartAssign, OpenFail,
                    OpenEnd
<1>9. CASE OpenMonitorStep \/ CloseStep
  BY <1>0, <1>9 DEF OpenMonitorStep, CloseStep, OpenMonitor, Close
<1>10. CASE Carrier \/ Timeout \/ ClosePut \/ Remove \/ RemoveDevice \/ RemovePut
  BY <1>0, <1>10 DEF Carrier, Timeout, ClosePut, Remove, RemoveDevice, RemovePut
<1>11. CASE UNCHANGED vars
  BY <1>0, <1>11 DEF vars
<1> QED
  BY <1>1, <1>2, <1>3, <1>4, <1>5, <1>6, <1>7, <1>8, <1>9, <1>10, <1>11, NextCases
     DEF ThreadCase, IoctlCase, OpenCase, RestCase

(* dvb_frontend_swzigzag_autotune: a scan that began with a request slows   *)
(* down only when it has tried every drift, and each with every inversion   *)
(* the request left open unless the cache is written meanwhile; for any     *)
(* step size, 0 too, and any drift, whatever is called, fails or locks in   *)
(* between.                                                                 *)
THEOREM ScanIsComplete == Spec => []ScanComplete
<1>1. Init => Scanning
  BY DEF Init, Scanning
<1>2. Scanning => ScanComplete
  <2> SUFFICES ASSUME Scanning, state = "SLOW", scan.full PROVE ScanComplete
    BY DEF ScanComplete
  <2>1. \A d \in Drifts(scan) : Want(scan, d)
    BY DEF Scanning, Covers
  <2>2. \A d \in Drifts(scan) : \E i \in {OFF, ON} : <<d, i>> \in scan.tried
    BY <2>1 DEF Want
  <2>3. ASSUME NEW x \in Drifts(scan) \X scan.asked PROVE x \in scan.tried
    <3>1. PICK d \in Drifts(scan), v \in scan.asked : x = <<d, v>>
      OBVIOUS
    <3> QED
      BY <2>1, <3>1 DEF Want
  <2> QED
    BY <2>2, <2>3 DEF ScanComplete
<1> QED
  BY <1>1, <1>2, ScanningNext, FrontendWellTyped, PTL DEF Spec
=============================================================================
