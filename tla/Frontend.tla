------------------------------ MODULE Frontend ------------------------------
(***************************************************************************)
(* The frontend device of the DVB core (dvb_frontend.c): its kernel        *)
(* thread, which tunes and watches the lock, the ioctls that share fe->sem *)
(* with it, open and close, which start the thread and let it end, and     *)
(* dvb_unregister_frontend.                                                *)
(*                                                                         *)
(* One file is open for writing at a time, Monitor files for reading only. *)
(* The thread starts a pass at any time: delay and wakeup only choose when.*)
(* Drivers without ts_bus_ctrl, adapters without mfe_shared.  Drivers with *)
(* the software algorithm have FE_CAN_RECOVER, not FE_CAN_INVERSION_AUTO.  *)
(***************************************************************************)
EXTENDS Integers, FiniteSets

CONSTANTS Monitor,   \* files open for reading only
          MaxEvent,  \* MAX_EVENT
          Where,     \* the drifts and inversions a carrier may have
          Zigzag,    \* fepriv->step_size and fepriv->max_drift of the requests
          StepRange, \* how many values fepriv->auto_step has (2^32)
          Max        \* bounds for each algorithm: opens; ioctls, faults and signal changes;
                     \* whether the device is removed

W == "writer"
File == Monitor \cup {W}

ASSUME FrontendAssumption ==
  /\ Monitor \cap {W, "thread", "open"} = {} /\ IsFiniteSet(Monitor)
  /\ MaxEvent \in Nat \ {0, 1}
  /\ Zigzag \subseteq [step : Nat, max : Nat] /\ StepRange \in Nat \ {0}
  /\ Max \in [{"HW", "SW"} -> [opens : Nat, inputs : Nat, removed : BOOLEAN]]

(* enum fe_spectral_inversion                                               *)
OFF == 0
ON == 1
AUTO == 2

ASSUME WhereAssumption == Where \subseteq Int \X {OFF, ON}

VARIABLES
  sem, exit, state,   \* fepriv->sem, fe->exit, fepriv->state
  thread,             \* fepriv->thread is set
  tpc, stopReq,       \* where the thread is; kthread_should_stop
  pc,                 \* open by the writer, and dvb_unregister_frontend
  file, refs,         \* files that are open; references to fe
  puts,               \* closed files whose reference is not put yet
  elapsed,            \* dvb_shutdown_timeout has passed since the last close
  ipc, icmd,          \* the ioctl of each file
  oneshot, status,    \* FE_TUNE_MODE_ONESHOT; fepriv->status has FE_HAS_LOCK
  queued, overflow, told, \* events, events.overflow; the last event says lock
  scan,               \* the software zigzag
  algo, signal,       \* DVBFE_ALGO of the driver; the carrier
  hw,                 \* the hardware is tuned: to nothing, a former or the last request
  opens, inputs,      \* how many
  \* history
  wanted,             \* the last request still stands
  orphan,             \* the writer was given a thread that had decided to end
  reinit,             \* the semaphore was initialised while somebody held it
  overlap             \* the removal met an open or a thread that was ending

threadVars == <<thread, tpc, stopReq>>
fileVars   == <<file, refs, puts, elapsed>>
ioctlVars  == <<ipc, icmd>>
eventVars  == <<queued, overflow, told>>
tuneVars   == <<oneshot, status, scan, hw, wanted>>
envVars    == <<algo, signal, opens, inputs>>
ghostVars  == <<orphan, reinit, overlap>>
vars == <<sem, exit, state, threadVars, pc, fileVars, ioctlVars, eventVars, tuneVars, envVars,
          ghostVars>>

AutoStep == 0 .. StepRange - 1
Trial  == Int \X {OFF, ON}      \* a drift and an inversion

Scan == [step : AutoStep, sub : 0 .. 4, inv : {OFF, ON}, began : AutoStep, wrapped : BOOLEAN,
         cache : {OFF, ON, AUTO}, \* c->inversion
         zig : [step : Nat, max : Nat],
         trial : Trial,           \* the last setting
         \* history of a scan from the beginning: what it was asked for, and has tried
         full : BOOLEAN, asked : SUBSET {OFF, ON}, tried : SUBSET Trial]

Init ==
  /\ sem = 1 /\ exit = "no" /\ state = "IDLE"
  /\ thread = FALSE /\ tpc = "none" /\ stopReq = FALSE
  /\ pc = [open |-> "idle", remove |-> "idle"]
  /\ file = {} /\ refs = 2 /\ puts = 0 /\ elapsed = FALSE
  /\ ipc = [f \in File |-> "idle"] /\ icmd = [f \in File |-> "none"]
  /\ queued = 0 /\ overflow = FALSE /\ told = FALSE
  /\ oneshot = FALSE /\ status = FALSE /\ hw = "off" /\ wanted = FALSE
  /\ scan = [step |-> 0, sub |-> 0, inv |-> OFF, began |-> 0, wrapped |-> FALSE, cache |-> OFF,
             zig |-> [step |-> 0, max |-> 0], trial |-> <<0, OFF>>,
             full |-> FALSE, asked |-> {}, tried |-> {}]
  /\ \/ algo = "HW" /\ signal \in [at : {<<0, 0>>}, on : BOOLEAN]
     \/ algo = "SW" /\ signal \in [at : Where, on : BOOLEAN]
  /\ opens = 0 /\ inputs = 0
  /\ orphan = FALSE /\ reinit = FALSE /\ overlap = FALSE

Input == inputs < Max[algo].inputs /\ inputs' = inputs + 1
Step(p, from, to) == pc[p] = from /\ pc' = [pc EXCEPT ![p] = to]
-----------------------------------------------------------------------------
(* The driver and the carrier.                                              *)
Locked == signal.on /\ hw # "off" /\ (algo = "SW" => scan.trial = signal.at)

Carrier ==
  /\ Input
  /\ signal' = [signal EXCEPT !.on = ~@]
  /\ UNCHANGED <<sem, exit, state, threadVars, pc, fileVars, ioctlVars, eventVars, tuneVars,
                 algo, opens, ghostVars>>

Timeout ==
  /\ W \notin file /\ ~elapsed /\ elapsed' = TRUE
  /\ UNCHANGED <<sem, exit, state, threadVars, pc, file, refs, puts, ioctlVars, eventVars,
                 tuneVars, envVars, ghostVars>>

(* dvb_frontend_add_event                                                   *)
AddEvent(s) ==
  /\ queued' = IF queued = MaxEvent - 1 THEN queued ELSE queued + 1
  /\ overflow' = (overflow \/ queued = MaxEvent - 1)
  /\ told' = s

Report(s) ==
  IF s # status THEN AddEvent(s) /\ status' = s ELSE UNCHANGED <<eventVars, status>>
-----------------------------------------------------------------------------
(* The drifts of the software zigzag, and the inversions c->inversion       *)
(* leaves to it.                                                            *)
Drift(z, k) == k * z.zig.step
Drifts(z) ==
  {d \in -z.zig.max .. z.zig.max : \E k \in AutoStep : d \in {Drift(z, k), -Drift(z, k)}}
Inversions(z) == IF z.cache = AUTO THEN {OFF, ON} ELSE {z.cache}
Fixed(z, i) == IF z.cache = AUTO THEN i ELSE z.cache

(* dvb_frontend_swzigzag_autotune: the next setting at or after the sub     *)
(* step of the scan.                                                        *)
Skipped(z, k, s) == \/ s \in {1, 3} /\ z.cache # AUTO
                    \/ s \in {2, 3} /\ Drift(z, k) = 0

Wrap(z, k) == IF Drift(z, k) > z.zig.max THEN 0 ELSE k

Position(z) ==
  LET k == Wrap(z, z.step)
      S == {t \in (IF k = z.step THEN z.sub ELSE 0) .. 3 : ~Skipped(z, k, t)}
  IN IF S # {} THEN <<k, CHOOSE t \in S : \A u \in S : t <= u>>
     ELSE <<Wrap(z, (k + 1) % StepRange), 0>>

Setting(z) ==
  LET p == Position(z)
      i == IF p[2] \in {1, 3} THEN 1 - z.inv ELSE z.inv
  IN [at |-> p, inv |-> i,
      trial |-> <<IF p[2] \in {2, 3} THEN -Drift(z, p[1]) ELSE Drift(z, p[1]), Fixed(z, i)>>]

(* One complete iteration.                                                  *)
Complete(z) == z.wrapped /\ Setting(z).at = <<z.began, 0>>

Arrived(z) == [z EXCEPT !.step = Setting(z).at[1], !.sub = 0]

Tried(z) ==
  LET n == Setting(z) IN
  [z EXCEPT !.step = n.at[1], !.sub = n.at[2] + 1, !.inv = n.inv, !.trial = n.trial,
            !.tried = IF z.full THEN @ \cup {n.trial} ELSE @, !.wrapped = TRUE]

(* History: the scan from the beginning is over.                            *)
Over(z) == [z EXCEPT !.full = FALSE, !.asked = {}, !.tried = {}]

(* An error leaves the inversion of this try in the cache.                  *)
Failed(z) ==
  LET n == Setting(z) IN
  [Over(z) EXCEPT !.step = n.at[1], !.sub = n.at[2], !.inv = n.inv, !.cache = n.trial[2]]

\* Mutant: the scan is not new to the test for a complete iteration.
Fresh_KeepWrapped(z) ==
  [z EXCEPT !.step = 0, !.sub = 0, !.began = 0,
            !.full = TRUE, !.asked = Inversions(z), !.tried = {}]

Fresh(z) ==
  [z EXCEPT !.step = 0, !.sub = 0, !.began = 0, !.wrapped = FALSE,
            !.full = TRUE, !.asked = Inversions(z), !.tried = {}]
Lost(z) == [Over(z) EXCEPT !.began = z.step, !.wrapped = FALSE]

(* The inversion that locked stays in the cache.                            *)
Found(z) == [Over(z) EXCEPT !.cache = Fixed(z, z.inv)]

(* The driver is given the cache as it is and takes INVERSION_AUTO for off. *)
Once(z) == [z EXCEPT !.trial = <<0, IF z.cache = ON THEN ON ELSE OFF>>]

SetFrontend == hw' = "last" /\ UNCHANGED <<inputs, wanted>>
SetFails    == Input /\ state' = "ERROR" /\ wanted' = FALSE /\ UNCHANGED hw
Nothing     == UNCHANGED <<state, scan, hw, wanted, inputs>>

(* A setting of scan z, then state to.                                      *)
Try(z, to) ==
  \/ SetFrontend /\ scan' = Tried(z) /\ state' = to
  \/ SetFails /\ scan' = Failed(z)

(* dvb_frontend_swzigzag from its RETUNE branch on.                         *)
Search(z, from) ==
  LET new == IF from = "RETUNE" THEN Fresh(z) ELSE z
      fast == from \in {"RETUNE", "TUNING_FAST", "ZIGZAG_FAST"}
  IN CASE fast /\ Complete(new) ->
            /\ state' = "SLOW" /\ scan' = [Arrived(new) EXCEPT !.began = Setting(new).at[1]]
            /\ UNCHANGED <<hw, wanted, inputs>>
       [] fast /\ ~Complete(new) -> Try(new, IF from = "RETUNE" THEN "TUNING_FAST" ELSE from)
       [] from = "SLOW" -> Try(new, "SLOW")
       [] OTHER -> Nothing

(* dvb_frontend_swzigzag.  A lost lock is left to the driver to recover if  *)
(* there is no drift to try.                                                *)
LeftAlone == state \in {"ZIGZAG_FAST", "SLOW"} /\ scan.zig.max = 0

SwPass ==
  IF oneshot
  THEN /\ UNCHANGED <<eventVars, status>>
       /\ IF state = "RETUNE"
          THEN \/ SetFrontend /\ state' = "TUNED" /\ scan' = Once(scan)
               \/ SetFails /\ UNCHANGED scan
          ELSE Nothing
  ELSE LET s == state # "RETUNE" /\ Locked IN
       /\ IF state \in {"IDLE", "RETUNE"} THEN UNCHANGED <<eventVars, status>> ELSE Report(s)
       /\ CASE state \in {"TUNING_FAST", "ZIGZAG_FAST", "SLOW", "DISEQC"} /\ s ->
                 /\ state' = "TUNED" /\ scan' = Found(scan)
                 /\ UNCHANGED <<hw, wanted, inputs>>
            [] state = "TUNED" /\ ~s ->
                 IF scan.zig.max = 0
                 THEN /\ state' = "ZIGZAG_FAST" /\ scan' = Lost(scan)
                      /\ UNCHANGED <<hw, wanted, inputs>>
                 ELSE Search(Lost(scan), "ZIGZAG_FAST")
            [] LeftAlone /\ ~s -> Nothing
            [] OTHER -> Search(scan, state)

(* The driver tunes by itself; its error is ignored.                        *)
HwPass ==
  /\ UNCHANGED scan
  /\ IF state = "RETUNE"
     THEN /\ state' = "TUNED"
          /\ \/ SetFrontend
             \/ Input /\ wanted' = FALSE /\ UNCHANGED hw
          /\ IF oneshot THEN UNCHANGED <<eventVars, status>> ELSE Report(FALSE)
     ELSE /\ UNCHANGED <<state, hw, wanted, inputs>>
          /\ IF oneshot THEN UNCHANGED <<eventVars, status>> ELSE Report(Locked)
-----------------------------------------------------------------------------
(* dvb_frontend_thread.  It is entered with the semaphore held.             *)
Exiting == stopReq \/ exit # "no" \/ (W \notin file /\ pc.open \in {"idle", "generic"} /\ elapsed)

Thread(from, to) == tpc = from /\ tpc' = to
Down == sem > 0 /\ sem' = sem - 1
Up   == sem' = sem + 1

ThreadInit ==
  /\ Thread("init", "wait") /\ Up
  /\ status' = FALSE /\ scan' = [scan EXCEPT !.wrapped = FALSE]
  /\ UNCHANGED <<exit, state, thread, stopReq, pc, fileVars, ioctlVars, eventVars, oneshot, hw,
                 wanted, envVars, ghostVars>>

(* Woken, or its delay is over: it decides to end ...                       *)
ThreadWake ==
  /\ Thread("wait", "quit") /\ Exiting
  /\ UNCHANGED <<sem, exit, state, thread, stopReq, pc, fileVars, ioctlVars, eventVars, tuneVars,
                 envVars, ghostVars>>

(* ... or to do a pass.                                                     *)
ThreadGo ==
  /\ Thread("wait", "down") /\ ~Exiting
  /\ UNCHANGED <<sem, exit, state, thread, stopReq, pc, fileVars, ioctlVars, eventVars, tuneVars,
                 envVars, ghostVars>>

ThreadDown ==
  /\ Thread("down", "pass") /\ Down
  /\ UNCHANGED <<exit, state, thread, stopReq, pc, fileVars, ioctlVars, eventVars, tuneVars,
                 envVars, ghostVars>>

ThreadPass ==
  /\ Thread("pass", "wait") /\ Up
  /\ \/ algo = "HW" /\ HwPass
     \/ algo = "SW" /\ SwPass
  /\ UNCHANGED <<exit, thread, stopReq, pc, fileVars, ioctlVars, oneshot, algo, signal,
                 opens, ghostVars>>

\* Mutant: the thread does not wait for the semaphore before it ends.
ThreadQuit_NoSem ==
  /\ Thread("quit", "off") /\ sem' = sem
  /\ exit' = "normal"
  /\ UNCHANGED <<state, thread, stopReq, pc, fileVars, ioctlVars, eventVars, tuneVars, envVars,
                 ghostVars>>

(* The thread has decided to end.                                           *)
ThreadQuit ==
  /\ Thread("quit", "off") /\ Down
  /\ exit' = "normal"
  /\ UNCHANGED <<state, thread, stopReq, pc, fileVars, ioctlVars, eventVars, tuneVars, envVars,
                 ghostVars>>

(* dvb_powerdown_on_sleep, and the thread forgets itself.                   *)
ThreadOff ==
  /\ Thread("off", "exit")
  /\ hw' = "off" /\ thread' = FALSE
  /\ UNCHANGED <<sem, exit, state, stopReq, pc, fileVars, ioctlVars, eventVars, oneshot, status,
                 scan, wanted, envVars, ghostVars>>

ThreadExit ==
  /\ Thread("exit", "none") /\ Up
  /\ exit' = IF stopReq THEN "removed" ELSE "no"
  /\ UNCHANGED <<state, thread, stopReq, pc, fileVars, ioctlVars, eventVars, tuneVars, envVars,
                 ghostVars>>

Ending == tpc \in {"quit", "off", "exit"}

\* The steps that take the semaphore, and the others.
ThreadSem  == ThreadDown \/ ThreadQuit
ThreadStep == \/ ThreadInit \/ ThreadWake \/ ThreadGo \/ ThreadPass
              \/ ThreadOff \/ ThreadExit
-----------------------------------------------------------------------------
(* dvb_frontend_do_ioctl: all of it under the semaphore.  The cache alone   *)
(* matters to the software algorithm only.                                  *)
Call(f, cmd) ==
  /\ f \in file /\ ipc[f] = "idle" /\ Down
  /\ Input /\ (cmd = "inversion" => algo = "SW")
  /\ ipc' = [ipc EXCEPT ![f] = "in"] /\ icmd' = [icmd EXCEPT ![f] = cmd]
  /\ UNCHANGED <<exit, state, threadVars, pc, fileVars, eventVars, tuneVars, algo, signal,
                 opens, ghostVars>>

In(f, cmds) == ipc[f] = "in" /\ exit = "no" /\ icmd[f] \in cmds
Return(f) ==
  /\ ipc' = [ipc EXCEPT ![f] = "idle"] /\ icmd' = [icmd EXCEPT ![f] = "none"]
  /\ Up
  /\ UNCHANGED <<exit, threadVars, pc, fileVars, envVars, ghostVars>>

\* Mutant: reads the status while a new tuning is due.
ReadsLock_Always == Locked

(* FE_READ_STATUS                                                           *)
ReadsLock == state \notin {"RETUNE", "ERROR"} /\ Locked

\* FE_READ_STATUS and the statistics change nothing.
IoctlRead(f) ==
  /\ ipc[f] = "in" /\ (exit # "no" \/ icmd[f] = "status")
  /\ Return(f)
  /\ UNCHANGED <<state, eventVars, tuneVars>>

(* Inversion and zigzag of a request: FE_SET_FRONTEND gives an inversion,   *)
(* DTV_TUNE takes what DTV_INVERSION, DTV_CLEAR or the last lock left in    *)
(* the cache, and prepare_tuning_algo_parameters the zigzag.  The thread    *)
(* uses neither for a driver that tunes by itself.                          *)
Asked ==
  \/ algo = "HW" /\ UNCHANGED scan
  \/ algo = "SW" /\ \E i \in {OFF, ON, AUTO}, z \in Zigzag :
                      scan' = [Over(scan) EXCEPT !.cache = i, !.zig = z]

\* Mutant: the status of the former tuning is kept.
IoctlTune_KeepStatus(f) ==
  /\ In(f, {"tune"}) /\ Return(f)
  /\ state' = "RETUNE" /\ UNCHANGED status
  /\ wanted' = TRUE /\ hw' = IF hw = "last" THEN "former" ELSE hw
  /\ Asked
  /\ queued' = 1 /\ told' = FALSE /\ UNCHANGED overflow
  /\ UNCHANGED oneshot

(* FE_SET_FRONTEND and DTV_TUNE with acceptable parameters.                 *)
IoctlTune(f) ==
  /\ In(f, {"tune"}) /\ Return(f)
  /\ state' = "RETUNE" /\ status' = FALSE
  /\ wanted' = TRUE /\ hw' = IF hw = "last" THEN "former" ELSE hw
  /\ Asked
  /\ queued' = 1 /\ told' = FALSE /\ UNCHANGED overflow
  /\ UNCHANGED oneshot

(* DTV_INVERSION and DTV_CLEAR write the cache under a scan that runs.      *)
IoctlInversion(f) ==
  /\ In(f, {"inversion"}) /\ Return(f)
  /\ \E i \in {OFF, ON, AUTO} : scan' = [scan EXCEPT !.cache = i, !.asked = {}]
  /\ UNCHANGED <<state, eventVars, oneshot, status, hw, wanted>>

(* DiSEqC, tone and voltage                                                 *)
IoctlDiseqc(f) ==
  /\ In(f, {"diseqc"}) /\ Return(f)
  /\ state' = "DISEQC" /\ status' = FALSE /\ wanted' = FALSE
  /\ UNCHANGED <<eventVars, oneshot, scan, hw>>

IoctlTuneMode(f) ==
  /\ In(f, {"mode"}) /\ Return(f)
  /\ oneshot' = ~oneshot
  /\ UNCHANGED <<state, eventVars, status, scan, hw, wanted>>

(* dvb_frontend_get_event: an event, an overflow, or nothing for a file     *)
(* that is non blocking.                                                    *)
IoctlEvent(f) ==
  /\ In(f, {"event"}) /\ Return(f)
  /\ IF overflow THEN overflow' = FALSE /\ UNCHANGED queued
     ELSE queued' = (IF queued > 0 THEN queued - 1 ELSE 0) /\ UNCHANGED overflow
  /\ UNCHANGED <<state, told, tuneVars>>

(* A blocking one looks for an event with the semaphore given up, ...       *)
EventVars == <<exit, state, threadVars, pc, fileVars, icmd, eventVars, tuneVars, envVars,
               ghostVars>>

EventUp(f) ==
  /\ \/ In(f, {"event"}) /\ ~overflow /\ queued = 0
     \/ ipc[f] = "hold"
  /\ ipc' = [ipc EXCEPT ![f] = "test"] /\ Up
  /\ UNCHANGED EventVars

EventTest(f) ==
  /\ ipc[f] = "test"
  /\ ipc' = [ipc EXCEPT ![f] = IF queued > 0 THEN "got" ELSE "again"]
  /\ UNCHANGED sem /\ UNCHANGED EventVars

(* ... takes it again before it takes the event, ...                        *)
EventDown(f) ==
  /\ ipc[f] \in {"got", "again"} /\ Down
  /\ ipc' = [ipc EXCEPT ![f] = IF @ = "got" THEN "taken" ELSE "hold"]
  /\ UNCHANGED EventVars

EventTake(f) ==
  /\ ipc[f] = "taken" /\ Return(f)
  /\ queued' = queued - 1
  /\ UNCHANGED <<state, overflow, told, tuneVars>>

(* ... and goes on until there is one or a signal.                          *)
EventSignal(f) ==
  /\ ipc[f] = "hold" /\ Return(f)
  /\ UNCHANGED <<state, eventVars, tuneVars>>

IoctlStep(f) == \/ IoctlRead(f) \/ IoctlTune(f) \/ IoctlInversion(f) \/ IoctlDiseqc(f)
                \/ IoctlTuneMode(f) \/ IoctlEvent(f) \/ EventUp(f) \/ EventTest(f) \/ EventTake(f)

(* Who is between down and up.                                              *)
Holders == {f \in File : ipc[f] \in {"in", "hold", "taken"}}
           \cup {t \in {"thread"} : tpc \in {"init", "pass", "off", "exit"}}
           \cup {o \in {"open"} : pc.open = "run"}
-----------------------------------------------------------------------------
(* dvb_frontend_stop, called by p.                                          *)
StopFlag(p, next) ==
  /\ Step(p, "flag", IF thread THEN "join" ELSE next)
  /\ exit' = IF exit = "removed" THEN exit ELSE "normal"
  /\ UNCHANGED <<sem, state, threadVars, fileVars, ioctlVars, eventVars, tuneVars, envVars, orphan,
                 reinit>>
  /\ overlap' = (overlap \/ (p = "remove" /\ (pc.open # "idle" \/ Ending)))

(* kthread_stop.  A thread that has ended meanwhile is gone; whoever stops  *)
(* it then is lost.                                                         *)
StopJoin(p) ==
  /\ \/ tpc # "none" /\ Step(p, "join", "joined") /\ stopReq' = TRUE
     \/ ~thread /\ Step(p, "join", "lost") /\ UNCHANGED stopReq
  /\ UNCHANGED <<sem, exit, state, thread, tpc, fileVars, ioctlVars, eventVars, tuneVars, envVars,
                 ghostVars>>

StopDone(p, next) ==
  /\ Step(p, "joined", next) /\ tpc = "none"
  /\ sem' = 1 /\ state' = "IDLE"
  /\ reinit' = (reinit \/ sem = 0)
  /\ UNCHANGED <<exit, threadVars, fileVars, ioctlVars, eventVars, tuneVars, envVars, orphan,
                 overlap>>

Stop(p, next) == StopFlag(p, next) \/ StopJoin(p) \/ StopDone(p, next)
-----------------------------------------------------------------------------
(* dvb_frontend_open for writing, under dvbdev_mutex and minor_rwsem.       *)
OpenBegin ==
  /\ W \notin file /\ ipc[W] = "idle" /\ exit # "removed"
  /\ pc.remove \notin {"put", "gone"}
  /\ opens < Max[algo].opens /\ opens' = opens + 1
  /\ Step("open", "idle", "generic")
  /\ overlap' = (overlap \/ pc.remove # "idle")
  /\ UNCHANGED <<sem, exit, state, threadVars, fileVars, ioctlVars, eventVars, tuneVars, algo,
                 signal, inputs, orphan, reinit>>

OpenGeneric ==
  /\ Step("open", "generic", "start")
  /\ oneshot' = FALSE /\ elapsed' = FALSE
  /\ UNCHANGED <<sem, exit, state, threadVars, file, refs, puts, ioctlVars, eventVars, status,
                 scan, hw, wanted, envVars, ghostVars>>

\* Mutant: any thread will do.
Start_AnyThread ==
  /\ Step("open", "start", IF thread THEN "events" ELSE "down")
  /\ orphan' = (thread /\ exit = "no" /\ tpc = "quit")
  /\ UNCHANGED <<sem, exit, state, threadVars, fileVars, ioctlVars, eventVars, tuneVars, envVars,
                 reinit, overlap>>

(* dvb_frontend_start                                                       *)
Start ==
  /\ Step("open", "start", IF ~thread THEN "down" ELSE IF exit = "no" THEN "events" ELSE "flag")
  /\ orphan' = (thread /\ exit = "no" /\ tpc = "quit")
  /\ UNCHANGED <<sem, exit, state, threadVars, fileVars, ioctlVars, eventVars, tuneVars, envVars,
                 reinit, overlap>>

StartDown ==
  /\ Step("open", "down", "run") /\ Down
  /\ state' = "IDLE" /\ exit' = "no" /\ thread' = FALSE
  /\ UNCHANGED <<tpc, stopReq, fileVars, ioctlVars, eventVars, tuneVars, envVars, ghostVars>>

(* A signal, or no memory for the thread.                                   *)
StartFails ==
  /\ Input
  /\ \/ Step("open", "down", "fail") /\ UNCHANGED sem
     \/ Step("open", "run", "fail") /\ Up
  /\ UNCHANGED <<exit, state, threadVars, fileVars, ioctlVars, eventVars, tuneVars, algo, signal,
                 opens, ghostVars>>

(* kthread_run; the thread runs before its pointer is stored.  A former one *)
(* has ended, or (after reinit) is left to end first.                       *)
StartRun ==
  /\ Step("open", "run", "assign") /\ tpc = "none"
  /\ tpc' = "init" /\ stopReq' = FALSE
  /\ UNCHANGED <<sem, exit, state, thread, fileVars, ioctlVars, eventVars, tuneVars, envVars,
                 ghostVars>>

StartAssign ==
  /\ Step("open", "assign", "events")
  /\ thread' = TRUE
  /\ UNCHANGED <<sem, exit, state, tpc, stopReq, fileVars, ioctlVars, eventVars, tuneVars, envVars,
                 ghostVars>>

OpenEnd ==
  /\ Step("open", "events", "idle")
  /\ file' = file \cup {W} /\ refs' = refs + 1
  /\ queued' = 0 /\ told' = FALSE /\ wanted' = FALSE
  /\ UNCHANGED <<sem, exit, state, threadVars, puts, elapsed, ioctlVars, overflow, oneshot, status,
                 scan, hw, envVars, ghostVars>>

(* dvb_generic_release                                                      *)
OpenFail ==
  /\ Step("open", "fail", "idle")
  /\ UNCHANGED <<sem, exit, state, threadVars, fileVars, ioctlVars, eventVars, tuneVars, envVars,
                 ghostVars>>

OpenMonitor(m) ==
  /\ m \notin file /\ exit # "removed"
  /\ pc.open = "idle" /\ pc.remove \notin {"put", "gone"}
  /\ opens < Max[algo].opens /\ opens' = opens + 1
  /\ file' = file \cup {m} /\ refs' = refs + 1
  /\ UNCHANGED <<sem, exit, state, threadVars, pc, puts, elapsed, ioctlVars, eventVars, tuneVars,
                 algo, signal, inputs, ghostVars>>

(* dvb_frontend_release up to dvb_generic_release, ...                      *)
Close(f) ==
  /\ f \in file /\ ipc[f] = "idle"
  /\ file' = file \ {f} /\ puts' = puts + 1
  /\ elapsed' = IF f = W THEN FALSE ELSE elapsed
  /\ orphan' = IF f = W THEN FALSE ELSE orphan
  /\ UNCHANGED <<sem, exit, state, threadVars, pc, refs, ioctlVars, eventVars, tuneVars, envVars,
                 reinit, overlap>>

(* ... and its last step.                                                   *)
ClosePut ==
  /\ puts > 0 /\ puts' = puts - 1 /\ refs' = refs - 1
  /\ UNCHANGED <<sem, exit, state, threadVars, pc, file, elapsed, ioctlVars, eventVars, tuneVars,
                 envVars, ghostVars>>
-----------------------------------------------------------------------------
(* dvb_unregister_frontend; dvb_remove_device waits for an open.            *)
Remove ==
  /\ Max[algo].removed /\ Step("remove", "idle", "flag")
  /\ UNCHANGED <<sem, exit, state, threadVars, fileVars, ioctlVars, eventVars, tuneVars, envVars,
                 ghostVars>>

RemoveDevice ==
  /\ Step("remove", "unlink", "put") /\ pc.open = "idle"
  /\ UNCHANGED <<sem, exit, state, threadVars, fileVars, ioctlVars, eventVars, tuneVars, envVars,
                 ghostVars>>

(* The reference of the registration and that of dvb_frontend_detach.       *)
RemovePut ==
  /\ Step("remove", "put", "gone")
  /\ refs' = refs - 2
  /\ UNCHANGED <<sem, exit, state, threadVars, file, puts, elapsed, ioctlVars, eventVars, tuneVars,
                 envVars, ghostVars>>

OpenStep == \/ OpenGeneric \/ Start \/ Stop("open", "down") \/ StartDown \/ StartRun
            \/ StartAssign \/ OpenEnd \/ OpenFail

Command == {"tune", "inversion", "diseqc", "mode", "event", "status"}

Next ==
  \/ Carrier \/ Timeout
  \/ ThreadSem \/ ThreadStep
  \/ \E cmd \in Command : Call(W, cmd)
  \/ \E m \in Monitor : Call(m, "status") \/ OpenMonitor(m)
  \/ \E f \in File : EventDown(f) \/ IoctlStep(f) \/ EventSignal(f) \/ Close(f)
  \/ OpenBegin \/ OpenStep \/ StartFails \/ ClosePut
  \/ Remove \/ Stop("remove", "unlink") \/ RemoveDevice \/ RemovePut

Spec == Init /\ [][Next]_vars

(* Whoever runs goes on; the semaphore is given to those who wait in turn.  *)
FairSpec ==
  /\ Spec
  /\ WF_vars(ThreadStep) /\ SF_vars(ThreadSem)
  /\ WF_vars(OpenStep) /\ SF_vars(StartDown)
  /\ \A f \in File : WF_vars(IoctlStep(f)) /\ SF_vars(EventDown(f))
-----------------------------------------------------------------------------
TypeOK ==
  /\ sem \in Nat /\ exit \in {"no", "normal", "removed"}
  /\ state \in {"IDLE", "RETUNE", "TUNED", "DISEQC", "ERROR", "TUNING_FAST", "ZIGZAG_FAST", "SLOW"}
  /\ thread \in BOOLEAN /\ stopReq \in BOOLEAN
  /\ tpc \in {"none", "init", "wait", "down", "pass", "quit", "off", "exit"}
  /\ pc \in [open : {"idle", "generic", "start", "flag", "join", "joined", "down", "run",
                     "assign", "events", "fail", "lost"},
             remove : {"idle", "flag", "join", "joined", "unlink", "put", "gone", "lost"}]
  /\ file \subseteq File /\ refs \in Nat /\ puts \in Nat /\ elapsed \in BOOLEAN
  /\ ipc \in [File -> {"idle", "in", "test", "got", "again", "hold", "taken"}]
  /\ icmd \in [File -> Command \cup {"none"}]
  /\ queued \in 0 .. MaxEvent - 1 /\ overflow \in BOOLEAN /\ told \in BOOLEAN
  /\ oneshot \in BOOLEAN /\ status \in BOOLEAN /\ scan \in Scan
  /\ algo \in {"HW", "SW"} /\ hw \in {"off", "former", "last"}
  /\ signal \in [at : Trial, on : BOOLEAN]
  /\ wanted \in BOOLEAN
  /\ opens \in Nat /\ inputs \in Nat
  /\ orphan \in BOOLEAN /\ reinit \in BOOLEAN /\ overlap \in BOOLEAN

(* The thread and the ioctls never work on the frontend at the same time,   *)
(* across any number of restarts of the thread.  Exempt is what follows an  *)
(* initialisation of the semaphore while an ioctl held it.                  *)
SemExclusive == ~reinit => Cardinality(Holders) + sem = 1

(* A file that is open for writing has a thread that is not about to end,   *)
(* although the thread ends by itself after a close.  Exempt is an open     *)
(* that met the thread between its decision and fe->exit.                   *)
OpenHasThread ==
  W \in file /\ pc.remove = "idle" /\ ~orphan => thread /\ tpc # "none" /\ ~Ending

(* The frontend is not freed while a file, an ioctl or the thread uses it,  *)
(* unless the removal met an open or a thread that was ending by itself.    *)
FreedUnused ==
  refs = 0 /\ ~overlap => tpc = "none" /\ file = {} /\ pc.open = "idle"

(* The thread lives as long as it is needed and not longer.                 *)
ThreadLifetime == OpenHasThread /\ FreedUnused

(* FE_READ_STATUS never returns the lock of an earlier tuning.  Exempt is a *)
(* request that was overwritten by DiSEqC or refused by the driver.         *)
StatusFresh ==
  sem = 1 /\ exit = "no" /\ wanted /\ ReadsLock => hw = "last"

(* A fast scan that began with a request has tried every drift when the     *)
(* slow one begins, each with every inversion the request left open.  No    *)
(* inversion is promised once DTV_INVERSION or DTV_CLEAR writes the cache   *)
(* under the scan.                                                          *)
ScanComplete ==
  state = "SLOW" /\ scan.full =>
    /\ \A d \in Drifts(scan) : \E i \in {OFF, ON} : <<d, i>> \in scan.tried
    /\ Drifts(scan) \X scan.asked \subseteq scan.tried

(* Where a search for the last request finds a carrier.                     *)
Covered == IF LeftAlone THEN {scan.trial} ELSE Drifts(scan) \X Inversions(scan)

(* In the end the hardware is tuned to the last request, the last event     *)
(* tells whether it is locked, and it is if there is a carrier where the    *)
(* search looks.                                                            *)
Served ==
  W \in file /\ wanted /\ pc.remove = "idle" /\ ~orphan /\ ~reinit
    => /\ hw = "last"
       /\ oneshot \/ /\ told = Locked
                     /\ signal.on /\ (algo = "SW" => signal.at \in Covered) => told

Settles == <>[]Served
=============================================================================
