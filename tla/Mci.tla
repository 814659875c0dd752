--------------------------------- MODULE Mci ---------------------------------
(***************************************************************************)
(* The command port of an MCI card (ddbridge-mci.c): a mailbox, a start    *)
(* bit, an interrupt and a completion, used by several callers under       *)
(* mci_lock.  An I2C master (ddbridge-i2c.c) is the same under the lock of *)
(* its adapter, except that it is not asked whether it is busy, that       *)
(* command and answer share a buffer, and that a timeout is an error.      *)
(* Commands are numbered in the order in which they are written; a result  *)
(* is the number of the command it belongs to, 0 if it is of none.         *)
(* The device takes any time to execute a command, so a caller may time    *)
(* out before it has.                                                      *)
(***************************************************************************)
EXTENDS Integers

CONSTANTS Caller,
          NoOne,  \* the owner of a free mutex
          MaxCmd  \* bound on the commands written

ASSUME MciAssumption == NoOne \notin Caller /\ MaxCmd \in Nat

VARIABLES
  port,       \* "mci" or "i2c"
  \* the device
  start,      \* MCI_CONTROL_START_COMMAND; a transfer is under way
  command, result, \* the mailbox
  irq,        \* the bit in INTERRUPT_STATUS
  lost,       \* the PCIe link is gone, registers read as ones
  \* the driver
  owner,      \* who has mci_lock or the lock of the adapter
  done,       \* the completion
  handling,   \* the interrupt handler has acknowledged and not yet completed
  pc, cmd,    \* of each caller; the number of its command
  res, stat,  \* what its last call returned
  \* history
  timeouts    \* how often a caller has timed out

device == <<start, command, result, irq, lost>>
driver == <<owner, done, handling>>
caller == <<pc, cmd, res, stat>>
vars   == <<port, device, driver, caller, timeouts>>

Init ==
  /\ port \in {"mci", "i2c"}
  /\ start = FALSE /\ command = 0 /\ result = 0 /\ irq = FALSE /\ lost = FALSE
  /\ owner = NoOne /\ done = 0 /\ handling = FALSE
  /\ pc = [c \in Caller |-> "idle"] /\ cmd = [c \in Caller |-> 0]
  /\ res = [c \in Caller |-> 0] /\ stat = [c \in Caller |-> "ok"]
  /\ timeouts = 0

Goto(c, l) == pc' = [pc EXCEPT ![c] = l]
-----------------------------------------------------------------------------
Call(c) ==
  /\ pc[c] = "idle" /\ command < MaxCmd
  /\ Goto(c, "lock")
  /\ UNCHANGED <<device, driver, cmd, res, stat, timeouts>>

Lock(c) ==
  /\ pc[c] = "lock" /\ owner = NoOne
  /\ owner' = c
  /\ Goto(c, "check")
  /\ UNCHANGED <<device, done, handling, cmd, res, stat, timeouts>>

(* -EIO while an MCI still executes a command, or seems to.                 *)
Check(c) ==
  /\ pc[c] = "check"
  /\ IF port = "mci" /\ (start \/ lost)
     THEN stat' = [stat EXCEPT ![c] = "EIO"] /\ Goto(c, "unlock")
     ELSE stat' = [stat EXCEPT ![c] = "ok"] /\ Goto(c, "write")
  /\ UNCHANGED <<device, driver, cmd, res, timeouts>>

(* What an I2C transfer sends is put where its answer will be.              *)
SharedBuffer == port = "i2c" /\ result' = 0

Write(c) ==
  /\ pc[c] = "write"
  /\ command' = command + 1
  /\ cmd' = [cmd EXCEPT ![c] = command + 1]
  /\ \/ UNCHANGED result
     \/ SharedBuffer
  /\ Goto(c, "start")
  /\ UNCHANGED <<start, irq, lost, driver, res, stat, timeouts>>

Start(c) ==
  /\ pc[c] = "start"
  /\ start' = TRUE
  /\ Goto(c, "wait")
  /\ UNCHANGED <<command, result, irq, lost, driver, cmd, res, stat, timeouts>>

\* Mutant: the completion is not taken.
Completed_NotTaken(c) ==
  /\ pc[c] = "wait" /\ done > 0
  /\ Goto(c, "read")
  /\ UNCHANGED <<device, driver, cmd, res, stat, timeouts>>

(* An I2C transfer may have met an error on the bus.                        *)
BusError(c) == port = "i2c" /\ stat' = [stat EXCEPT ![c] = "EIO"] /\ Goto(c, "unlock")

Completed(c) ==
  /\ pc[c] = "wait" /\ done > 0
  /\ done' = done - 1
  /\ \/ Goto(c, "read") /\ UNCHANGED stat
     \/ BusError(c)
  /\ UNCHANGED <<device, owner, handling, cmd, res, timeouts>>

(* The wait ends without a completion.  A pending interrupt may be cleared  *)
(* then; an MCI call goes on as if there had been an answer.                *)
Timeout(c) ==
  /\ pc[c] = "wait" /\ done = 0
  /\ timeouts' = timeouts + 1
  /\ irq' \in (IF lost THEN {irq} ELSE {irq, FALSE})
  /\ IF lost \/ port = "i2c"
     THEN stat' = [stat EXCEPT ![c] = "EIO"] /\ Goto(c, "unlock")
     ELSE Goto(c, "read") /\ UNCHANGED stat
  /\ UNCHANGED <<start, command, result, lost, driver, cmd, res>>

Read(c) ==
  /\ pc[c] = "read"
  /\ res' = [res EXCEPT ![c] = IF lost THEN 0 ELSE result]
  /\ Goto(c, "unlock")
  /\ UNCHANGED <<device, driver, cmd, stat, timeouts>>

Unlock(c) ==
  /\ pc[c] = "unlock"
  /\ owner' = NoOne
  /\ Goto(c, "idle")
  /\ UNCHANGED <<device, done, handling, cmd, res, stat, timeouts>>
-----------------------------------------------------------------------------
(* The device finishes the command.                                         *)
Execute ==
  /\ start
  /\ result' = command /\ start' = FALSE /\ irq' = TRUE
  /\ UNCHANGED <<command, lost, driver, caller, timeouts>>

Lose ==
  /\ ~lost /\ lost' = TRUE
  /\ UNCHANGED <<start, command, result, irq, driver, caller, timeouts>>

\* Mutant: the interrupt is not acknowledged.
Acknowledge_NoAck ==
  /\ irq /\ ~handling /\ ~lost
  /\ handling' = TRUE
  /\ UNCHANGED <<device, owner, done, caller, timeouts>>

(* ddb_irq_handler acknowledges the interrupt before it calls mci_handler.  *)
Acknowledge ==
  /\ irq /\ ~handling /\ ~lost
  /\ irq' = FALSE /\ handling' = TRUE
  /\ UNCHANGED <<start, command, result, lost, owner, done, caller, timeouts>>

Complete ==
  /\ handling
  /\ handling' = FALSE /\ done' = done + 1
  /\ UNCHANGED <<device, owner, caller, timeouts>>
-----------------------------------------------------------------------------
Go(c) ==
  \/ Check(c) \/ Write(c) \/ Start(c) \/ Completed(c) \/ Timeout(c)
  \/ Read(c) \/ Unlock(c)

Next ==
  /\ UNCHANGED port
  /\ \/ \E c \in Caller : Call(c) \/ Lock(c) \/ Go(c)
     \/ Execute \/ Lose \/ Acknowledge \/ Complete

Spec == Init /\ [][Next]_vars
-----------------------------------------------------------------------------
(* The registers, the completion and the calls have values of their kinds.  *)
TypeOK ==
  /\ port \in {"mci", "i2c"}
  /\ start \in BOOLEAN /\ command \in Nat /\ result \in Nat /\ irq \in BOOLEAN /\ lost \in BOOLEAN
  /\ owner \in Caller \cup {NoOne} /\ done \in Nat /\ handling \in BOOLEAN
  /\ pc \in [Caller -> {"idle", "lock", "check", "write", "start", "wait", "read", "unlock"}]
  /\ cmd \in [Caller -> Nat] /\ res \in [Caller -> Nat] /\ stat \in [Caller -> {"ok", "EIO"}]
  /\ timeouts \in Nat

(* The mailbox of an MCI is not written while the device executes what is   *)
(* in it, also not after a timeout, when the driver has given the command   *)
(* up.  The buffer of an I2C master is.                                     *)
MailboxStable == [][start /\ port = "mci" => command' = command]_vars

(* As long as no wait has timed out and the link is there, the result a     *)
(* caller reads is that of its own command, and an MCI is never found busy. *)
OwnResult ==
  timeouts = 0 /\ ~lost => \A c \in Caller :
    /\ port = "mci" => stat[c] = "ok"
    /\ pc[c] = "unlock" /\ stat[c] = "ok" => res[c] = cmd[c]

(* The completion is not reset before a command: one that comes late stays. *)
(* Each timeout leaves at most one, so with n timeouts at most n commands   *)
(* later on are answered too early.                                         *)
Inflight == (IF start THEN 1 ELSE 0) + (IF irq THEN 1 ELSE 0)
              + (IF handling THEN 1 ELSE 0) + done
LateBounded ==
  Inflight <= timeouts + (IF \E c \in Caller : pc[c] = "wait" THEN 1 ELSE 0)
=============================================================================
