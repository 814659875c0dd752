----------------------------- MODULE Mci_proofs -----------------------------
(***************************************************************************)
(* The command port for any number of callers and commands.                *)
(***************************************************************************)
EXTENDS Mci, TLAPS

Locked == {"check", "write", "start", "wait", "read", "unlock"}

(* Between mutex_lock and mutex_unlock a caller has the mutex.              *)
MutexHeld == \A c \in Caller : pc[c] \in Locked => owner = c

(* Once an MCI was found idle it stays idle until the caller starts it, and *)
(* from the write on the mailbox holds the caller's command.                *)
PortReserved == \A c \in Caller :
  /\ port = "mci" /\ pc[c] \in {"write", "start"} => ~start
  /\ pc[c] \in {"start", "wait", "read"} => cmd[c] = command

Waiting == \E c \in Caller : pc[c] = "wait"

(* Before the first timeout what has been completed is the command in the   *)
(* mailbox.                                                                 *)
AnswerCurrent ==
  timeouts = 0 =>
    /\ irq \/ handling \/ done > 0 => result = command
    /\ ~lost => \A c \in Caller :
         /\ port = "mci" => stat[c] = "ok"
         /\ pc[c] = "read" => result = command
         /\ pc[c] = "unlock" /\ stat[c] = "ok" => res[c] = cmd[c]

IInv == TypeOK /\ MutexHeld /\ PortReserved /\ LateBounded /\ AnswerCurrent
-----------------------------------------------------------------------------
(* What is under way, as a number.                                          *)
LEMMA InflightCount ==
  ASSUME TypeOK
  PROVE  /\ Inflight \in Nat
         /\ Inflight = 0 => ~start /\ ~irq /\ ~handling /\ done = 0
  BY DEF TypeOK, Inflight

(* The bound in terms of Waiting.                                           *)
LEMMA BoundCases ==
  LateBounded <=> /\ Waiting => Inflight <= timeouts + 1
                  /\ ~Waiting => Inflight <= timeouts + 0
  BY DEF LateBounded, Waiting

(* A port nobody uses.                                                      *)
LEMMA IInvInit == Init => IInv
<1> SUFFICES ASSUME Init PROVE IInv
  OBVIOUS
<1> USE MciAssumption DEF Init
<1>1. TypeOK
  BY DEF TypeOK
<1>2. MutexHeld /\ PortReserved /\ AnswerCurrent
  BY DEF MutexHeld, Locked, PortReserved, AnswerCurrent
<1>3. LateBounded
  <2>1. ~Waiting /\ Inflight = 0
    BY DEF Waiting, Inflight
  <2> QED
    BY <2>1, BoundCases
<1> QED
  BY <1>1, <1>2, <1>3 DEF IInv

(* With the mutex, only the caller that has it can be waiting.              *)
LEMMA OwnerWaits ==
  ASSUME TypeOK, MutexHeld, NEW c \in Caller, pc[c] \in Locked
  PROVE  Waiting <=> pc[c] = "wait"
  BY DEF TypeOK, MutexHeld, Locked, Waiting

(* Every step keeps the invariant.                                          *)
LEMMA IInvNext == IInv /\ [Next]_vars => IInv'
<1> SUFFICES ASSUME IInv, [Next]_vars PROVE IInv'
  OBVIOUS
<1>p. port' = port
  BY DEF Next, vars
<1>0. /\ Inflight \in Nat /\ timeouts \in Nat /\ done \in Nat
      /\ Waiting => Inflight <= timeouts + 1
      /\ ~Waiting => Inflight <= timeouts
      /\ Inflight = 0 => ~start /\ ~irq /\ ~handling /\ done = 0
  BY InflightCount, BoundCases DEF IInv, TypeOK
<1> USE <1>p DEF IInv
<1>1. ASSUME NEW c \in Caller, Call(c) PROVE IInv'
  <2>1. /\ pc' = [pc EXCEPT ![c] = "lock"] /\ pc[c] = "idle"
        /\ UNCHANGED <<device, driver, cmd, res, stat, timeouts>>
    BY <1>1 DEF Call, Goto
  <2>2. TypeOK'
    BY <2>1 DEF TypeOK, device, driver
  <2>3. MutexHeld' /\ PortReserved' /\ AnswerCurrent'
    BY <2>1 DEF TypeOK, MutexHeld, Locked, PortReserved, AnswerCurrent, device, driver
  <2>4. Waiting' = Waiting /\ Inflight' = Inflight
    BY <2>1 DEF TypeOK, Waiting, Inflight, device, driver
  <2> QED
    BY <2>1, <2>2, <2>3, <2>4, <1>0, BoundCases DEF LateBounded, Waiting
<1>2. ASSUME NEW c \in Caller, Lock(c) PROVE IInv'
  <2>1. /\ pc' = [pc EXCEPT ![c] = "check"] /\ pc[c] = "lock" /\ owner = NoOne /\ owner' = c
        /\ UNCHANGED <<device, done, handling, cmd, res, stat, timeouts>>
    BY <1>2 DEF Lock, Goto
  <2>2. TypeOK'
    BY <2>1 DEF TypeOK, device
  <2>3. MutexHeld' /\ PortReserved' /\ AnswerCurrent'
    BY <2>1, MciAssumption DEF TypeOK, MutexHeld, Locked, PortReserved, AnswerCurrent, device
  <2>4. Waiting' = Waiting /\ Inflight' = Inflight
    BY <2>1 DEF TypeOK, Waiting, Inflight, device
  <2> QED
    BY <2>1, <2>2, <2>3, <2>4, <1>0 DEF LateBounded, Waiting
<1>3. ASSUME NEW c \in Caller, Check(c) PROVE IInv'
  <2>1. /\ pc[c] = "check" /\ UNCHANGED <<device, driver, cmd, res, timeouts>>
        /\ \/ /\ port = "mci" /\ (start \/ lost)
              /\ stat' = [stat EXCEPT ![c] = "EIO"] /\ pc' = [pc EXCEPT ![c] = "unlock"]
           \/ /\ port = "mci" => ~start
              /\ stat' = [stat EXCEPT ![c] = "ok"] /\ pc' = [pc EXCEPT ![c] = "write"]
    BY <1>3 DEF Check, Goto
  <2>2. ~Waiting
    BY <2>1, OwnerWaits DEF Locked
  <2>3. TypeOK'
    BY <2>1 DEF TypeOK, device, driver
  <2>4. MutexHeld' /\ PortReserved'
    BY <2>1 DEF TypeOK, MutexHeld, Locked, PortReserved, device, driver
  <2>5. timeouts = 0 => ~start
    BY <2>2, <1>0
  <2>6. AnswerCurrent'
    BY <2>1, <2>5 DEF TypeOK, AnswerCurrent, device, driver
  <2>7. ~Waiting' /\ Inflight' = Inflight
    BY <2>1, <2>2 DEF TypeOK, Waiting, Inflight, device, driver
  <2>8. LateBounded'
    BY <2>1, <2>2, <2>7, <1>0 DEF LateBounded, Waiting
  <2> QED
    BY <2>3, <2>4, <2>6, <2>8
<1>4. ASSUME NEW c \in Caller, Write(c) PROVE IInv'
  <2>1. /\ pc[c] = "write" /\ pc' = [pc EXCEPT ![c] = "start"]
        /\ command' = command + 1 /\ cmd' = [cmd EXCEPT ![c] = command + 1]
        /\ result' \in {result, 0}
        /\ UNCHANGED <<start, irq, lost, driver, res, stat, timeouts>>
    BY <1>4 DEF Write, SharedBuffer, Goto
  <2>2. ~Waiting
    BY <2>1, OwnerWaits DEF Locked
  <2>3. TypeOK'
    BY <2>1 DEF TypeOK, driver
  <2>4. MutexHeld'
    BY <2>1 DEF TypeOK, MutexHeld, Locked, driver
  <2>5. \A d \in Caller : pc[d] \in Locked => d = c
    BY <2>1 DEF MutexHeld, Locked
  <2>6. PortReserved'
    BY <2>1, <2>5 DEF TypeOK, PortReserved, Locked, driver
  <2>7. AnswerCurrent'
    <3>1. timeouts = 0 => ~irq /\ ~handling /\ done = 0
      BY <2>2, <1>0
    <3> QED
      BY <2>1, <2>5, <3>1 DEF TypeOK, AnswerCurrent, Locked, driver
  <2>8. ~Waiting' /\ Inflight' = Inflight
    BY <2>1, <2>2 DEF TypeOK, Waiting, Inflight, driver
  <2>9. LateBounded'
    BY <2>1, <2>2, <2>8, <1>0 DEF LateBounded, Waiting
  <2> QED
    BY <2>3, <2>4, <2>6, <2>7, <2>9
<1>5. ASSUME NEW c \in Caller, Start(c) PROVE IInv'
  <2>1. /\ pc[c] = "start" /\ pc' = [pc EXCEPT ![c] = "wait"] /\ start' = TRUE
        /\ UNCHANGED <<command, result, irq, lost, driver, cmd, res, stat, timeouts>>
    BY <1>5 DEF Start, Goto
  <2>2. ~Waiting
    BY <2>1, OwnerWaits DEF Locked
  <2>3. TypeOK'
    BY <2>1 DEF TypeOK, driver
  <2>4. \A d \in Caller : pc[d] \in Locked => d = c
    BY <2>1 DEF MutexHeld, Locked
  <2>5. MutexHeld' /\ PortReserved' /\ AnswerCurrent'
    BY <2>1, <2>4 DEF TypeOK, MutexHeld, Locked, PortReserved, AnswerCurrent, driver
  <2>6. Inflight' \in Nat /\ Inflight' <= Inflight + 1
    BY <2>1 DEF TypeOK, Inflight, driver
  <2>7. Waiting'
    BY <2>1 DEF TypeOK, Waiting
  <2>8. LateBounded'
    BY <2>1, <2>2, <2>6, <2>7, <1>0 DEF LateBounded, Waiting
  <2> QED
    BY <2>3, <2>5, <2>8
<1>6. ASSUME NEW c \in Caller, Completed(c) PROVE IInv'
  <2>1. /\ pc[c] = "wait" /\ done > 0 /\ done' = done - 1
        /\ \/ pc' = [pc EXCEPT ![c] = "read"] /\ stat' = stat
           \/ /\ port = "i2c" /\ pc' = [pc EXCEPT ![c] = "unlock"]
              /\ stat' = [stat EXCEPT ![c] = "EIO"]
        /\ UNCHANGED <<device, owner, handling, cmd, res, timeouts>>
    BY <1>6 DEF Completed, BusError, Goto
  <2>2. Waiting
    BY <2>1 DEF Waiting
  <2>3. TypeOK'
    BY <2>1 DEF TypeOK, device
  <2>4. \A d \in Caller : pc[d] \in Locked => d = c
    BY <2>1 DEF MutexHeld, Locked
  <2>5. MutexHeld' /\ PortReserved'
    BY <2>1, <2>4 DEF TypeOK, MutexHeld, Locked, PortReserved, device
  <2>6. AnswerCurrent'
    BY <2>1, <2>4, <1>0 DEF TypeOK, AnswerCurrent, Locked, device
  <2>7. Inflight' = Inflight - 1
    BY <2>1 DEF TypeOK, Inflight, device
  <2>8. ~Waiting'
    BY <2>1, <2>4 DEF TypeOK, Waiting, Locked
  <2>9. LateBounded'
    BY <2>1, <2>2, <2>7, <2>8, <1>0 DEF LateBounded, Waiting
  <2> QED
    BY <2>3, <2>5, <2>6, <2>9
<1>7. ASSUME NEW c \in Caller, Timeout(c) PROVE IInv'
  <2>1. /\ pc[c] = "wait" /\ pc' \in {[pc EXCEPT ![c] = "read"], [pc EXCEPT ![c] = "unlock"]}
        /\ timeouts' = timeouts + 1 /\ irq' \in {irq, FALSE}
        /\ stat' \in {stat, [stat EXCEPT ![c] = "EIO"]}
        /\ UNCHANGED <<start, command, result, lost, driver, cmd, res>>
    BY <1>7 DEF Timeout, Goto
  <2>2. Waiting
    BY <2>1 DEF Waiting
  <2>3. TypeOK'
    <3>1. irq' \in BOOLEAN
      BY <2>1 DEF TypeOK
    <3>2. /\ pc' \in [Caller -> {"idle", "lock", "check", "write", "start", "wait", "read",
                                "unlock"}]
          /\ stat' \in [Caller -> {"ok", "EIO"}] /\ timeouts' \in Nat
      BY <2>1 DEF TypeOK
    <3> QED
      BY <2>1, <3>1, <3>2 DEF TypeOK, driver
  <2>4. \A d \in Caller : pc[d] \in Locked => d = c
    BY <2>1 DEF MutexHeld, Locked
  <2>5. MutexHeld' /\ PortReserved'
    BY <2>1, <2>4 DEF TypeOK, MutexHeld, Locked, PortReserved, driver
  <2>6. AnswerCurrent'
    <3>1. timeouts' # 0
      BY <2>1, <1>0
    <3> QED
      BY <3>1 DEF AnswerCurrent
  <2>7. Inflight' <= Inflight /\ Inflight' \in Nat
    <3>1. /\ start' = start /\ handling' = handling /\ done' = done
          /\ irq' = irq \/ irq' = FALSE
      BY <2>1 DEF driver
    <3>2. CASE irq' = irq
      BY <3>1, <3>2, <1>0 DEF Inflight
    <3>3. CASE irq' = FALSE
      BY <3>1, <3>3, <1>0 DEF TypeOK, Inflight
    <3> QED
      BY <3>1, <3>2, <3>3
  <2>8. ~Waiting'
    BY <2>1, <2>4 DEF TypeOK, Waiting, Locked
  <2>9. LateBounded'
    BY <2>1, <2>2, <2>7, <2>8, <1>0 DEF LateBounded, Waiting
  <2> QED
    BY <2>3, <2>5, <2>6, <2>9
<1>8. ASSUME NEW c \in Caller, Read(c) PROVE IInv'
  <2>1. /\ pc[c] = "read" /\ pc' = [pc EXCEPT ![c] = "unlock"]
        /\ res' = [res EXCEPT ![c] = IF lost THEN 0 ELSE result]
        /\ UNCHANGED <<device, driver, cmd, stat, timeouts>>
    BY <1>8 DEF Read, Goto
  <2>2. ~Waiting
    BY <2>1, OwnerWaits DEF Locked
  <2>3. TypeOK'
    BY <2>1 DEF TypeOK, device, driver
  <2>4. MutexHeld' /\ PortReserved'
    BY <2>1 DEF TypeOK, MutexHeld, Locked, PortReserved, device, driver
  <2>5. AnswerCurrent'
    BY <2>1 DEF TypeOK, AnswerCurrent, PortReserved, device, driver
  <2>6. ~Waiting' /\ Inflight' = Inflight
    BY <2>1, <2>2 DEF TypeOK, Waiting, Inflight, device, driver
  <2>7. LateBounded'
    BY <2>1, <2>2, <2>6, <1>0 DEF LateBounded, Waiting
  <2> QED
    BY <2>3, <2>4, <2>5, <2>7
<1>9. ASSUME NEW c \in Caller, Unlock(c) PROVE IInv'
  <2>1. /\ pc[c] = "unlock" /\ pc' = [pc EXCEPT ![c] = "idle"] /\ owner' = NoOne
        /\ UNCHANGED <<device, done, handling, cmd, res, stat, timeouts>>
    BY <1>9 DEF Unlock, Goto
  <2>2. ~Waiting
    BY <2>1, OwnerWaits DEF Locked
  <2>3. TypeOK'
    BY <2>1 DEF TypeOK, device
  <2>4. \A d \in Caller : pc[d] \in Locked => d = c
    BY <2>1 DEF MutexHeld, Locked
  <2>5. MutexHeld' /\ PortReserved' /\ AnswerCurrent'
    BY <2>1, <2>4 DEF TypeOK, MutexHeld, Locked, PortReserved, AnswerCurrent, device
  <2>6. ~Waiting' /\ Inflight' = Inflight
    BY <2>1, <2>2 DEF TypeOK, Waiting, Inflight, device
  <2>7. LateBounded'
    BY <2>1, <2>2, <2>6, <1>0 DEF LateBounded, Waiting
  <2> QED
    BY <2>3, <2>5, <2>7
<1>10. CASE Execute
  <2>1. /\ start /\ start' = FALSE /\ irq' = TRUE /\ result' = command
        /\ UNCHANGED <<command, lost, driver, caller, timeouts>>
    BY <1>10 DEF Execute
  <2>2. TypeOK'
    BY <2>1 DEF TypeOK, driver, caller
  <2>3. MutexHeld' /\ PortReserved' /\ AnswerCurrent'
    BY <2>1 DEF MutexHeld, PortReserved, AnswerCurrent, driver, caller
  <2>4. Inflight' <= Inflight /\ Inflight' \in Nat /\ Waiting' = Waiting
    BY <2>1 DEF TypeOK, Inflight, Waiting, driver, caller
  <2>5. LateBounded'
    BY <2>1, <2>4, <1>0 DEF LateBounded, Waiting
  <2> QED
    BY <2>2, <2>3, <2>5
<1>11. CASE Lose
  <2>1. lost' = TRUE /\ UNCHANGED <<start, command, result, irq, driver, caller, timeouts>>
    BY <1>11 DEF Lose
  <2>2. TypeOK' /\ MutexHeld' /\ PortReserved' /\ AnswerCurrent'
    BY <2>1 DEF TypeOK, MutexHeld, PortReserved, AnswerCurrent, driver, caller
  <2>3. LateBounded'
    BY <2>1 DEF LateBounded, Inflight, driver, caller
  <2> QED
    BY <2>2, <2>3
<1>12. CASE Acknowledge
  <2>1. /\ irq /\ ~handling /\ irq' = FALSE /\ handling' = TRUE
        /\ UNCHANGED <<start, command, result, lost, owner, done, caller, timeouts>>
    BY <1>12 DEF Acknowledge
  <2>2. TypeOK' /\ MutexHeld' /\ PortReserved' /\ AnswerCurrent'
    BY <2>1 DEF TypeOK, MutexHeld, PortReserved, AnswerCurrent, caller
  <2>3. Inflight' = Inflight /\ Waiting' = Waiting
    BY <2>1 DEF TypeOK, Inflight, Waiting, caller
  <2>4. LateBounded'
    BY <2>1, <2>3, <1>0 DEF LateBounded, Waiting
  <2> QED
    BY <2>2, <2>4
<1>13. CASE Complete
  <2>1. /\ handling /\ handling' = FALSE /\ done' = done + 1
        /\ UNCHANGED <<device, owner, caller, timeouts>>
    BY <1>13 DEF Complete
  <2>2. TypeOK'
    <3>1. done' \in Nat
      BY <2>1 DEF TypeOK
    <3>2. /\ start' = start /\ command' = command /\ result' = result /\ irq' = irq
          /\ lost' = lost /\ pc' = pc /\ cmd' = cmd /\ res' = res /\ stat' = stat
          /\ owner' = owner /\ timeouts' = timeouts /\ handling' \in BOOLEAN
      BY <2>1 DEF device, caller
    <3> QED
      BY <3>1, <3>2 DEF TypeOK
  <2>a. MutexHeld' /\ PortReserved'
    BY <2>1 DEF MutexHeld, PortReserved, device, caller
  <2>b. AnswerCurrent'
    <3>1. timeouts = 0 => result = command
      BY <2>1 DEF AnswerCurrent
    <3>2. /\ timeouts' = timeouts /\ result' = result /\ command' = command /\ lost' = lost
          /\ stat' = stat /\ pc' = pc /\ res' = res /\ cmd' = cmd
      BY <2>1 DEF device, caller
    <3> QED
      BY <3>1, <3>2 DEF AnswerCurrent
  <2>3. Inflight' = Inflight /\ Waiting' = Waiting
    BY <2>1 DEF TypeOK, Inflight, Waiting, device, caller
  <2>4. LateBounded'
    BY <2>1, <2>3, <1>0 DEF LateBounded, Waiting
  <2> QED
    BY <2>2, <2>a, <2>b, <2>4
<1>14. CASE UNCHANGED vars
  BY <1>14 DEF vars, device, driver, caller, TypeOK, MutexHeld, PortReserved, LateBounded,
     Inflight, AnswerCurrent
<1> QED
  BY <1>1, <1>2, <1>3, <1>4, <1>5, <1>6, <1>7, <1>8, <1>9, <1>10, <1>11, <1>12, <1>13,
     <1>14 DEF Next, Go

(* Every reachable state has the invariant.                                 *)
THEOREM PortInvariant == Spec => []IInv
  BY IInvInit, IInvNext, PTL DEF Spec

(* The registers, the completion and the calls have values of their kinds.  *)
THEOREM PortWellTyped == Spec => []TypeOK
<1>1. IInv => TypeOK
  BY DEF IInv
<1> QED
  BY <1>1, PortInvariant, PTL

(* ddb_mci_cmd_raw_unlocked: as long as no wait has timed out a caller gets *)
(* the result of its own command.                                           *)
THEOREM ResultsOwn == Spec => []OwnResult
<1>1. IInv => OwnResult
  BY DEF IInv, AnswerCurrent, OwnResult
<1> QED
  BY <1>1, PortInvariant, PTL

(* A completion that nobody waits for is left by a timeout, one by each.    *)
THEOREM LateCompletionsBounded == Spec => []LateBounded
<1>1. IInv => LateBounded
  BY DEF IInv
<1> QED
  BY <1>1, PortInvariant, PTL

(* The test of MCI_CONTROL_START_COMMAND under the mutex keeps a command in *)
(* the mailbox until the device has executed it, timeouts or not.           *)
THEOREM MailboxKept == Spec => MailboxStable
<1>1. IInv /\ [Next]_vars => [start /\ port = "mci" => command' = command]_vars
  <2> SUFFICES ASSUME IInv, Next, start, port = "mci" PROVE command' = command
    OBVIOUS
  <2>1. ASSUME NEW c \in Caller, Write(c) PROVE FALSE
    BY <2>1 DEF Write, IInv, PortReserved
  <2> QED
    BY <2>1 DEF Next, Go, Call, Lock, Check, Start, Completed, Timeout, Read, Unlock,
       Execute, Lose, Acknowledge, Complete, device
<1> QED
  BY <1>1, PortInvariant, PTL DEF Spec, MailboxStable
=============================================================================
