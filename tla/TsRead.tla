------------------------------- MODULE TsRead -------------------------------
(***************************************************************************)
(* The capture side of a CI port: the DMA engine of one ddb_input fills a  *)
(* ring of dma->num buffers, the interrupt handler copies the engine's     *)
(* position into dma->stat, a process reads the ring through ts_read() and *)
(* any process that holds the device open may call ts_poll().              *)
(*                                                                         *)
(* Data are numbered cells of the incoming transport stream.  One buffer   *)
(* holds Size cells, so cbuf/coff and the (idx, off) pair of a DMA         *)
(* register are kept as the code keeps them, with off counted in cells.    *)
(***************************************************************************)
EXTENDS InputEngine

CONSTANT MaxCount   \* bound: cells one read() call asks for

ASSUME ReadAssumption == MaxCount \in Nat \ {0}

VARIABLES
  \* struct ddb_dma of the input
  cbuf, coff, stat, running,
  \* the reading process and the polling process
  pc, left, snap, nonblock, woken, ppc, psnap,
  \* history of the current open
  base,     \* arrived at ddb_input_start
  taken,    \* cells copied to user space
  last,     \* number of the last cell copied
  resync    \* an overflow was acknowledged with ACK(stat)

dmaVars    == <<cbuf, coff, stat, running>>
readerVars == <<pc, left, snap, nonblock, woken>>
pollVars   == <<ppc, psnap>>
history    == <<base, taken, last, resync>>
vars       == <<hwVars, dmaVars, readerVars, pollVars, history>>

Arrival ==
  /\ HwStore \/ HwDrop
  /\ UNCHANGED <<dmaVars, readerVars, pollVars, history>>

-----------------------------------------------------------------------------
(* input_handler() for an input without redi: input_proc() runs inline      *)
(* under dma->lock and wakes the readers.                                   *)

\* wake_up(&dma->wq) reaches who is on the queue.
Waiting == {"wavail", "wctrl", "wack", "sleep"}

InputProc ==
  IF running
  THEN /\ stat' = pos
       /\ woken' = (pc \in Waiting)
  ELSE UNCHANGED <<stat, woken>>

InputHandler ==
  /\ irq
  /\ irq' = FALSE
  /\ InputProc
  /\ UNCHANGED <<gap, hwRun, pos, ack, ovf, mem, arrived, dropped, cbuf, coff, running,
                 pc, left, snap, nonblock, pollVars, history>>

-----------------------------------------------------------------------------
(* ts_open(O_RDONLY) and ts_release().                                      *)

ResetDma_KeepOffset == cbuf' = 0 /\ coff' = coff /\ stat' = Origin
ResetDma            == cbuf' = 0 /\ coff' = 0 /\ stat' = Origin

\* ddb_input_start_unlocked().
TsOpen ==
  /\ pc = "closed"
  /\ pc' = "idle"
  /\ ResetDma /\ running' = TRUE
  /\ HwStart
  /\ base' = arrived /\ taken' = 0 /\ last' = arrived /\ resync' = FALSE
  /\ UNCHANGED <<left, snap, nonblock, woken, pollVars>>

\* ddb_input_stop_unlocked().
TsRelease ==
  /\ pc = "idle"
  /\ pc' = "closed"
  /\ running' = FALSE
  /\ HwStop
  /\ UNCHANGED <<cbuf, coff, stat,
                 left, snap, nonblock, woken, pollVars, history>>

-----------------------------------------------------------------------------
(* ddb_input_avail(): dma->stat is read first, the control register after   *)
(* it (Avail, for a caller that holds the value s), and then an overflow    *)
(* that was seen there is acknowledged.                                     *)

Avail(s) == ~ovf /\ cbuf # s.idx

AckOverflow(s) == WriteAck(s) /\ resync' = TRUE

-----------------------------------------------------------------------------
(* ts_read().  What is held in a local is forgotten after its last use, so  *)
(* that states which differ in nothing else are one.                        *)

Return == pc' = "idle" /\ left' = 0 /\ nonblock' = FALSE
Goto(p) == pc' = p /\ UNCHANGED <<left, nonblock>>

ReadCall ==
  /\ pc = "idle"
  /\ \E n \in 1 .. MaxCount, nb \in BOOLEAN : left' = n /\ nonblock' = nb
  /\ pc' = "avail"
  /\ UNCHANGED <<hwVars, dmaVars, snap, woken, pollVars, history>>

\* The first half of ddb_input_avail, outside and inside wait_event.
LoadStat ==
  /\ \/ pc = "avail"  /\ pc' = "ctrl"
     \/ pc = "wavail" /\ pc' = "wctrl"
  /\ snap' = stat
  /\ UNCHANGED <<hwVars, dmaVars, left, nonblock, woken, pollVars, history>>

NothingYet == IF nonblock THEN Return ELSE Goto("enqueue")

\* The check in front of wait_event_interruptible.
CheckAvail ==
  /\ pc = "ctrl"
  /\ IF ovf THEN Goto("ack") ELSE IF Avail(snap) THEN Goto("read") ELSE NothingYet
  /\ snap' = IF ovf THEN snap ELSE Origin
  /\ UNCHANGED <<hwVars, dmaVars, woken, pollVars, history>>

\* An overflow is acknowledged, outside and inside wait_event.
ReadAck ==
  /\ \/ pc = "ack" /\ NothingYet
     \/ pc = "wack" /\ Goto("sleep")
  /\ AckOverflow(snap) /\ snap' = Origin
  /\ UNCHANGED <<gap, hwRun, pos, irq, mem, arrived, dropped, dmaVars, woken, pollVars,
                 base, taken, last>>

Enqueue_NoRecheck ==
  /\ pc = "enqueue"
  /\ pc' = "sleep"
  /\ woken' = FALSE
  /\ UNCHANGED <<hwVars, dmaVars, left, snap, nonblock, pollVars, history>>

\* prepare_to_wait: the process is on dma->wq before it looks again.
Enqueue ==
  /\ pc = "enqueue"
  /\ pc' = "wavail"
  /\ woken' = FALSE
  /\ UNCHANGED <<hwVars, dmaVars, left, snap, nonblock, pollVars, history>>

WaitCheck ==
  /\ pc = "wctrl"
  /\ pc' = IF ovf THEN "wack" ELSE IF Avail(snap) THEN "read" ELSE "sleep"
  /\ snap' = (IF ovf THEN snap ELSE Origin) /\ woken' = (woken /\ pc' # "read")
  /\ UNCHANGED <<hwVars, dmaVars, left, nonblock, pollVars, history>>

WakeUp ==
  /\ pc = "sleep" /\ woken
  /\ pc' = "enqueue" /\ woken' = FALSE
  /\ UNCHANGED <<hwVars, dmaVars, left, snap, nonblock, pollVars, history>>

\* A signal ends the wait; the call returns what it has copied, or -EAGAIN.
Signal ==
  /\ pc = "sleep"
  /\ Return /\ woken' = FALSE
  /\ UNCHANGED <<hwVars, dmaVars, snap, pollVars, history>>

\* ddb_input_read() samples dma->stat once ...
ReadBegin ==
  /\ pc = "read"
  /\ pc' = "copy"
  /\ snap' = stat
  /\ UNCHANGED <<hwVars, dmaVars, left, nonblock, woken, pollVars, history>>

\* ... and copies chunk after chunk until it meets that position.
ChunkLen == IF Size - coff < left THEN Size - coff ELSE left

Advance(n) ==
  IF coff + n = Size THEN coff' = 0 /\ cbuf' = NextBuf(cbuf)
                     ELSE coff' = coff + n /\ cbuf' = cbuf

\* The position a chunk releases to the engine: the data copied, no more.  The
\* code rounds the offset down to 128 bytes, which only releases less.
Released_Ahead == At(NextBuf(cbuf'), 0)
Released       == At(cbuf', coff')

Copy ==
  /\ pc = "copy" /\ left > 0 /\ cbuf # snap.idx
  /\ LET n == ChunkLen IN
       /\ taken' = taken + n
       /\ last' = mem[At(cbuf, coff + n - 1)]
       /\ left' = left - n
       /\ Advance(n)
       /\ WriteAck(Released)
  /\ UNCHANGED <<gap, hwRun, pos, irq, mem, arrived, dropped, stat, running, pc, snap, nonblock,
                 woken, pollVars, base, resync>>

\* copy_to_user fails: -EFAULT, nothing is consumed.
CopyFault ==
  /\ pc = "copy" /\ left > 0 /\ cbuf # snap.idx
  /\ Return /\ snap' = Origin
  /\ UNCHANGED <<hwVars, dmaVars, woken, pollVars, history>>

ReadEnd ==
  /\ pc = "copy" /\ (left = 0 \/ cbuf = snap.idx)
  /\ IF left = 0 THEN Return ELSE Goto("avail")
  /\ snap' = Origin
  /\ UNCHANGED <<hwVars, dmaVars, woken, pollVars, history>>

-----------------------------------------------------------------------------
(* ts_poll() by a process that has the device open, for instance the one    *)
(* that writes to it.                                                       *)

PollBegin ==
  /\ ppc = "idle"
  /\ ppc' = "ctrl" /\ psnap' = stat
  /\ UNCHANGED <<hwVars, dmaVars, readerVars, history>>

PollEnd ==
  /\ ppc = "ctrl"
  /\ ppc' = IF ovf THEN "ack" ELSE "idle"
  /\ psnap' = IF ovf THEN psnap ELSE Origin
  /\ UNCHANGED <<hwVars, dmaVars, readerVars, history>>

\* The device may have been closed and opened again meanwhile.
PollAck ==
  /\ ppc = "ack"
  /\ ppc' = "idle"
  /\ AckOverflow(psnap) /\ psnap' = Origin
  /\ UNCHANGED <<gap, hwRun, pos, irq, mem, arrived, dropped, dmaVars, readerVars,
                 base, taken, last>>

-----------------------------------------------------------------------------
Init ==
  /\ HwInit
  /\ cbuf = 0 /\ coff = 0 /\ stat = Origin /\ running = FALSE
  /\ pc = "closed" /\ left = 0 /\ snap = Origin /\ nonblock = FALSE /\ woken = FALSE
  /\ ppc = "idle" /\ psnap = Origin
  /\ base = 0 /\ taken = 0 /\ last = 0 /\ resync = FALSE

Reader == \/ LoadStat \/ CheckAvail \/ ReadAck \/ Enqueue \/ WaitCheck
          \/ WakeUp \/ ReadBegin \/ Copy \/ ReadEnd

Next == \/ Arrival \/ InputHandler
        \/ TsOpen \/ TsRelease \/ ReadCall \/ Reader \/ Signal \/ CopyFault
        \/ PollBegin \/ PollEnd \/ PollAck

Spec == Init /\ [][Next]_vars

\* An interrupt is delivered and a runnable process runs; nothing obliges
\* the source to send, a signal to come or a process to open or poll.
Fairness == WF_vars(InputHandler) /\ WF_vars(Reader)

FairSpec == Spec /\ Fairness

-----------------------------------------------------------------------------
TypeOK ==
  /\ HwTypeOK
  /\ cbuf \in 0 .. Num - 1 /\ coff \in 0 .. Size - 1
  /\ stat \in Position /\ running \in BOOLEAN
  /\ pc \in {"closed", "idle", "avail", "ctrl", "ack", "enqueue", "wavail", "wctrl",
             "wack", "sleep", "read", "copy"}
  /\ left \in 0 .. MaxCount /\ snap \in Position
  /\ nonblock \in BOOLEAN /\ woken \in BOOLEAN
  /\ ppc \in {"idle", "ctrl", "ack"} /\ psnap \in Position
  /\ base \in 0 .. MaxCell /\ taken \in Nat /\ last \in 0 .. MaxCell
  /\ resync \in BOOLEAN

\* Until the ring overflows, read() hands out every cell that arrived since
\* the open, once and in order: no interleaving of the engine, the interrupt
\* handler, the reader and a poller loses or repeats one.  Overflow or not, it
\* never returns a cell captured before this open, whatever the interrupts of
\* an earlier session that arrive late; and until an overflow is acknowledged
\* with ACK(stat) it never goes back in the stream, cells the full ring had to
\* drop notwithstanding.
InOrder ==
  [][taken' > taken =>
       /\ ~dropped /\ ~resync => last' = base + taken'
       /\ last' > base
       /\ ~resync => last' >= last + (taken' - taken)]_vars

\* While a chunk is being copied the engine never stores into it, as long as
\* no overflow was acknowledged over the reader's head.
NoOverwriteDuringCopy ==
  [][~resync /\ pc = "copy" /\ cbuf # snap.idx =>
        \A p \in Position : p.idx = cbuf /\ p.off >= coff => mem'[p] = mem[p]]_vars

\* A sleeping reader is woken once a whole buffer is ready for it: the wait
\* queue is joined before the condition is tested again.  (A reader that has
\* just acknowledged an overflow sleeps on until the next buffer.)  And the
\* engine does not stay stalled by an overflow while somebody waits for data.
NoLostWakeup ==
  /\ (pc = "sleep" /\ running /\ pos.idx # cbuf /\ ~resync) ~> (pc # "sleep" \/ resync)
  /\ (pc = "sleep" /\ ovf) ~> (~ovf \/ pc = "idle")
=============================================================================
