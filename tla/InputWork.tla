------------------------------ MODULE InputWork ------------------------------
(***************************************************************************)
(* The capture side of a tuner input (input->redi set, input->redo not):   *)
(* the interrupt handler only queues dma->work; a kernel worker runs       *)
(* input_work() -> input_proc() -> input_write_dvb() under dma->lock and   *)
(* hands every finished buffer of the ring to the software demux, while    *)
(* start_feed()/stop_feed() start and stop the input with the users count. *)
(***************************************************************************)
EXTENDS InputEngine

CONSTANTS MaxFeeds, \* bound: feeds active at the same time
          Width     \* values of the 16 bit loss counter of TS_STAT (65536)

ASSUME WorkAssumption == MaxFeeds \in Nat \ {0} /\ Width \in Nat \ {0, 1}

VARIABLES
  cbuf, stat, ctrl, running, packetLoss,   \* struct ddb_dma of the input
  users,                                   \* dvb->users
  work,                                    \* dma->work is queued
  pc,                                      \* where the worker is
  base,    \* history: cells that had arrived at ddb_input_start
  taken,   \* history: cells handed to the demux since then
  last,    \* history: the last of them
  lost     \* history: cells the engine dropped since then

dmaVars == <<cbuf, stat, ctrl, running, packetLoss>>
history == <<base, taken, last, lost>>
vars    == <<hwVars, dmaVars, users, work, pc, history>>

Arrival ==
  /\ \/ HwStore /\ lost' = lost
     \/ HwDrop  /\ lost' = lost + 1
  /\ UNCHANGED <<dmaVars, users, work, pc, base, taken, last>>

-----------------------------------------------------------------------------
(* update_loss(): the hardware counts lost packets in 16 bits, the driver   *)
(* extends the count to 32.                                                 *)

Extended_NeverCarry(old, cur) == (old - (old % Width)) + cur
Extended(old, cur) ==
  (old - (old % Width)) + cur + (IF cur < old % Width THEN Width ELSE 0)

TsStat == lost % Width

UpdateLoss == packetLoss' = Extended(packetLoss, TsStat)

-----------------------------------------------------------------------------
(* start_feed() and stop_feed(), serialised by the mutex of the demux.  The *)
(* spinlock dma->lock keeps them out while the worker holds it.             *)

ResetDma == cbuf' = 0 /\ stat' = Origin /\ packetLoss' = 0

InputStart ==
  /\ pc = "idle"
  /\ HwStart
  /\ ResetDma
  /\ running' = TRUE
  /\ base' = arrived /\ taken' = 0 /\ last' = arrived /\ lost' = 0
  /\ UNCHANGED <<ctrl, work, pc>>

InputStop ==
  /\ pc = "idle"
  /\ HwStop
  /\ running' = FALSE
  /\ UpdateLoss
  /\ UNCHANGED <<cbuf, stat, ctrl, work, pc, history>>

StartFeed ==
  /\ users < MaxFeeds
  /\ users' = users + 1
  /\ IF users = 0 THEN InputStart
                  ELSE UNCHANGED <<hwVars, dmaVars, work, pc, history>>

StopFeed ==
  /\ users > 0
  /\ users' = users - 1
  /\ IF users = 1 THEN InputStop
                  ELSE UNCHANGED <<hwVars, dmaVars, work, pc, history>>

-----------------------------------------------------------------------------
(* input_handler() and input_work().                                        *)

InputHandler_SkipIfBusy ==
  /\ irq
  /\ irq' = FALSE
  /\ work' = (work \/ pc = "idle")
  /\ UNCHANGED <<gap, hwRun, pos, ack, ovf, mem, arrived, dropped, dmaVars, users, pc,
                 history>>

InputHandler ==
  /\ irq
  /\ irq' = FALSE
  /\ work' = TRUE
  /\ UNCHANGED <<gap, hwRun, pos, ack, ovf, mem, arrived, dropped, dmaVars, users, pc,
                 history>>

\* The worker takes dma->lock and looks at the registers, one after the other.
InputProc ==
  /\ work /\ pc = "idle"
  /\ work' = FALSE
  /\ IF running THEN stat' = pos /\ pc' = "entered" ELSE UNCHANGED <<stat, pc>>
  /\ UNCHANGED <<hwVars, cbuf, ctrl, running, packetLoss, users, history>>

ReadEntryCtrl ==
  /\ pc = "entered"
  /\ ctrl' = ovf
  /\ pc' = "loss"
  /\ UNCHANGED <<hwVars, cbuf, stat, running, packetLoss, users, work, history>>

ReadLoss ==
  /\ pc = "loss"
  /\ UpdateLoss
  /\ pc' = "test"
  /\ UNCHANGED <<hwVars, cbuf, stat, ctrl, running, users, work, history>>

\* The loop of input_write_dvb: a finished buffer, or an overflow.
Ready == cbuf # stat.idx \/ ctrl

Test ==
  /\ pc = "test"
  /\ pc' = IF Ready THEN "filter" ELSE "idle"
  /\ UNCHANGED <<hwVars, dmaVars, users, work, history>>

\* What the loop acknowledges after a buffer: the next buffer to filter.
Released_Captured == At(stat.idx, 0)
Released          == At(cbuf', 0)

\* dvb_dmx_swfilter_packets() has gone through the buffer; release it.
Filter ==
  /\ pc = "filter"
  /\ taken' = taken + Size
  /\ last' = mem[At(cbuf, Size - 1)]
  /\ cbuf' = NextBuf(cbuf)
  /\ WriteAck(Released)
  /\ pc' = "stat"
  /\ UNCHANGED <<gap, hwRun, pos, irq, mem, arrived, dropped, stat, ctrl, running,
                 packetLoss, users, work, base, lost>>

ReadStat ==
  /\ pc = "stat"
  /\ stat' = pos
  /\ pc' = "ctrl"
  /\ UNCHANGED <<hwVars, cbuf, ctrl, running, packetLoss, users, work, history>>

ReadCtrl_Sticky ==
  /\ pc = "ctrl"
  /\ ctrl' = (ctrl \/ ovf)
  /\ pc' = "test"
  /\ UNCHANGED <<hwVars, cbuf, stat, running, packetLoss, users, work, history>>

ReadCtrl ==
  /\ pc = "ctrl"
  /\ ctrl' = ovf
  /\ pc' = "test"
  /\ UNCHANGED <<hwVars, cbuf, stat, running, packetLoss, users, work, history>>

-----------------------------------------------------------------------------
Init ==
  /\ HwInit
  /\ cbuf = 0 /\ stat = Origin /\ ctrl = FALSE /\ running = FALSE /\ packetLoss = 0
  /\ users = 0 /\ work = FALSE /\ pc = "idle"
  /\ base = 0 /\ taken = 0 /\ last = 0 /\ lost = 0

Worker == InputProc \/ ReadEntryCtrl \/ ReadLoss \/ Test \/ Filter \/ ReadStat \/ ReadCtrl

Next == Arrival \/ StartFeed \/ StopFeed \/ InputHandler \/ Worker

Spec == Init /\ [][Next]_vars

\* Interrupts are delivered and the workqueue runs what is queued.
FairSpec == Spec /\ WF_vars(InputHandler) /\ WF_vars(Worker)

-----------------------------------------------------------------------------
TypeOK ==
  /\ HwTypeOK
  /\ cbuf \in 0 .. Num - 1 /\ stat \in Position
  /\ ctrl \in BOOLEAN /\ running \in BOOLEAN /\ packetLoss \in Nat
  /\ users \in 0 .. MaxFeeds /\ work \in BOOLEAN
  /\ pc \in {"idle", "entered", "loss", "test", "filter", "stat", "ctrl"}
  /\ base \in 0 .. MaxCell /\ taken \in Nat /\ last \in 0 .. MaxCell /\ lost \in Nat

\* Overflow or not, every buffer the demux gets is newer than the one before
\* it and newer than the start, and holds cells in order: draining a full
\* ring through the ctrl bit never hands out a buffer out of turn, and an
\* interrupt or a work item left over from an earlier start does no harm.
\* As long as the ring has not overflowed nothing is left out either.
BuffersInOrder ==
  [][taken' > taken =>
       /\ ~dropped => last' = base + taken'
       /\ mem[At(cbuf, 0)] > last
       /\ \A o \in 0 .. Size - 1 : mem[At(cbuf, o)] >= mem[At(cbuf, 0)] + o]_vars

\* The engine never stores into the buffer the demux is going through.
NoOverwriteDuringFilter ==
  [][pc = "filter" => \A p \in Position : p.idx = cbuf => mem'[p] = mem[p]]_vars

\* The extended counter is exact whenever fewer than Width packets were lost
\* since it was last brought up to date.
LossExact ==
  [][pc = "loss" /\ pc' = "test" /\ lost - packetLoss < Width
       => packetLoss' = lost]_vars

\* Every finished buffer reaches the demux, and an overflowed ring does not
\* stay stalled, unless the input is stopped: whatever the worker was doing
\* when the interrupt came, it looks again.
BufferDelivered ==
  (running /\ (pos.idx # cbuf \/ ovf)) ~> ((pos.idx = cbuf /\ ~ovf) \/ ~running)
=============================================================================
