----------------------------- MODULE InputEngine -----------------------------
(***************************************************************************)
(* The DMA engine of a ddb_input, as the driver uses it through the        *)
(* registers DMA_BUFFER_CONTROL, _ACK and _CURRENT.  It stores the cells   *)
(* of the incoming transport stream, which are numbered as they arrive,    *)
(* into a ring of Num buffers of Size cells, up to the position the driver *)
(* acknowledged; when it gets there it stops, sets the overflow bit and    *)
(* drops what arrives until the next acknowledgement.  Whether it fills    *)
(* the ring to the last cell or keeps one free is not known from the       *)
(* driver, so both engines are modelled (gap).                             *)
(***************************************************************************)
EXTENDS Naturals

CONSTANTS Num,      \* dma->num, buffers in the ring
          Size,     \* cells in one buffer (dma->size)
          MaxCell   \* bound: cells the source delivers in a behaviour

ASSUME RingAssumption == /\ Num \in Nat \ {0, 1}
                         /\ Size \in Nat \ {0}
                         /\ MaxCell \in Nat

VARIABLES
  gap,      \* the engine keeps one cell free; never changes
  hwRun,    \* DMA_BUFFER_CONTROL enables the engine
  pos,      \* DMA_BUFFER_CURRENT: where the next cell goes
  ack,      \* DMA_BUFFER_ACK: the position the driver released up to
  ovf,      \* bit 2 of DMA_BUFFER_CONTROL
  irq,      \* the input's interrupt is raised and not yet handled
  mem,      \* buffer memory: the number of the cell stored in each place
  arrived,  \* cells the source has delivered so far
  dropped   \* history: a cell was dropped since the engine was started

hwVars == <<gap, hwRun, pos, ack, ovf, irq, mem, arrived, dropped>>

Position == [idx : 0 .. Num - 1, off : 0 .. Size - 1]
At(i, o) == [idx |-> i, off |-> o]
Origin   == At(0, 0)

NextBuf(i) == (i + 1) % Num

Step(p) == IF p.off + 1 = Size THEN At(NextBuf(p.idx), 0)
                               ELSE At(p.idx, p.off + 1)

HwInit ==
  /\ gap \in BOOLEAN
  /\ hwRun = FALSE /\ pos = Origin /\ ack = Origin /\ ovf = FALSE /\ irq = FALSE
  /\ mem = [p \in Position |-> 0] /\ arrived = 0 /\ dropped = FALSE

Full == ovf \/ (gap /\ Step(pos) = ack)

\* A cell arrives and is stored; the interrupt is raised at the end of a
\* buffer and when the last cell of the ring has been filled.
HwStore ==
  /\ hwRun /\ ~Full /\ arrived < MaxCell
  /\ arrived' = arrived + 1
  /\ mem' = [mem EXCEPT ![pos] = arrived + 1]
  /\ pos' = Step(pos)
  /\ ovf' = (~gap /\ Step(pos) = ack)
  /\ irq' = (irq \/ Step(pos).off = 0 \/ ovf')
  /\ UNCHANGED <<gap, hwRun, ack, dropped>>

\* A cell arrives while the ring is full.
HwDrop ==
  /\ hwRun /\ Full /\ arrived < MaxCell
  /\ arrived' = arrived + 1
  /\ dropped' = TRUE
  /\ ovf' = TRUE
  /\ irq' = (irq \/ ~ovf)
  /\ UNCHANGED <<gap, hwRun, pos, ack, mem>>

\* Writing DMA_BUFFER_ACK lets a stalled engine go on.
WriteAck(p) == ack' = p /\ ovf' = FALSE

\* The register writes of ddb_input_start_unlocked and ddb_input_stop_unlocked.
HwStart ==
  /\ hwRun' = TRUE /\ pos' = Origin /\ ack' = Origin /\ ovf' = FALSE
  /\ dropped' = FALSE
  /\ UNCHANGED <<gap, irq, mem, arrived>>

HwStop ==
  /\ hwRun' = FALSE /\ ovf' = FALSE
  /\ UNCHANGED <<gap, pos, ack, irq, mem, arrived, dropped>>

HwTypeOK ==
  /\ gap \in BOOLEAN
  /\ hwRun \in BOOLEAN /\ pos \in Position /\ ack \in Position
  /\ ovf \in BOOLEAN /\ irq \in BOOLEAN
  /\ mem \in [Position -> 0 .. MaxCell] /\ arrived \in 0 .. MaxCell
  /\ dropped \in BOOLEAN
=============================================================================
