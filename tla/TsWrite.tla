------------------------------- MODULE TsWrite -------------------------------
(***************************************************************************)
(* The sending side of a CI or modulator port: a process fills the DMA     *)
(* ring of a ddb_output through ts_write(), the engine sends from it and   *)
(* the interrupt handler copies the engine's position into dma->stat.      *)
(*                                                                         *)
(* Positions count bytes on a reduced scale: a TS packet is Packet bytes   *)
(* (188 in the code) and the registers resolve Gran bytes (128), so that a *)
(* position the process wrote is rounded down when the engine sees it.     *)
(* The content is not represented, only how much of it is queued.          *)
(***************************************************************************)
EXTENDS Integers

CONSTANTS Num,     \* dma->num
          Size,    \* dma->size
          Packet,  \* 188
          Gran,    \* 128
          Counts   \* bound: the byte counts user space writes

ASSUME WriteAssumption ==
  /\ Num \in Nat \ {0, 1}
  /\ Packet \in Nat \ {0} /\ Gran \in 1 .. Packet
  /\ Size \in Nat /\ Size > 2 * Packet /\ Size % Packet = 0 /\ Size % Gran = 0
  /\ Counts \subseteq Nat \ {0}

VARIABLES
  \* the DMA engine of the output (external)
  hwRun, pos, ack, irq,
  \* struct ddb_dma of the output
  cbuf, coff, stat, running,
  \* the writing process
  pc, left, snap, nonblock, woken,
  \* bytes copied into the ring since the open and not yet sent
  queued

hwVars     == <<hwRun, pos, ack, irq>>
dmaVars    == <<cbuf, coff, stat, running>>
writerVars == <<pc, left, snap, nonblock, woken>>
vars       == <<hwVars, dmaVars, writerVars, queued>>

At(i, o)  == [idx |-> i, off |-> o]
Origin    == At(0, 0)
Floor(n)  == n - (n % Gran)
Next1(i)  == (i + 1) % Num
RingSize  == Num * Size

\* What a DMA register can hold.
RegPos == [idx : 0 .. Num - 1, off : {Floor(o) : o \in 0 .. Size - 1}]

-----------------------------------------------------------------------------
(* The engine sends Gran bytes at a time until it meets the position the    *)
(* process acknowledged, and interrupts at the end of each buffer.          *)

HwSend ==
  /\ hwRun /\ pos # ack
  /\ queued' = queued - Gran
  /\ IF pos.off + Gran = Size
     THEN pos' = At(Next1(pos.idx), 0) /\ irq' = TRUE
     ELSE pos' = At(pos.idx, pos.off + Gran) /\ irq' = irq
  /\ UNCHANGED <<hwRun, ack, dmaVars, writerVars>>

\* output_handler() for an output without redi.
OutputHandler ==
  /\ irq
  /\ irq' = FALSE
  /\ stat'  = IF running THEN pos ELSE stat
  /\ woken' = (running \/ woken)
  /\ UNCHANGED <<hwRun, pos, ack, cbuf, coff, running, pc, left, snap, nonblock,
                 queued>>

-----------------------------------------------------------------------------
(* ts_open(O_WRONLY) and ts_release().                                      *)

ResetDma          == cbuf' = 0 /\ coff' = 0 /\ stat' = Origin

TsOpen ==
  /\ pc = "closed"
  /\ pc' = "idle"
  /\ ResetDma /\ running' = TRUE
  /\ hwRun' = TRUE /\ pos' = Origin /\ ack' = Origin
  /\ queued' = 0
  /\ UNCHANGED <<irq, left, snap, nonblock, woken>>

TsRelease ==
  /\ pc = "idle"
  /\ pc' = "closed"
  /\ running' = FALSE /\ hwRun' = FALSE
  /\ UNCHANGED <<pos, ack, irq, cbuf, coff, stat, left, snap, nonblock, woken,
                 queued>>

-----------------------------------------------------------------------------
(* ddb_output_free(): may a packet be written, given the position s?        *)

OutputFree_Off1(s) ==
  IF cbuf # s.idx
  THEN ~(Next1(cbuf) = s.idx /\ Size - coff < Packet)
  ELSE s.off - coff <= 0 \/ s.off - coff > Packet

OutputFree(s) ==
  IF cbuf # s.idx
  THEN ~(Next1(cbuf) = s.idx /\ Size - coff <= 2 * Packet)
  ELSE s.off - coff <= 0 \/ s.off - coff > 2 * Packet

\* The first part of ddb_output_write's loop body: how many bytes fit at
\* cbuf/coff without closing up on the engine at s; 0 leaves the loop.
Room_NoReserve(s) ==
  IF cbuf = s.idx /\ s.off > coff
  THEN (s.off - coff) - ((s.off - coff) % Packet)
  ELSE Size - coff

Room(s) ==
  LET toEnd  == Size - coff
      behind == (s.off - coff) - ((s.off - coff) % Packet)
  IN CASE Next1(cbuf) = s.idx /\ s.off = 0 ->
            IF toEnd <= Packet THEN 0 ELSE toEnd - Packet
       [] cbuf = s.idx /\ s.off > coff ->
            IF behind <= Packet THEN 0 ELSE behind - Packet
       [] OTHER -> toEnd

-----------------------------------------------------------------------------
(* ts_write().                                                              *)

WriteCall ==
  /\ pc = "idle"
  /\ \E n \in Counts, nb \in BOOLEAN : left' = n /\ nonblock' = nb
  /\ pc' = "check"
  /\ UNCHANGED <<hwVars, dmaVars, snap, woken, queued>>

CheckFree ==
  /\ pc = "check"
  /\ pc' = IF OutputFree(stat) THEN "write"
           ELSE IF nonblock THEN "idle" ELSE "enqueue"
  /\ UNCHANGED <<hwVars, dmaVars, left, snap, nonblock, woken, queued>>

Enqueue_NoRecheck ==
  /\ pc = "enqueue"
  /\ pc' = "sleep"
  /\ woken' = FALSE
  /\ UNCHANGED <<hwVars, dmaVars, left, snap, nonblock, queued>>

Enqueue ==
  /\ pc = "enqueue"
  /\ pc' = "wcheck"
  /\ woken' = FALSE
  /\ UNCHANGED <<hwVars, dmaVars, left, snap, nonblock, queued>>

WaitCheck ==
  /\ pc = "wcheck"
  /\ pc' = IF OutputFree(stat) THEN "write" ELSE "sleep"
  /\ UNCHANGED <<hwVars, dmaVars, left, snap, nonblock, woken, queued>>

WakeUp ==
  /\ pc = "sleep" /\ woken
  /\ pc' = "enqueue"
  /\ UNCHANGED <<hwVars, dmaVars, left, snap, nonblock, woken, queued>>

Signal ==
  /\ pc = "sleep"
  /\ pc' = "idle"
  /\ UNCHANGED <<hwVars, dmaVars, left, snap, nonblock, woken, queued>>

\* ddb_output_write() samples dma->stat once ...
WriteBegin ==
  /\ pc = "write"
  /\ pc' = "copy"
  /\ snap' = stat
  /\ UNCHANGED <<hwVars, dmaVars, left, nonblock, woken, queued>>

\* ... and copies and acknowledges chunk after chunk.
Advance(n) ==
  IF coff + n = Size THEN coff' = 0 /\ cbuf' = Next1(cbuf)
                     ELSE coff' = coff + n /\ cbuf' = cbuf

Copy ==
  /\ pc = "copy" /\ left > 0 /\ Room(snap) > 0
  /\ LET n == IF Room(snap) < left THEN Room(snap) ELSE left IN
       /\ Advance(n)
       /\ left' = left - n
       /\ queued' = queued + n
  /\ ack' = At(cbuf', Floor(coff'))
  /\ UNCHANGED <<hwRun, pos, irq, stat, running, pc, snap, nonblock, woken>>

\* copy_from_user fails: -EIO.
CopyFault ==
  /\ pc = "copy" /\ left > 0 /\ Room(snap) > 0
  /\ pc' = "idle"
  /\ UNCHANGED <<hwVars, dmaVars, left, snap, nonblock, woken, queued>>

WriteEnd ==
  /\ pc = "copy" /\ (left = 0 \/ Room(snap) = 0)
  /\ pc' = IF left = 0 THEN "idle" ELSE "check"
  /\ UNCHANGED <<hwVars, dmaVars, left, snap, nonblock, woken, queued>>

-----------------------------------------------------------------------------
Init ==
  /\ hwRun = FALSE /\ pos = Origin /\ ack = Origin /\ irq = FALSE
  /\ cbuf = 0 /\ coff = 0 /\ stat = Origin /\ running = FALSE
  /\ pc = "closed" /\ left = 0 /\ snap = Origin /\ nonblock = FALSE /\ woken = FALSE
  /\ queued = 0

Writer == \/ CheckFree \/ Enqueue \/ WaitCheck \/ WakeUp
          \/ WriteBegin \/ Copy \/ WriteEnd

Next == \/ HwSend \/ OutputHandler \/ TsOpen \/ TsRelease \/ WriteCall
        \/ Writer \/ Signal \/ CopyFault

Spec == Init /\ [][Next]_vars

\* The engine sends what it is given, interrupts are delivered, and the
\* process runs while it can.
FairSpec == Spec /\ WF_vars(HwSend) /\ WF_vars(OutputHandler) /\ WF_vars(Writer)

-----------------------------------------------------------------------------
TypeOK ==
  /\ hwRun \in BOOLEAN /\ pos \in RegPos /\ ack \in RegPos /\ irq \in BOOLEAN
  /\ cbuf \in 0 .. Num - 1 /\ coff \in 0 .. Size - 1
  /\ stat \in RegPos /\ running \in BOOLEAN
  /\ pc \in {"closed", "idle", "check", "enqueue", "wcheck", "sleep", "write", "copy"}
  /\ left \in Nat /\ snap \in RegPos /\ nonblock \in BOOLEAN /\ woken \in BOOLEAN
  /\ queued \in Int

\* The driver's pointers and the engine's agree on what is queued, so no
\* byte is overwritten before it is sent and none is sent twice; and the
\* process never closes up on the engine: were the ring filled to the last
\* byte, the engine would take the position it meets for an empty ring and
\* everything queued would be lost.  Whenever the engine finds nothing to
\* send, only the tail the registers cannot express is left.
RingConsistent ==
  /\ pos = ack => queued \in 0 .. Gran - 1
  /\ running => /\ queued \in 0 .. RingSize - 1
                /\ (pos.idx * Size + pos.off + queued) % RingSize = cbuf * Size + coff

\* ts_write() does not spin in the kernel: whenever the test it loops on lets
\* it go on, ddb_output_write() can copy at least one byte, even if the
\* engine moved between the two looks at dma->stat.
NoBusyLoop == [][WriteBegin => Room(snap') > 0]_vars

\* A writer that sleeps for room gets it while the engine sends.
WriterProgress == (pc = "sleep") ~> (pc # "sleep")
=============================================================================
