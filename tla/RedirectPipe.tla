---------------------------- MODULE RedirectPipe ----------------------------
(***************************************************************************)
(* A redirected pair: the capture engine of a tuner input stores directly  *)
(* into the DMA buffers of a CI output (ddb_redirect_dma) and the CPU only *)
(* passes positions.  input_handler() acknowledges to the output what the  *)
(* input has stored (input_write_output), output_handler() acknowledges to *)
(* the input what the output has sent (output_ack_input).  start_feed()    *)
(* and stop_feed() start and stop the two engines one after the other.     *)
(*                                                                         *)
(* Equal positions mean an empty ring to the output, so the scheme rests   *)
(* on a capture engine that keeps a cell free: Init assumes one.  With one *)
(* that fills the ring, an input that catches up with the output leaves    *)
(* both engines waiting for each other.                                    *)
(***************************************************************************)
EXTENDS InputEngine

VARIABLES
  stat, running,                              \* struct ddb_dma of the input
  oRun, oPos, oAck, oIrq,                     \* the output's engine (external)
  oCbuf, oCoff, oStat, oRunning,              \* struct ddb_dma of the output
  pc,     \* the process in ddb_input_start_all or ddb_input_stop_all
  base,   \* history: cells that had arrived when the input was started
  sent,   \* history: cells the output sent since then
  last    \* history: the last of them

inVars  == <<stat, running>>
outVars == <<oRun, oPos, oAck, oIrq, oCbuf, oCoff, oStat, oRunning>>
history == <<base, sent, last>>
vars    == <<hwVars, inVars, outVars, pc, history>>

Arrival ==
  /\ HwStore \/ HwDrop
  /\ UNCHANGED <<inVars, outVars, pc, history>>

\* The output's engine sends the next cell, and interrupts after a buffer.
Send ==
  /\ oRun /\ oPos # oAck
  /\ sent' = sent + 1
  /\ last' = mem[oPos]
  /\ oPos' = Step(oPos)
  /\ oIrq' = (oIrq \/ Step(oPos).off = 0)
  /\ UNCHANGED <<hwVars, inVars, oRun, oAck, oCbuf, oCoff, oStat, oRunning, pc, base>>

-----------------------------------------------------------------------------
(* The interrupt handlers.                                                  *)

\* input_handler: redi was handed on to the CI's own input, so input_proc
\* runs inline; input_write_output copies the input's position.
Forwarded(p) == p

InputHandler_OldStat ==
  /\ irq
  /\ irq' = FALSE
  /\ IF running
     THEN /\ stat' = pos
          /\ oAck' = Forwarded(stat)
          /\ oCbuf' = stat.idx /\ oCoff' = stat.off
     ELSE UNCHANGED <<stat, oAck, oCbuf, oCoff>>
  /\ UNCHANGED <<gap, hwRun, pos, ack, ovf, mem, arrived, dropped, running, oRun, oPos,
                 oIrq, oStat, oRunning, pc, history>>

InputHandler ==
  /\ irq
  /\ irq' = FALSE
  /\ IF running
     THEN /\ stat' = pos
          /\ oAck' = Forwarded(stat')
          /\ oCbuf' = stat'.idx /\ oCoff' = stat'.off
     ELSE UNCHANGED <<stat, oAck, oCbuf, oCoff>>
  /\ UNCHANGED <<gap, hwRun, pos, ack, ovf, mem, arrived, dropped, running, oRun, oPos,
                 oIrq, oStat, oRunning, pc, history>>

OutputHandler_AckCaptured ==
  /\ oIrq
  /\ oIrq' = FALSE
  /\ IF oRunning THEN oStat' = oPos /\ WriteAck(oAck)
                 ELSE UNCHANGED <<oStat, ack, ovf>>
  /\ UNCHANGED <<gap, hwRun, pos, irq, mem, arrived, dropped, inVars, oRun, oPos, oAck,
                 oCbuf, oCoff, oRunning, pc, history>>

OutputHandler ==
  /\ oIrq
  /\ oIrq' = FALSE
  /\ IF oRunning THEN oStat' = oPos /\ WriteAck(oStat')
                 ELSE UNCHANGED <<oStat, ack, ovf>>
  /\ UNCHANGED <<gap, hwRun, pos, irq, mem, arrived, dropped, inVars, oRun, oPos, oAck,
                 oCbuf, oCoff, oRunning, pc, history>>

-----------------------------------------------------------------------------
(* ddb_input_start_all: the output first, then the input ...                *)

ResetOutput_KeepAck == oPos' = Origin /\ oAck' = oAck
ResetOutput         == oPos' = Origin /\ oAck' = Origin

StartOutput ==
  /\ pc = "stopped"
  /\ pc' = "starting"
  /\ oRun' = TRUE /\ ResetOutput
  /\ oCbuf' = 0 /\ oCoff' = 0 /\ oStat' = Origin /\ oRunning' = TRUE
  /\ UNCHANGED <<hwVars, inVars, oIrq, history>>

StartInput ==
  /\ pc = "starting"
  /\ pc' = "started"
  /\ HwStart
  /\ stat' = Origin /\ running' = TRUE
  /\ base' = arrived /\ sent' = 0 /\ last' = arrived
  /\ UNCHANGED outVars

(* ... and ddb_input_stop_all: the input first, then the output.            *)

StopInput ==
  /\ pc = "started"
  /\ pc' = "stopping"
  /\ HwStop
  /\ running' = FALSE
  /\ UNCHANGED <<stat, outVars, history>>

StopOutput ==
  /\ pc = "stopping"
  /\ pc' = "stopped"
  /\ oRun' = FALSE /\ oRunning' = FALSE
  /\ UNCHANGED <<hwVars, inVars, oPos, oAck, oIrq, oCbuf, oCoff, oStat, history>>

-----------------------------------------------------------------------------
Init ==
  /\ HwInit /\ gap
  /\ stat = Origin /\ running = FALSE
  /\ oRun = FALSE /\ oPos = Origin /\ oAck = Origin /\ oIrq = FALSE
  /\ oCbuf = 0 /\ oCoff = 0 /\ oStat = Origin /\ oRunning = FALSE
  /\ pc = "stopped"
  /\ base = 0 /\ sent = 0 /\ last = 0

Next == \/ Arrival \/ Send \/ InputHandler \/ OutputHandler
        \/ StartOutput \/ StartInput \/ StopInput \/ StopOutput

Spec == Init /\ [][Next]_vars

FairSpec == Spec /\ WF_vars(Send) /\ WF_vars(InputHandler) /\ WF_vars(OutputHandler)

-----------------------------------------------------------------------------
TypeOK ==
  /\ HwTypeOK
  /\ stat \in Position /\ running \in BOOLEAN
  /\ oRun \in BOOLEAN /\ oPos \in Position /\ oAck \in Position /\ oIrq \in BOOLEAN
  /\ oCbuf \in 0 .. Num - 1 /\ oCoff \in 0 .. Size - 1 /\ oStat \in Position
  /\ oRunning \in BOOLEAN
  /\ pc \in {"stopped", "starting", "started", "stopping"}
  /\ base \in 0 .. MaxCell /\ sent \in Nat /\ last \in 0 .. MaxCell

\* Nothing is lost, repeated or reordered between the tuner and the CI as
\* long as the ring does not overflow, although no CPU touches the data and
\* the two engines only meet through the positions the handlers copy.  Even
\* with overflows the CI never gets an old cell again, or one captured before
\* this start.
InOrder ==
  [][sent' = sent + 1 => /\ last' > last
                         /\ ~dropped => last' = base + sent']_vars

\* The input never stores into a place the output has still to send.
NoOverwriteUnsent ==
  [][arrived' = arrived + 1 /\ mem' # mem /\ oPos # oAck => mem'[oPos] = mem[oPos]]_vars

\* A whole captured buffer is sent on: neither engine waits for the other.
Drained == (pc = "started" /\ pos.idx # oPos.idx)
             ~> (pc # "started" \/ oPos.idx = pos.idx)
=============================================================================
