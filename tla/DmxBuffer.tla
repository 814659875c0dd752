------------------------------ MODULE DmxBuffer ------------------------------
(***************************************************************************)
(* The buffer of a demux or dvr device (dmxdev.c) on the ring buffer of    *)
(* dvb_ringbuffer.c.  dvb_dmxdev_ts_callback writes to it under dev->lock, *)
(* dvb_dmxdev_buffer_read reads from it under no lock the writer takes.    *)
(* Bytes are the numbers of their arrival.  A copy is two steps, so that   *)
(* copies of the two sides overlap in time.                                *)
(***************************************************************************)
EXTENDS Integers, Sequences

CONSTANTS Size,    \* buffer->size
          Lengths, \* lengths of the packets that arrive
          Counts,  \* what read() is asked for
          MaxByte  \* bound on the bytes that arrive

ASSUME DmxBufferAssumption ==
  /\ Size \in Nat \ {0, 1} /\ MaxByte \in Nat
  /\ Lengths \subseteq Nat \ {0} /\ Counts \subseteq Nat \ {0}

VARIABLES
  data, pread, pwrite, error, \* struct dvb_ringbuffer
  sleeping,                   \* the reader is on the wait queue
  \* dvb_dmxdev_ts_callback
  wpc, wtodo, next,           \* bytes still to write, number of the next one
  \* dvb_dmxdev_buffer_read
  rpc, todo, len, nonBlocking,
  \* history
  out,                        \* what the last copy gave to the reader
  told                        \* a read since then was ended by an overflow

ringVars   == <<data, pread, pwrite, error>>
writerVars == <<wpc, wtodo, next>>
readerVars == <<rpc, todo, len, nonBlocking>>
history    == <<out, told>>
vars       == <<ringVars, sleeping, writerVars, readerVars, history>>

Cell == 0 .. Size - 1

Init ==
  /\ data = [c \in Cell |-> 0] /\ pread = 0 /\ pwrite = 0 /\ error = FALSE
  /\ sleeping = FALSE
  /\ wpc = "idle" /\ wtodo = 0 /\ next = 0
  /\ rpc = "idle" /\ todo = 0 /\ len = 0 /\ nonBlocking = FALSE
  /\ out = <<>> /\ told = FALSE
-----------------------------------------------------------------------------
(* dvb_ringbuffer.c                                                         *)
Empty == pread = pwrite
\* Mutant: a full buffer looks like an empty one.
Free_Full == IF pread - pwrite <= 0 THEN pread - pwrite + Size ELSE pread - pwrite

Free  == (IF pread - pwrite <= 0 THEN pread - pwrite + Size ELSE pread - pwrite) - 1
Avail == IF pwrite - pread < 0 THEN pwrite - pread + Size ELSE pwrite - pread

(* The first of the one or two copies for n bytes from position p.          *)
Chunk(p, n) == IF p + n > Size THEN Size - p ELSE n
Region(p, n) == p .. p + Chunk(p, n) - 1

Advanced(p, n) == IF p + n >= Size THEN 0 ELSE p + n

(* The cells each side is copying to or from.                               *)
Writing == IF wpc = "copy" THEN Region(pwrite, wtodo) ELSE {}
Reading == IF rpc = "copy" THEN Region(pread, len) ELSE {}
-----------------------------------------------------------------------------
\* Mutant: what does not fit is written all the same.
Callback_NoSpaceCheck(n) ==
  /\ wpc = "idle" /\ next + n <= MaxByte
  /\ IF error
     THEN wpc' = "wake" /\ next' = next + n /\ UNCHANGED wtodo
     ELSE wpc' = "copy" /\ wtodo' = n /\ UNCHANGED next
  /\ UNCHANGED <<ringVars, sleeping, readerVars, history>>

(* The callback with n bytes: dropped after an error, and if they do not    *)
(* fit.  The demux hands over one buffer, buffer2 is empty in every call.   *)
Callback(n) ==
  /\ wpc = "idle" /\ next + n <= MaxByte
  /\ IF error
     THEN wpc' = "wake" /\ next' = next + n /\ UNCHANGED wtodo
     ELSE IF n > Free
     THEN wpc' = "overflow" /\ next' = next + n /\ UNCHANGED wtodo
     ELSE wpc' = "copy" /\ wtodo' = n /\ UNCHANGED next
  /\ UNCHANGED <<ringVars, sleeping, readerVars, history>>

\* Mutant: the overflow is not recorded.
Overflow_NoError ==
  /\ wpc = "overflow"
  /\ wpc' = "wake"
  /\ UNCHANGED <<ringVars, sleeping, wtodo, next, readerVars, history>>

Overflow ==
  /\ wpc = "overflow"
  /\ error' = TRUE
  /\ wpc' = "wake"
  /\ UNCHANGED <<data, pread, pwrite, sleeping, wtodo, next, readerVars, history>>

\* Mutant: the reader is not woken after a write.
WriteCopy_NoWake ==
  LET n == Chunk(pwrite, wtodo) IN
  /\ wpc = "copy"
  /\ data' = [c \in Cell |-> IF c \in Writing THEN next + c - pwrite ELSE data[c]]
  /\ pwrite' = Advanced(pwrite, wtodo)
  /\ wtodo' = wtodo - n /\ next' = next + n
  /\ wpc' = IF n = wtodo THEN "idle" ELSE "copy"
  /\ UNCHANGED <<pread, error, sleeping, readerVars, history>>

(* One memcpy of dvb_ringbuffer_write and the new write pointer.            *)
WriteCopy ==
  LET n == Chunk(pwrite, wtodo) IN
  /\ wpc = "copy"
  /\ data' = [c \in Cell |-> IF c \in Writing THEN next + c - pwrite ELSE data[c]]
  /\ pwrite' = Advanced(pwrite, wtodo)
  /\ wtodo' = wtodo - n /\ next' = next + n
  /\ wpc' = IF n = wtodo THEN "wake" ELSE "copy"
  /\ UNCHANGED <<pread, error, sleeping, readerVars, history>>

(* wake_up() at the end of the callback.                                    *)
Wake ==
  /\ wpc = "wake"
  /\ sleeping' = FALSE
  /\ wpc' = "idle"
  /\ UNCHANGED <<ringVars, wtodo, next, readerVars, history>>
-----------------------------------------------------------------------------
ReadCall(c, nb) ==
  /\ rpc = "idle"
  /\ todo' = c /\ nonBlocking' = nb
  /\ rpc' = IF error THEN "flush" ELSE "loop"
  /\ UNCHANGED <<ringVars, sleeping, writerVars, len, history>>

(* read() returns the bytes it has copied, or an error if there are none.   *)
Return == rpc' = "idle" /\ UNCHANGED <<todo, len, nonBlocking>>

LoopHead ==
  /\ rpc = "loop"
  /\ IF todo = 0 \/ (nonBlocking /\ Empty)
     THEN Return
     ELSE rpc' = "enqueue" /\ UNCHANGED <<todo, len, nonBlocking>>
  /\ UNCHANGED <<ringVars, sleeping, writerVars, history>>

(* wait_event_interruptible                                                 *)
Enqueue ==
  /\ rpc = "enqueue"
  /\ sleeping' = TRUE
  /\ rpc' = "wait"
  /\ UNCHANGED <<ringVars, writerVars, todo, len, nonBlocking, history>>

WaitCheck ==
  /\ rpc = "wait"
  /\ IF ~Empty \/ error
     THEN sleeping' = FALSE /\ rpc' = "test"
     ELSE rpc' = "asleep" /\ UNCHANGED sleeping
  /\ UNCHANGED <<ringVars, writerVars, todo, len, nonBlocking, history>>

WakeUp ==
  /\ rpc = "asleep" /\ ~sleeping
  /\ rpc' = "enqueue"
  /\ UNCHANGED <<ringVars, sleeping, writerVars, todo, len, nonBlocking, history>>

Signal ==
  /\ rpc = "asleep"
  /\ sleeping' = FALSE
  /\ Return
  /\ UNCHANGED <<ringVars, writerVars, history>>

TestError ==
  /\ rpc = "test"
  /\ IF error
     THEN rpc' = "flush" /\ UNCHANGED len
     ELSE /\ len' = IF Avail > todo THEN todo ELSE Avail
          /\ rpc' = "copy"
  /\ UNCHANGED <<ringVars, sleeping, writerVars, todo, nonBlocking, history>>

(* One copy_to_user of dvb_ringbuffer_read_user and the new read pointer.   *)
ReadCopy ==
  LET n == Chunk(pread, len) IN
  /\ rpc = "copy"
  /\ out' = [k \in 1 .. n |-> data[pread + k - 1]]
  /\ told' = FALSE
  /\ pread' = Advanced(pread, len)
  /\ len' = len - n /\ todo' = todo - n
  /\ rpc' = IF n = len THEN "loop" ELSE "copy"
  /\ UNCHANGED <<data, pwrite, error, sleeping, writerVars, nonBlocking>>

CopyFault ==
  /\ rpc = "copy"
  /\ Return
  /\ UNCHANGED <<ringVars, sleeping, writerVars, history>>

(* dvb_ringbuffer_flush: the pointer first, the error then.                 *)
Flush ==
  /\ rpc = "flush"
  /\ pread' = pwrite
  /\ rpc' = "clear"
  /\ UNCHANGED <<data, pwrite, error, sleeping, writerVars, todo, len, nonBlocking,
                 history>>

Clear ==
  /\ rpc = "clear"
  /\ error' = FALSE
  /\ Return
  /\ told' = TRUE
  /\ UNCHANGED <<data, pread, pwrite, sleeping, writerVars, out>>
-----------------------------------------------------------------------------
Writer == Overflow \/ WriteCopy \/ Wake
Reader ==
  \/ LoopHead \/ Enqueue \/ WaitCheck \/ WakeUp \/ TestError \/ ReadCopy \/ Flush \/ Clear

Next ==
  \/ \E n \in Lengths : Callback(n)
  \/ Writer
  \/ \E c \in Counts, nb \in BOOLEAN : ReadCall(c, nb)
  \/ Reader \/ Signal \/ CopyFault

Spec == Init /\ [][Next]_vars

(* The callback and a read that has begun go on; nobody has to call either. *)
FairSpec == Spec /\ WF_vars(Writer) /\ WF_vars(Reader)
-----------------------------------------------------------------------------
(* The fields of the buffer and of the two calls stay in their ranges.      *)
TypeOK ==
  /\ data \in [Cell -> 0 .. MaxByte] /\ pread \in Cell /\ pwrite \in Cell
  /\ error \in BOOLEAN /\ sleeping \in BOOLEAN
  /\ wpc \in {"idle", "copy", "overflow", "wake"} /\ wtodo \in Nat /\ next \in 0 .. MaxByte
  /\ rpc \in {"idle", "loop", "enqueue", "wait", "asleep", "test", "copy", "flush", "clear"}
  /\ todo \in Nat /\ len \in Cell
  /\ nonBlocking \in BOOLEAN /\ told \in BOOLEAN

(* The callback never writes to a cell which read() is copying out at the   *)
(* same time, although they share no lock: each publishes its pointer after *)
(* its copy, and the callback leaves one cell free.                         *)
NoOverwriteDuringCopy == Writing \cap Reading = {}

(* Whatever the interleaving, the bytes come out in the order in which they *)
(* went in: the ring buffer implements a queue of Size - 1 bytes.           *)
Stored == [k \in 1 .. Avail |-> data[(pread + k - 1) % Size]]
Queue == INSTANCE Fifo WITH Capacity <- Size - 1, queue <- Stored
IsQueue == Queue!Spec

LastOut == IF out = <<>> THEN -1 ELSE out[Len(out)]

(* The reader gets a byte that does not follow the one before only after a  *)
(* read() that the overflow ended, with -EOVERFLOW or with fewer bytes than *)
(* asked for: an overflow is never swallowed by the flush or by a race with *)
(* the callback.                                                            *)
GapReported == [][out' # out /\ out'[1] # LastOut + 1 => told]_<<out, told>>

(* A reader that sleeps while there is something to read, or an error to    *)
(* report, wakes up.                                                        *)
NoLostWakeup == (rpc = "asleep" /\ (~Empty \/ error)) ~> rpc # "asleep"
=============================================================================
