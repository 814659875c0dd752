-------------------------- MODULE DmxBuffer_proofs --------------------------
(***************************************************************************)
(* The buffer of a demux device for every size, every length of packet and *)
(* every number of bytes asked for: the types, that the callback and the   *)
(* reader never use the same cell at the same time, that the ring is a     *)
(* queue (Fifo), and that a gap in what is read has been reported.         *)
(***************************************************************************)
EXTENDS DmxBuffer, SequenceTheorems, TLAPS

(* What the callback still has to write fits behind the write pointer, and  *)
(* its bytes have numbers.                                                  *)
WriterFits == wpc = "copy" => wtodo <= Free /\ next + wtodo <= MaxByte

(* What the reader still has to copy is there and was asked for.            *)
ReaderFits == rpc = "copy" => len <= Avail /\ len <= todo

IInv == TypeOK /\ WriterFits /\ ReaderFits

(* The arithmetic of the ring: one cell stays free, and a copy never leaves *)
(* the array.                                                               *)
LEMMA RingArithmetic ==
  ASSUME TypeOK
  PROVE  /\ Free \in Cell /\ Avail \in Cell /\ Free + Avail = Size - 1
         /\ \A p \in Cell, n \in Nat :
              /\ Chunk(p, n) \in 0 .. n /\ p + Chunk(p, n) <= Size
              /\ Advanced(p, n) \in Cell
  BY DmxBufferAssumption DEF TypeOK, Cell, Free, Avail, Chunk, Advanced

(* A write takes its bytes from the free space and adds them to what can be *)
(* read, also when it ends at the end of the array.                         *)
LEMMA WriteMoves ==
  ASSUME TypeOK, TypeOK', pread' = pread, wtodo <= Free,
         pwrite' = Advanced(pwrite, wtodo)
  PROVE  /\ Free' = Free - Chunk(pwrite, wtodo)
         /\ Avail' = Avail + Chunk(pwrite, wtodo)
  BY DmxBufferAssumption DEF TypeOK, Cell, Free, Avail, Chunk, Advanced

(* A read gives its bytes back to the free space.                           *)
LEMMA ReadMoves ==
  ASSUME TypeOK, TypeOK', pwrite' = pwrite, len <= Avail,
         pread' = Advanced(pread, len)
  PROVE  /\ Free' = Free + Chunk(pread, len)
         /\ Avail' = Avail - Chunk(pread, len)
  BY DmxBufferAssumption DEF TypeOK, Cell, Free, Avail, Chunk, Advanced

(* The invariant holds of a buffer that has just been set up.               *)
LEMMA IInvInit == Init => IInv
<1> SUFFICES ASSUME Init PROVE IInv
  OBVIOUS
<1>1. /\ 0 \in Cell /\ 0 \in 0 .. MaxByte
      /\ data \in [Cell -> 0 .. MaxByte]
  BY DmxBufferAssumption DEF Init, Cell
<1>2. TypeOK
  BY <1>1 DEF Init, TypeOK
<1>3. WriterFits /\ ReaderFits
  BY DEF Init, WriterFits, ReaderFits
<1> QED
  BY <1>2, <1>3 DEF IInv

(* Every step of the callback and of a reader keeps the invariant.          *)
LEMMA IInvNext == IInv /\ [Next]_vars => IInv'
<1> SUFFICES ASSUME IInv, [Next]_vars PROVE IInv'
  OBVIOUS
<1> USE DmxBufferAssumption DEF IInv
<1>0. /\ Free \in Int /\ Avail \in Int
      /\ Free <= Size - 1 /\ Avail <= Size - 1 /\ Avail >= 0
      /\ wtodo \in Nat /\ next \in Nat /\ len \in Nat /\ todo \in Nat
  BY RingArithmetic DEF TypeOK, Cell
<1>a. /\ \A n \in Nat : Chunk(pwrite, n) \in 0 .. n /\ pwrite + Chunk(pwrite, n) <= Size
                        /\ Advanced(pwrite, n) \in Cell
      /\ \A n \in Nat : Chunk(pread, n) \in 0 .. n /\ Advanced(pread, n) \in Cell
  BY RingArithmetic DEF TypeOK
<1>1. ASSUME NEW n \in Lengths, Callback(n) PROVE IInv'
  <2>1. /\ n \in Nat /\ next + n <= MaxByte /\ UNCHANGED <<ringVars, sleeping, readerVars, history>>
        /\ wpc' \in {"wake", "overflow", "copy"} /\ wtodo' \in {wtodo, n}
        /\ next' \in {next, next + n}
        /\ wpc' = "copy" => n <= Free /\ wtodo' = n /\ next' = next
    BY <1>1, <1>0 DEF Callback
  <2>2. TypeOK'
    BY <2>1, <1>0 DEF TypeOK, ringVars, readerVars, history
  <2>3. Free' = Free /\ Avail' = Avail
    BY <2>1 DEF Free, Avail, ringVars
  <2>4. WriterFits' /\ ReaderFits'
    BY <2>1, <2>3 DEF WriterFits, ReaderFits, readerVars
  <2> QED
    BY <2>2, <2>4
<1>2. CASE Overflow
  BY <1>2 DEF Overflow, TypeOK, WriterFits, ReaderFits, Free, Avail,
     readerVars, history
<1>3. CASE WriteCopy
  <2> DEFINE n == Chunk(pwrite, wtodo)
  <2>1. /\ n \in 0 .. wtodo /\ pwrite + n <= Size /\ pwrite' \in Cell
        /\ wtodo <= Free /\ next + wtodo <= MaxByte
    BY <1>3, <1>0, <1>a DEF WriteCopy, WriterFits
  <2>2. data' \in [Cell -> 0 .. MaxByte]
    <3>1. \A c \in Cell : c \in pwrite .. pwrite + n - 1
                           => next + c - pwrite \in 0 .. MaxByte
      BY <2>1, <1>0 DEF TypeOK, Cell
    <3>2. data' = [c \in Cell |-> IF c \in pwrite .. pwrite + n - 1
                                  THEN next + c - pwrite ELSE data[c]]
      BY <1>3 DEF WriteCopy, Writing, Region
    <3> HIDE DEF n
    <3> QED
      BY <3>1, <3>2 DEF TypeOK
  <2>3. TypeOK'
    <3>1. wtodo' = wtodo - n /\ next' = next + n /\ wpc' \in {"wake", "copy"}
      BY <1>3 DEF WriteCopy
    <3>2. wtodo' \in Nat /\ next' \in 0 .. MaxByte
      BY <3>1, <2>1, <1>0
    <3> QED
      BY <1>3, <2>1, <2>2, <3>1, <3>2 DEF WriteCopy, TypeOK, readerVars, history
  <2>4. Free' = Free - n /\ Avail' = Avail + n
    BY <1>3, <2>1, <2>3, WriteMoves DEF WriteCopy
  <2>5. WriterFits'
    <3>1. wtodo' = wtodo - n /\ next' = next + n
      BY <1>3 DEF WriteCopy
    <3>2. wtodo' <= Free' /\ next' + wtodo' <= MaxByte
      BY <3>1, <2>1, <2>4, <1>0
    <3> QED
      BY <3>2 DEF WriterFits
  <2>6. ReaderFits'
    <3>1. rpc' = rpc /\ len' = len /\ todo' = todo
      BY <1>3 DEF WriteCopy, readerVars
    <3>2. rpc = "copy" => len <= Avail'
      BY <2>1, <2>4, <1>0 DEF ReaderFits
    <3> QED
      BY <3>1, <3>2 DEF ReaderFits
  <2> QED
    BY <2>3, <2>5, <2>6
<1>4. CASE Wake
  BY <1>4 DEF Wake, TypeOK, WriterFits, ReaderFits, Free, Avail,
     ringVars, readerVars, history
<1>5. ASSUME NEW c \in Counts, NEW nb \in BOOLEAN, ReadCall(c, nb) PROVE IInv'
  BY <1>5 DEF ReadCall, TypeOK, WriterFits, ReaderFits, Free, Avail,
     ringVars, writerVars, history
<1>6. CASE LoopHead
  BY <1>6 DEF LoopHead, Return, TypeOK, WriterFits, ReaderFits, Free, Avail,
     ringVars, writerVars, history
<1>7. CASE Enqueue \/ WaitCheck \/ WakeUp \/ Signal
  BY <1>7 DEF Enqueue, WaitCheck, WakeUp, Signal, Return, TypeOK, WriterFits,
     ReaderFits, Free, Avail, ringVars, writerVars, history
<1>8. CASE TestError
  <2>1. /\ UNCHANGED <<ringVars, sleeping, writerVars, todo, nonBlocking, history>>
        /\ rpc' \in {"flush", "copy"}
        /\ len' = len \/ len' = Avail \/ (len' = todo /\ todo < Avail)
        /\ rpc' = "copy" => len' <= Avail /\ len' <= todo
    BY <1>8, <1>0 DEF TestError
  <2>2. len' \in Cell
    BY <2>1, <1>0 DEF TypeOK, Cell
  <2>3. TypeOK'
    BY <2>1, <2>2 DEF TypeOK, ringVars, writerVars, history
  <2>4. Free' = Free /\ Avail' = Avail
    BY <2>1 DEF Free, Avail, ringVars
  <2>5. WriterFits' /\ ReaderFits'
    BY <2>1, <2>4 DEF WriterFits, ReaderFits, writerVars
  <2> QED
    BY <2>3, <2>5
<1>9. CASE ReadCopy
  <2> DEFINE n == Chunk(pread, len)
  <2>1. /\ n \in 0 .. len /\ pread' \in Cell
        /\ len <= Avail /\ len <= todo
    BY <1>9, <1>0, <1>a DEF ReadCopy, ReaderFits
  <2>2. len' = len - n /\ todo' = todo - n /\ rpc' \in {"loop", "copy"}
    BY <1>9 DEF ReadCopy
  <2>a. len' \in Cell /\ todo' \in Nat /\ len' <= todo'
    BY <2>1, <2>2, <1>0 DEF Cell
  <2>3. TypeOK'
    BY <1>9, <2>1, <2>2, <2>a DEF ReadCopy, TypeOK, writerVars
  <2>4. Free' = Free + n /\ Avail' = Avail - n
    BY <1>9, <2>1, <2>3, ReadMoves DEF ReadCopy
  <2>5. WriterFits'
    <3>1. wpc' = wpc /\ wtodo' = wtodo /\ next' = next
      BY <1>9 DEF ReadCopy, writerVars
    <3>2. wpc = "copy" => wtodo <= Free' /\ next + wtodo <= MaxByte
      BY <2>1, <2>4, <1>0 DEF WriterFits
    <3> QED
      BY <3>1, <3>2 DEF WriterFits
  <2>6. ReaderFits'
    <3>1. len' <= Avail'
      BY <2>1, <2>2, <2>4, <1>0
    <3> QED
      BY <3>1, <2>a DEF ReaderFits
  <2> QED
    BY <2>3, <2>5, <2>6
<1>10. CASE CopyFault
  BY <1>10 DEF CopyFault, Return, TypeOK, WriterFits, ReaderFits, Free, Avail,
     ringVars, writerVars, history
<1>11. CASE Flush
  <2>1. /\ pread' = pwrite /\ rpc' = "clear"
        /\ UNCHANGED <<data, pwrite, error, sleeping, writerVars, todo, len, nonBlocking,
                       history>>
    BY <1>11 DEF Flush
  <2>2. TypeOK'
    BY <2>1 DEF TypeOK, writerVars, history
  <2>3. Free' = Size - 1
    BY <2>1 DEF Free, TypeOK, Cell
  <2>4. WriterFits' /\ ReaderFits'
    BY <2>1, <2>3, <1>0 DEF WriterFits, ReaderFits, writerVars
  <2> QED
    BY <2>2, <2>4
<1>12. CASE Clear
  BY <1>12 DEF Clear, Return, TypeOK, WriterFits, ReaderFits, Free, Avail,
     writerVars
<1>13. CASE UNCHANGED vars
  BY <1>13 DEF vars, TypeOK, WriterFits, ReaderFits, Free, Avail,
     ringVars, writerVars, readerVars, history
<1> QED
  BY <1>1, <1>2, <1>3, <1>4, <1>5, <1>6, <1>7, <1>8, <1>9, <1>10, <1>11, <1>12,
     <1>13 DEF Next, Writer, Reader

(* Where both sides copy, what is written lies in the free space and what   *)
(* is read in the rest.                                                     *)
LEMMA RegionsApart == IInv => NoOverwriteDuringCopy
  BY DmxBufferAssumption DEF IInv, TypeOK, WriterFits, ReaderFits, Free, Avail, Cell,
     NoOverwriteDuringCopy, Writing, Reading, Region, Chunk

(* Every reachable state has the invariant.                                 *)
THEOREM BufferInvariant == Spec => []IInv
  BY IInvInit, IInvNext, PTL DEF Spec

(* The pointers and the fields of the two calls stay in their ranges        *)
(* (dvb_ringbuffer.c, dmxdev.c: dvb_dmxdev_buffer_read).                    *)
THEOREM BufferWellTyped == Spec => []TypeOK
<1>1. IInv => TypeOK
  BY DEF IInv
<1> QED
  BY <1>1, BufferInvariant, PTL

(* dvb_ringbuffer_write never touches a byte which dvb_ringbuffer_read_user *)
(* is copying out, although the two share no lock.                          *)
THEOREM WriterAvoidsReader == Spec => []NoOverwriteDuringCopy
  BY BufferInvariant, RegionsApart, PTL

-----------------------------------------------------------------------------
(* The ring as a queue.                                                     *)

(* The cell of byte k from position p.                                      *)
At(p, k) == IF p + k - 1 < Size THEN p + k - 1 ELSE p + k - 1 - Size

LEMMA Modulo ==
  ASSUME NEW s \in Nat \ {0}, NEW x \in 0 .. 2 * s - 1
  PROVE  x % s = IF x < s THEN x ELSE x - s
  OBVIOUS

LEMMA AtModulo ==
  ASSUME NEW p \in Cell, NEW k \in 1 .. Size - 1
  PROVE  (p + k - 1) % Size = At(p, k) /\ At(p, k) \in Cell
<1>1. Size \in Nat \ {0} /\ p + k - 1 \in 0 .. 2 * Size - 1
  BY DmxBufferAssumption DEF Cell
<1> DEFINE x == p + k - 1
<1>2. x % Size = IF x < Size THEN x ELSE x - Size
  <2> HIDE DEF x
  <2>1. x \in 0 .. 2 * Size - 1
    BY <1>1 DEF x
  <2> QED
    BY <1>1, <2>1, Modulo
<1> QED
  BY <1>1, <1>2 DEF At, Cell

(* The bytes that can be read, by their cells.                              *)
LEMMA StoredCells ==
  ASSUME TypeOK
  PROVE  /\ Stored = [k \in 1 .. Avail |-> data[At(pread, k)]]
         /\ Avail \in 0 .. Size - 1
         /\ \A k \in 1 .. Avail : At(pread, k) \in Cell /\ data[At(pread, k)] \in Nat
<1>1. Avail \in 0 .. Size - 1 /\ pread \in Cell
  BY RingArithmetic DEF TypeOK, Cell
<1>2. \A k \in 1 .. Avail : (pread + k - 1) % Size = At(pread, k) /\ At(pread, k) \in Cell
  BY <1>1, AtModulo, DmxBufferAssumption
<1> QED
  BY <1>1, <1>2 DEF Stored, TypeOK

LEMMA StoredSeq ==
  ASSUME TypeOK
  PROVE  Stored \in Seq(Nat) /\ Len(Stored) = Avail
<1>1. Avail \in Nat
  BY StoredCells
<1> QED
  BY <1>1, StoredCells

(* The same after a step.                                                   *)
LEMMA StoredSeqNext ==
  TypeOK' => (/\ Stored \in Seq(Nat) /\ Len(Stored) = Avail
              /\ \A k \in 1 .. Avail : Stored[k] = data[At(pread, k)])'
<1>1. TypeOK => /\ Stored \in Seq(Nat) /\ Len(Stored) = Avail
                /\ \A k \in 1 .. Avail : Stored[k] = data[At(pread, k)]
  BY StoredCells, StoredSeq
<1> QED
  BY <1>1, PTL

(* The pointers alone decide which bytes can be read.                       *)
LEMMA StoredKept ==
  ASSUME UNCHANGED <<data, pread, pwrite>>
  PROVE  Stored' = Stored /\ Avail' = Avail /\ Empty' = Empty
  BY DEF Stored, Avail, Empty

(* What a copy of the callback appends.                                     *)
LEMMA WriteAppends ==
  ASSUME IInv, TypeOK', WriteCopy
  PROVE  /\ Chunk(pwrite, wtodo) \in 0 .. Free
         /\ Stored' = Stored \o [k \in 1 .. Chunk(pwrite, wtodo) |-> next + k - 1]
<1> DEFINE n == Chunk(pwrite, wtodo)
<1> USE DmxBufferAssumption
<1>1. /\ TypeOK /\ wtodo <= Free /\ wtodo \in Nat /\ pread' = pread
      /\ pwrite' = Advanced(pwrite, wtodo)
  BY DEF IInv, WriterFits, TypeOK, WriteCopy
<1>2. /\ n \in 0 .. wtodo /\ pwrite + n <= Size /\ Free \in Cell /\ Avail \in Cell
      /\ Free + Avail = Size - 1
  BY <1>1, RingArithmetic DEF TypeOK
<1>3. Avail' = Avail + n
  BY <1>1, WriteMoves
<1>4. data' = [c \in Cell |-> IF c \in pwrite .. pwrite + n - 1 THEN next + c - pwrite ELSE data[c]]
  BY DEF WriteCopy, Writing, Region
<1> HIDE DEF n
<1>5. /\ Avail \in Nat /\ n \in Nat /\ pread \in Cell /\ pwrite \in Cell /\ next \in Nat
      /\ Avail + n <= Size - 1
  <2>1. next \in 0 .. MaxByte /\ pread \in Cell /\ pwrite \in Cell
    BY <1>1 DEF TypeOK
  <2> QED
    BY <1>1, <1>2, <2>1 DEF Cell
<1>6. ASSUME NEW k \in 1 .. Avail
      PROVE  data'[At(pread, k)] = data[At(pread, k)]
  <2>1. At(pread, k) \in Cell /\ At(pread, k) \notin pwrite .. pwrite + n - 1
    BY <1>2, <1>5 DEF At, Avail, Cell
  <2> QED
    BY <1>4, <2>1
<1>7. ASSUME NEW k \in 1 .. n
      PROVE  data'[At(pread, Avail + k)] = next + k - 1
  <2>1. At(pread, Avail + k) = pwrite + k - 1 /\ pwrite + k - 1 \in Cell
    BY <1>2, <1>5 DEF At, Avail, Cell
  <2>2. pwrite + k - 1 \in pwrite .. pwrite + n - 1 /\ k \in Nat /\ pwrite \in Nat
    BY <1>5 DEF Cell
  <2>3. data'[pwrite + k - 1] = next + (pwrite + k - 1) - pwrite
    BY <1>4, <2>1, <2>2
  <2> QED
    BY <1>5, <2>1, <2>2, <2>3
<1>8. Stored' = [k \in 1 .. Avail + n |-> data'[At(pread, k)]]
  <2>1. Stored' = [k \in 1 .. Avail' |-> data'[(pread' + k - 1) % Size]]
    BY DEF Stored
  <2>2. \A k \in 1 .. Avail + n : (pread + k - 1) % Size = At(pread, k)
    BY <1>5, AtModulo
  <2> QED
    BY <1>1, <1>3, <2>1, <2>2
<1>9. Stored = [k \in 1 .. Avail |-> data[At(pread, k)]]
  BY <1>1, StoredCells
<1> DEFINE new == [k \in 1 .. n |-> next + k - 1]
<1>10. Stored' = Stored \o new
  <2>1. /\ Stored \in Seq(Nat) /\ Len(Stored) = Avail
        /\ new \in Seq(Nat) /\ Len(new) = n
    BY <1>1, <1>5, StoredSeq
  <2>2. ASSUME NEW k \in 1 .. Avail + n
        PROVE  data'[At(pread, k)] = IF k <= Avail THEN Stored[k] ELSE new[k - Avail]
    <3>1. CASE k <= Avail
      BY <1>5, <1>6, <1>9, <3>1
    <3>2. CASE k > Avail
      <4>1. k - Avail \in 1 .. n /\ k = Avail + (k - Avail)
        BY <1>5, <3>2
      <4>2. data'[At(pread, k)] = next + (k - Avail) - 1
        BY <1>7, <4>1
      <4>3. new[k - Avail] = next + (k - Avail) - 1
        BY <4>1
      <4> QED
        BY <1>5, <3>2, <4>2, <4>3
    <3> QED
      BY <1>5, <3>1, <3>2
  <2>3. Stored' \in Seq(Nat) /\ Len(Stored') = Avail + n
    BY <1>3, StoredSeqNext
  <2> DEFINE t == Stored \o new
  <2>4. /\ t \in Seq(Nat) /\ Len(t) = Avail + n
        /\ \A k \in 1 .. Avail + n : t[k] = IF k <= Avail THEN Stored[k] ELSE new[k - Avail]
    <3> HIDE DEF new
    <3> QED
      BY <2>1, ConcatProperties
  <2>5. \A k \in 1 .. Avail + n : Stored'[k] = t[k]
    <3> HIDE DEF new, t
    <3> QED
      BY <1>5, <1>8, <2>2, <2>4
  <2> HIDE DEF new, t
  <2>6. Stored' = t
    BY <2>3, <2>4, <2>5, SeqEqual
  <2> QED
    BY <2>6 DEF t
<1> QED
  BY <1>1, <1>2, <1>10 DEF n, Cell

(* What a copy of the reader takes.                                         *)
LEMMA ReadTakes ==
  ASSUME IInv, TypeOK', ReadCopy
  PROVE  /\ Chunk(pread, len) \in 0 .. Avail
         /\ out' = SubSeq(Stored, 1, Chunk(pread, len))
         /\ Stored' = SubSeq(Stored, Chunk(pread, len) + 1, Len(Stored))
<1> DEFINE n == Chunk(pread, len)
<1> USE DmxBufferAssumption
<1>1. /\ TypeOK /\ len <= Avail /\ len \in Nat /\ data' = data /\ pwrite' = pwrite
      /\ pread' = Advanced(pread, len)
  <2>1. TypeOK /\ len <= Avail /\ len \in Cell
    BY DEF IInv, ReaderFits, TypeOK, ReadCopy
  <2> QED
    BY <2>1 DEF ReadCopy, Cell
<1>2. n \in 0 .. len /\ pread + n <= Size
  BY <1>1, RingArithmetic DEF TypeOK
<1>3. Avail' = Avail - n
  BY <1>1, ReadMoves
<1>4. out' = [k \in 1 .. n |-> data[pread + k - 1]]
  BY DEF ReadCopy
<1>5. /\ Avail \in 0 .. Size - 1 /\ pread \in Cell /\ pread' \in Cell
      /\ Stored = [k \in 1 .. Avail |-> data[At(pread, k)]] /\ Len(Stored) = Avail
      /\ Stored \in Seq(Nat)
  BY <1>1, StoredCells, StoredSeq DEF TypeOK
<1>6. \A k \in 1 .. n : At(pread, k) = pread + k - 1
  BY <1>2, <1>5 DEF At, Cell
<1>7. \A k \in 1 .. Avail - n : At(pread', k) = At(pread, n + k)
  BY <1>1, <1>2, <1>5 DEF At, Cell, Advanced, Chunk
<1> HIDE DEF n
<1>8. out' = SubSeq(Stored, 1, n)
  <2>1. \A k \in 1 .. n : Stored[k] = data[pread + k - 1] /\ Stored[k] \in Nat
    BY <1>1, <1>2, <1>5, <1>6, StoredCells
  <2>2. /\ SubSeq(Stored, 1, n) \in Seq(Nat) /\ Len(SubSeq(Stored, 1, n)) = n
        /\ \A k \in 1 .. n : SubSeq(Stored, 1, n)[k] = Stored[k]
    <3> DEFINE s == Stored
    <3>1. n \in Nat /\ 1 \in Int /\ n \in Int /\ \A k \in 1 .. n : s[k] \in Nat
      BY <1>1, <1>2, <2>1
    <3> HIDE DEF s
    <3>2. /\ SubSeq(s, 1, n) \in Seq(Nat) /\ Len(SubSeq(s, 1, n)) = IF 1 <= n THEN n - 1 + 1 ELSE 0
          /\ \A k \in 1 .. n - 1 + 1 : SubSeq(s, 1, n)[k] = s[1 + k - 1]
      BY <3>1, SubSeqProperties
    <3> QED
      BY <3>1, <3>2 DEF s
  <2>3. out' \in Seq(Nat) /\ Len(out') = n /\ \A k \in 1 .. n : out'[k] = Stored[k]
    <3>1. \A k \in 1 .. n : data[pread + k - 1] \in Nat /\ n \in Nat
      BY <1>2, <2>1
    <3>2. n \in Nat
      BY <1>1, <1>2
    <3>3. out' \in [1 .. n -> Nat] /\ \A k \in 1 .. n : out'[k] = Stored[k]
      BY <1>4, <2>1, <3>1
    <3> QED
      BY <1>4, <3>1, <3>2, <3>3
  <2> QED
    BY <2>2, <2>3, SeqEqual
<1>9. Stored' = SubSeq(Stored, n + 1, Len(Stored))
  <2>1. \A k \in 1 .. Avail - n : Stored[n + k] = data[At(pread', k)] /\ Stored[n + k] \in Nat
    BY <1>1, <1>2, <1>5, <1>7, StoredCells
  <2> DEFINE s == Stored
             r == SubSeq(s, n + 1, Avail)
  <2>2. r \in Seq(Nat) /\ Len(r) = Avail - n /\ \A k \in 1 .. Avail - n : r[k] = s[n + k]
    <3>1. n + 1 \in Int /\ Avail \in Int /\ n \in Nat /\ Avail - n >= 0
      BY <1>1, <1>2, <1>5
    <3>2. \A k \in n + 1 .. Avail : s[k] \in Nat
      BY <1>5, <3>1, StoredCells, <1>1
    <3> HIDE DEF s
    <3>3. /\ r \in Seq(Nat) /\ Len(r) = IF n + 1 <= Avail THEN Avail - (n + 1) + 1 ELSE 0
          /\ \A k \in 1 .. Avail - (n + 1) + 1 : r[k] = s[n + 1 + k - 1]
      BY <3>1, <3>2, SubSeqProperties
    <3> HIDE DEF r
    <3> QED
      BY <3>1, <3>3
  <2>3. /\ Stored' \in Seq(Nat) /\ Len(Stored') = Avail - n
        /\ \A k \in 1 .. Avail - n : Stored'[k] = data[At(pread', k)]
    BY <1>1, <1>3, StoredSeqNext
  <2>4. \A k \in 1 .. Avail - n : Stored'[k] = r[k]
    BY <2>1, <2>2, <2>3
  <2>5. Stored' = r
    <3> HIDE DEF r
    <3> QED
      BY <2>2, <2>3, <2>4, SeqEqual
  <2> QED
    BY <1>5, <2>5
<1> QED
  BY <1>1, <1>2, <1>8, <1>9, <1>5 DEF n


(* The same by indices.                                                     *)
LEMMA WriteIndices ==
  ASSUME IInv, TypeOK', WriteCopy, NEW n, n = Chunk(pwrite, wtodo)
  PROVE  /\ n \in Nat /\ Len(Stored) \in Nat /\ Len(Stored') = Len(Stored) + n
         /\ \A k \in 1 .. Len(Stored) : Stored'[k] = Stored[k]
         /\ \A k \in 1 .. n : Stored'[Len(Stored) + k] = next + k - 1
<1> DEFINE new == [k \in 1 .. n |-> next + k - 1]
           l == Len(Stored)
<1>1. /\ n \in 0 .. Free /\ Stored' = Stored \o new /\ Stored \in Seq(Nat) /\ l = Avail
      /\ next \in Nat /\ Avail \in Nat /\ Free \in Nat /\ n \in Nat
  <2>1. TypeOK /\ next \in 0 .. MaxByte /\ MaxByte \in Nat
    BY DmxBufferAssumption DEF IInv, TypeOK
  <2>2. Free \in Nat /\ Avail \in Nat
    BY <2>1, RingArithmetic, DmxBufferAssumption DEF Cell
  <2>3. n \in 0 .. Free /\ Stored' = Stored \o new
    BY WriteAppends
  <2> QED
    BY <2>1, <2>2, <2>3, StoredSeq
<1>2. new \in Seq(Nat) /\ Len(new) = n /\ \A k \in 1 .. n : new[k] = next + k - 1
  <2>1. \A k \in 1 .. n : next + k - 1 \in Nat
    BY <1>1
  <2>2. n \in Nat
    BY <1>1
  <2> QED
    BY <2>1, <2>2
<1> HIDE DEF new
<1>3. /\ Len(Stored') = l + n
      /\ \A k \in 1 .. l + n : Stored'[k] = IF k <= l THEN Stored[k] ELSE new[k - l]
  <2> DEFINE t == Stored \o new
  <2>1. /\ t \in Seq(Nat) /\ Len(t) = l + n
        /\ \A k \in 1 .. l + n : t[k] = IF k <= l THEN Stored[k] ELSE new[k - l]
    <3>1. Stored \in Seq(Nat) /\ new \in Seq(Nat) /\ Len(new) = n
      BY <1>1, <1>2
    <3> QED
      BY <3>1, ConcatProperties
  <2>2. Stored' = t
    BY <1>1
  <2> HIDE DEF t, l
  <2> QED
    BY <2>1, <2>2
<1> HIDE DEF l
<1>4. \A k \in 1 .. l : Stored'[k] = Stored[k]
  BY <1>1, <1>3
<1>5. ASSUME NEW k \in 1 .. n PROVE Stored'[l + k] = next + k - 1
  <2>1. l + k \in 1 .. l + n /\ ~(l + k <= l) /\ (l + k) - l = k
    BY <1>1
  <2> QED
    BY <1>2, <1>3, <2>1
<1> QED
  BY <1>1, <1>3, <1>4, <1>5 DEF l

LEMMA ReadIndices ==
  ASSUME IInv, TypeOK', ReadCopy, NEW n, n = Chunk(pread, len)
  PROVE  /\ n \in 0 .. Len(Stored) /\ Len(Stored) \in Nat /\ Len(Stored') = Len(Stored) - n
         /\ \A k \in 1 .. Len(Stored) - n : Stored'[k] = Stored[n + k]
         /\ out' \in Seq(Nat) /\ Len(out') = n /\ \A k \in 1 .. n : out'[k] = Stored[k]
<1> DEFINE s == Stored
           l == Len(s)
<1>1. /\ n \in 0 .. l /\ s \in Seq(Nat) /\ l \in Nat
      /\ out' = SubSeq(s, 1, n) /\ Stored' = SubSeq(s, n + 1, l)
  BY ReadTakes, StoredSeq, StoredCells DEF IInv
<1>2. \A k \in 1 .. l : s[k] \in Nat
  BY <1>1
<1> HIDE DEF s
<1>3. l \in Nat /\ n \in Nat /\ n <= l
  BY <1>1
<1> HIDE DEF l
<1>4. /\ SubSeq(s, 1, n) \in Seq(Nat) /\ Len(SubSeq(s, 1, n)) = IF 1 <= n THEN n - 1 + 1 ELSE 0
      /\ \A k \in 1 .. n - 1 + 1 : SubSeq(s, 1, n)[k] = s[1 + k - 1]
  <2>1. 1 \in Int /\ n \in Int /\ \A k \in 1 .. n : s[k] \in Nat
    BY <1>2, <1>3
  <2> QED
    BY <2>1, SubSeqProperties
<1>5. /\ SubSeq(s, n + 1, l) \in Seq(Nat)
      /\ Len(SubSeq(s, n + 1, l)) = IF n + 1 <= l THEN l - (n + 1) + 1 ELSE 0
      /\ \A k \in 1 .. l - (n + 1) + 1 : SubSeq(s, n + 1, l)[k] = s[n + 1 + k - 1]
  <2>1. n + 1 \in Int /\ l \in Int /\ \A k \in n + 1 .. l : s[k] \in Nat
    BY <1>2, <1>3
  <2> QED
    BY <2>1, SubSeqProperties
<1>6. Len(Stored') = l - n /\ \A k \in 1 .. l - n : Stored'[k] = s[n + k]
  <2> DEFINE r == SubSeq(s, n + 1, l)
  <2>1. r = Stored'
    BY <1>1
  <2> HIDE DEF r
  <2>2. l - (n + 1) + 1 = l - n /\ \A k \in 1 .. l - n : n + 1 + k - 1 = n + k
    BY <1>3
  <2>3. Len(r) = l - n
    BY <1>3, <1>5 DEF r
  <2>4. \A k \in 1 .. l - n : r[k] = s[n + k]
    BY <1>5, <2>2 DEF r
  <2> QED
    BY <2>1, <2>3, <2>4
<1>7. out' \in Seq(Nat) /\ Len(out') = n /\ \A k \in 1 .. n : out'[k] = s[k]
  <2> DEFINE r == SubSeq(s, 1, n)
  <2>1. r = out'
    BY <1>1
  <2> HIDE DEF r
  <2> QED
    BY <1>3, <1>4, <2>1 DEF r
<1> QED
  BY <1>1, <1>6, <1>7 DEF s, l

-----------------------------------------------------------------------------
(* A read waits only for bytes it was asked for, and copies only when there *)
(* are some.                                                                *)
Asked ==
  /\ rpc \in {"enqueue", "wait", "asleep", "test"} => todo > 0
  /\ rpc = "test" => ~Empty \/ error
  /\ rpc = "copy" => len > 0

(* The callback stores nothing after an error, and the reader flushes only  *)
(* after one.                                                               *)
ErrorKnown ==
  /\ wpc \in {"copy", "overflow"} => ~error
  /\ rpc \in {"flush", "clear"} => error
  /\ rpc = "clear" => Empty

(* The bytes that can be read have consecutive numbers from b on.  Without  *)
(* an error the byte that arrives next follows them; unless an overflow was *)
(* told, they follow what was read last.                                    *)
Follows(b) ==
  /\ \A k \in 1 .. Len(Stored) : Stored[k] = b + k - 1
  /\ ~error /\ wpc # "overflow" => b + Len(Stored) = next
  /\ ~told => b = LastOut + 1

InOrder == \E b \in Int : Follows(b)

LEMMA EmptyAvail ==
  ASSUME TypeOK
  PROVE  /\ Empty <=> Avail = 0
         /\ Avail \in Nat /\ Free \in Nat
         /\ \A n \in Nat : n > 0 => Chunk(pread, n) > 0 /\ Chunk(pwrite, n) > 0
  BY DmxBufferAssumption DEF TypeOK, Cell, Empty, Avail, Free, Chunk

LEMMA EmptyAvailNext == TypeOK' => (Empty <=> Avail = 0)' /\ (Avail \in Nat)'
<1>1. TypeOK => (Empty <=> Avail = 0) /\ Avail \in Nat
  BY EmptyAvail
<1> QED
  BY <1>1, PTL

LEMMA RequestsInit == Init => Asked /\ ErrorKnown
  BY DEF Init, Asked, ErrorKnown

LEMMA AskedNext == IInv /\ IInv' /\ Asked /\ ErrorKnown /\ [Next]_vars => Asked'
<1> SUFFICES ASSUME IInv, IInv', Asked, ErrorKnown, [Next]_vars PROVE Asked'
  OBVIOUS
<1>0. /\ TypeOK /\ TypeOK' /\ todo \in Nat /\ len \in Nat
      /\ Counts \subseteq Nat \ {0}
  <2>1. TypeOK /\ TypeOK' /\ todo \in Nat /\ len \in Cell
    BY DEF IInv, TypeOK
  <2> QED
    BY <2>1, DmxBufferAssumption DEF Cell
<1>1. ASSUME NEW n \in Lengths, Callback(n) PROVE Asked'
  BY <1>1 DEF Callback, Asked, Empty, ringVars, readerVars
<1>2. CASE Overflow
  BY <1>2 DEF Overflow, Asked, Empty, readerVars
<1>3. CASE WriteCopy
  <2>1. /\ Chunk(pwrite, wtodo) \in Nat /\ Avail' = Avail + Chunk(pwrite, wtodo)
        /\ wtodo <= Free
    BY <1>0, <1>3, RingArithmetic, WriteMoves DEF IInv, TypeOK, WriterFits, WriteCopy
  <2>2. ~Empty => ~Empty'
    BY <1>0, <2>1, EmptyAvail, EmptyAvailNext
  <2> QED
    BY <1>3, <2>2 DEF WriteCopy, Asked, readerVars
<1>4. CASE Wake
  BY <1>4 DEF Wake, Asked, Empty, ringVars, readerVars
<1>5. ASSUME NEW c \in Counts, NEW nb \in BOOLEAN, ReadCall(c, nb) PROVE Asked'
  BY <1>5 DEF ReadCall, Asked
<1>6. CASE LoopHead
  BY <1>0, <1>6 DEF LoopHead, Return, Asked
<1>7. CASE Enqueue
  BY <1>7 DEF Enqueue, Asked
<1>8. CASE WaitCheck
  BY <1>8 DEF WaitCheck, Asked, Empty, ringVars
<1>9. CASE WakeUp
  BY <1>9 DEF WakeUp, Asked
<1>10. CASE Signal
  BY <1>10 DEF Signal, Return, Asked
<1>11. CASE TestError
  <2>1. ~error => Avail > 0 /\ todo > 0
    BY <1>0, <1>11, EmptyAvail DEF TestError, Asked
  <2> QED
    BY <1>0, <1>11, <2>1 DEF TestError, Asked
<1>12. CASE ReadCopy
  <2>1. len > 0
    BY <1>12 DEF ReadCopy, Asked
  <2>2. Chunk(pread, len) \in 0 .. len
    BY <1>0, RingArithmetic DEF TypeOK
  <2> DEFINE n == Chunk(pread, len)
  <2>3. len' = len - n /\ rpc' = IF n = len THEN "loop" ELSE "copy"
    BY <1>12 DEF ReadCopy
  <2> HIDE DEF n
  <2>4. rpc' = "copy" => len' > 0
    BY <1>0, <2>1, <2>2, <2>3 DEF n
  <2> QED
    BY <2>3, <2>4 DEF Asked
<1>13. CASE CopyFault
  BY <1>13 DEF CopyFault, Return, Asked
<1>14. CASE Flush
  BY <1>14 DEF Flush, Asked
<1>15. CASE Clear
  BY <1>15 DEF Clear, Return, Asked
<1>16. CASE UNCHANGED vars
  BY <1>16 DEF vars, Asked, Empty, ringVars, readerVars
<1> QED
  BY <1>1, <1>2, <1>3, <1>4, <1>5, <1>6, <1>7, <1>8, <1>9, <1>10, <1>11, <1>12,
     <1>13, <1>14, <1>15, <1>16 DEF Next, Writer, Reader

LEMMA ErrorKnownNext == IInv /\ ErrorKnown /\ [Next]_vars => ErrorKnown'
<1> SUFFICES ASSUME IInv, ErrorKnown, [Next]_vars PROVE ErrorKnown'
  OBVIOUS
<1>1. ASSUME NEW n \in Lengths, Callback(n) PROVE ErrorKnown'
  BY <1>1 DEF Callback, ErrorKnown, Empty, ringVars, readerVars
<1>2. CASE Writer
  BY <1>2 DEF Writer, Overflow, WriteCopy, Wake, ErrorKnown, Empty, ringVars, readerVars
<1>3. ASSUME NEW c \in Counts, NEW nb \in BOOLEAN, ReadCall(c, nb) PROVE ErrorKnown'
  BY <1>3 DEF ReadCall, ErrorKnown, Empty, ringVars, writerVars
<1>4. CASE LoopHead \/ Enqueue \/ WaitCheck \/ WakeUp \/ Signal \/ CopyFault
  BY <1>4 DEF LoopHead, Enqueue, WaitCheck, WakeUp, Signal, CopyFault, Return, ErrorKnown,
     Empty, ringVars, writerVars
<1>5. CASE TestError
  BY <1>5 DEF TestError, ErrorKnown, ringVars, writerVars
<1>6. CASE ReadCopy
  BY <1>6 DEF ReadCopy, ErrorKnown, writerVars
<1>7. CASE Flush
  BY <1>7 DEF Flush, ErrorKnown, Empty, writerVars
<1>8. CASE Clear
  BY <1>8 DEF Clear, Return, ErrorKnown, writerVars
<1>9. CASE UNCHANGED vars
  BY <1>9 DEF vars, ErrorKnown, Empty, ringVars, writerVars, readerVars
<1> QED
  BY <1>1, <1>2, <1>3, <1>4, <1>5, <1>6, <1>7, <1>8, <1>9 DEF Next, Reader


LEMMA InOrderInit == Init => InOrder
<1> SUFFICES ASSUME Init PROVE Follows(0)
  BY DEF InOrder
<1>1. TypeOK /\ Avail = 0
  BY IInvInit DEF IInv, Init, Avail
<1>2. Len(Stored) = 0
  BY <1>1, StoredSeq
<1>3. LastOut = -1 /\ next = 0
  BY DEF Init, LastOut
<1> QED
  BY <1>2, <1>3 DEF Follows

(* A step that leaves the ring and what was read alone keeps the order, if  *)
(* it neither clears the error nor drops or loses bytes without one.        *)
LEMMA FollowsKept ==
  ASSUME NEW b, Follows(b), UNCHANGED <<data, pread, pwrite, out>>,
         told' = told \/ told',
         ~error' /\ wpc' # "overflow" => ~error /\ wpc # "overflow" /\ next' = next
  PROVE  Follows(b)'
<1>1. Stored' = Stored /\ LastOut' = LastOut
  BY StoredKept DEF LastOut
<1> QED
  BY <1>1 DEF Follows

LEMMA WriteFollows ==
  ASSUME IInv, TypeOK', ErrorKnown, WriteCopy, NEW b \in Int, Follows(b)
  PROVE  Follows(b)'
<1> DEFINE n == Chunk(pwrite, wtodo)
           l == Len(Stored)
<1>1. /\ n \in Nat /\ l \in Nat /\ Len(Stored') = l + n
      /\ \A k \in 1 .. l : Stored'[k] = Stored[k]
      /\ \A k \in 1 .. n : Stored'[l + k] = next + k - 1
  BY WriteIndices
<1>2. b + l = next /\ \A k \in 1 .. l : Stored[k] = b + k - 1
  BY DEF WriteCopy, ErrorKnown, Follows
<1>3. next' = next + n /\ LastOut' = LastOut /\ told' = told
  BY DEF WriteCopy, history, LastOut
<1> HIDE DEF n, l
<1>4. ASSUME NEW k \in 1 .. l + n PROVE Stored'[k] = b + k - 1
  <2>1. CASE k \in 1 .. l
    BY <1>1, <1>2, <2>1
  <2>2. CASE k \notin 1 .. l
    <3>1. k - l \in 1 .. n /\ l + (k - l) = k
      BY <1>1, <2>2
    <3>2. Stored'[l + (k - l)] = next + (k - l) - 1
      BY <1>1, <3>1
    <3> QED
      BY <1>1, <1>2, <3>1, <3>2
  <2> QED
    BY <2>1, <2>2
<1>5. b + (l + n) = next'
  BY <1>1, <1>2, <1>3
<1>6. ~told => b = LastOut + 1
  BY DEF Follows
<1> QED
  BY <1>1, <1>3, <1>4, <1>5, <1>6 DEF Follows

LEMMA ReadFollows ==
  ASSUME IInv, TypeOK', Asked, ReadCopy, NEW b \in Int, Follows(b),
         NEW c \in Int, c = b + Chunk(pread, len)
  PROVE  /\ Follows(c)'
         /\ Chunk(pread, len) \in 1 .. Len(Stored)
         /\ out' # <<>> /\ out'[1] = b
<1> DEFINE n == Chunk(pread, len)
           l == Len(Stored)
<1>1. /\ n \in 0 .. l /\ l \in Nat /\ Len(Stored') = l - n
      /\ \A k \in 1 .. l - n : Stored'[k] = Stored[n + k]
      /\ Len(out') = n /\ \A k \in 1 .. n : out'[k] = Stored[k]
  BY ReadIndices
<1>2. n > 0
  <2>1. len \in Nat /\ len > 0
    BY DmxBufferAssumption DEF IInv, TypeOK, Cell, Asked, ReadCopy
  <2> QED
    BY <2>1, EmptyAvail DEF IInv
<1>3. \A k \in 1 .. l : Stored[k] = b + k - 1
  BY DEF Follows
<1>4. ~told' /\ next' = next /\ error' = error /\ wpc' = wpc
  BY DEF ReadCopy, writerVars
<1>a. ~error /\ wpc # "overflow" => b + l = next
  BY DEF Follows
<1> HIDE DEF n, l
<1>5. out' # <<>> /\ LastOut' = b + n - 1 /\ out'[1] = b
  <2>1. out'[1] = b /\ out'[n] = b + n - 1
    BY <1>1, <1>2, <1>3
  <2>2. out' # <<>>
    BY <1>1, <1>2
  <2> QED
    BY <1>1, <2>1, <2>2 DEF LastOut
<1>6. \A k \in 1 .. l - n : Stored'[k] = (b + n) + k - 1
  BY <1>1, <1>2, <1>3
<1>7. ~error' /\ wpc' # "overflow" => (b + n) + (l - n) = next'
  BY <1>1, <1>4, <1>a
<1>8. b + n = LastOut' + 1
  BY <1>1, <1>5
<1>b. c = b + n
  BY DEF n
<1>9. /\ \A k \in 1 .. Len(Stored') : Stored'[k] = c + k - 1
      /\ ~error' /\ wpc' # "overflow" => c + Len(Stored') = next'
      /\ c = LastOut' + 1
  BY <1>1, <1>6, <1>7, <1>8, <1>b
<1>10. Follows(c)'
  BY <1>9 DEF Follows
<1> QED
  BY <1>1, <1>2, <1>5, <1>10 DEF n, l

(* Flush and Clear leave nothing to read.                                   *)
LEMMA NothingStored ==
  ASSUME TypeOK', Empty'
  PROVE  Len(Stored') = 0 /\ Stored' = <<>>
<1>1. Stored' \in Seq(Nat) /\ Len(Stored') = 0
  BY StoredSeqNext, EmptyAvailNext
<1> QED
  BY <1>1, EmptySeq

LEMMA InOrderNext ==
  IInv /\ IInv' /\ Asked /\ ErrorKnown /\ InOrder /\ [Next]_vars => InOrder'
<1> SUFFICES ASSUME IInv, IInv', Asked, ErrorKnown, [Next]_vars, NEW b \in Int, Follows(b)
             PROVE  \E c \in Int : Follows(c)'
  BY DEF InOrder
<1>0. TypeOK' /\ next' \in Int
  BY DEF IInv, TypeOK
<1>1. ASSUME NEW n \in Lengths, Callback(n) PROVE Follows(b)'
  BY <1>1, FollowsKept DEF Callback, ringVars, history
<1>2. CASE Overflow
  BY <1>2, FollowsKept DEF Overflow, history
<1>3. CASE WriteCopy
  BY <1>0, <1>3, WriteFollows
<1>4. CASE Wake
  BY <1>4, FollowsKept DEF Wake, ringVars, history
<1>5. ASSUME NEW c \in Counts, NEW nb \in BOOLEAN, ReadCall(c, nb) PROVE Follows(b)'
  BY <1>5, FollowsKept DEF ReadCall, ringVars, writerVars, history
<1>6. CASE LoopHead \/ Enqueue \/ WaitCheck \/ WakeUp \/ Signal \/ TestError \/ CopyFault
  <2>1. UNCHANGED <<ringVars, writerVars, history>>
    BY <1>6 DEF LoopHead, Enqueue, WaitCheck, WakeUp, Signal, TestError, CopyFault
  <2> QED
    BY <2>1, FollowsKept DEF ringVars, writerVars, history
<1>7. CASE ReadCopy
  <2>1. Chunk(pread, len) \in Int
    BY <1>0, <1>7, ReadIndices
  <2>2. PICK c \in Int : c = b + Chunk(pread, len)
    BY <2>1
  <2>3. Follows(c)'
    BY <1>0, <1>7, <2>2, ReadFollows
  <2> QED
    BY <2>3
<1>8. CASE Flush
  <2>1. Len(Stored') = 0 /\ error' /\ LastOut' = LastOut /\ told' = told
    BY <1>0, <1>8, NothingStored DEF Flush, ErrorKnown, Empty, LastOut, history
  <2> QED
    BY <2>1 DEF Follows
<1>9. CASE Clear
  <2>1. Len(Stored') = 0 /\ told'
    BY <1>0, <1>9, NothingStored DEF Clear, ErrorKnown, Empty
  <2>2. PICK c \in Int : c + 0 = next'
    BY <1>0
  <2>3. Follows(c)'
    BY <2>1, <2>2 DEF Follows
  <2> QED
    BY <2>3
<1>10. CASE UNCHANGED vars
  BY <1>10, FollowsKept DEF vars, ringVars, writerVars, history
<1> QED
  BY <1>1, <1>2, <1>3, <1>4, <1>5, <1>6, <1>7, <1>8, <1>9, <1>10 DEF Next, Writer, Reader


(* Every reachable state has the four parts together.                       *)
Ordered == IInv /\ Asked /\ ErrorKnown /\ InOrder

LEMMA OrderedHolds == Spec => []Ordered
<1>1. Init => Ordered
  BY IInvInit, RequestsInit, InOrderInit DEF Ordered
<1>2. Ordered /\ [Next]_vars => Ordered'
  BY IInvNext, AskedNext, ErrorKnownNext, InOrderNext DEF Ordered
<1> QED
  BY <1>1, <1>2, PTL DEF Spec

-----------------------------------------------------------------------------
(* The queue.                                                               *)

LEMMA QueueInit == Init => Queue!Init
<1> SUFFICES ASSUME Init PROVE Queue!Init
  OBVIOUS
<1>1. TypeOK /\ Avail = 0
  BY IInvInit DEF IInv, Init, Avail
<1>2. Stored = <<>>
  BY <1>1, StoredSeq, EmptySeq
<1> QED
  BY <1>2 DEF Init, Queue!Init

LEMMA WritePuts ==
  ASSUME IInv, TypeOK', WriteCopy
  PROVE  Queue!Put \/ UNCHANGED <<Stored, next, out>>
<1> DEFINE n == Chunk(pwrite, wtodo)
<1>1. /\ n \in 0 .. Free /\ Stored' = Stored \o [k \in 1 .. n |-> next + k - 1]
      /\ next' = next + n /\ out' = out
  BY WriteAppends DEF WriteCopy, history
<1>2. /\ Stored \in Seq(Nat) /\ Len(Stored) = Avail /\ Free = Size - 1 - Avail
      /\ next \in Nat /\ Free \in Nat
  <2>1. TypeOK /\ next \in 0 .. MaxByte /\ Size \in Nat /\ MaxByte \in Nat
    BY DmxBufferAssumption DEF IInv, TypeOK
  <2>2. Free \in Nat /\ Avail \in Nat /\ Free + Avail = Size - 1
    BY <2>1, RingArithmetic DEF Cell
  <2> QED
    BY <2>1, <2>2, StoredSeq
<1> HIDE DEF n
<1>3. CASE n = 0
  <2> DEFINE new == [k \in 1 .. n |-> next + k - 1]
  <2>1. new = <<>>
    BY <1>3
  <2> HIDE DEF new
  <2>2. Stored \o new = Stored
    BY <1>2, <2>1, ConcatEmptySeq
  <2>3. Stored' = Stored
    BY <1>1, <2>2 DEF new
  <2>4. next' = next
    BY <1>1, <1>2, <1>3
  <2> QED
    BY <1>1, <2>3, <2>4
<1>4. CASE n # 0
  <2>1. n \in 1 .. Size - 1 - Len(Stored)
    BY <1>1, <1>2, <1>4
  <2> QED
    BY <1>1, <2>1 DEF Queue!Put
<1> QED
  BY <1>3, <1>4

LEMMA ReadGets ==
  ASSUME IInv, TypeOK', Asked, ReadCopy, NEW b \in Int, Follows(b)
  PROVE  Queue!Get
<1> DEFINE n == Chunk(pread, len)
<1>1. /\ out' = SubSeq(Stored, 1, n) /\ Stored' = SubSeq(Stored, n + 1, Len(Stored))
      /\ n \in Int
  BY ReadTakes, ReadIndices
<1>2. PICK c \in Int : c = b + n
  BY <1>1
<1>3. n \in 1 .. Len(Stored)
  BY <1>2, ReadFollows
<1>4. next' = next
  BY DEF ReadCopy, writerVars
<1> HIDE DEF n
<1> QED
  BY <1>1, <1>3, <1>4 DEF Queue!Get

LEMMA QueueStep ==
  Ordered /\ Ordered' /\ [Next]_vars => [Queue!Next]_<<Stored, next, out>>
<1> SUFFICES ASSUME IInv, TypeOK', Asked, ErrorKnown, [Next]_vars,
                    NEW b \in Int, Follows(b)
             PROVE  Queue!Next \/ UNCHANGED <<Stored, next, out>>
  BY DEF Ordered, InOrder, IInv
<1>1. ASSUME NEW n \in Lengths, Callback(n)
      PROVE  Queue!Drop \/ UNCHANGED <<Stored, next, out>>
  <2>1. n \in Nat /\ n > 0 /\ next \in Nat
    BY DmxBufferAssumption DEF IInv, TypeOK
  <2>2. UNCHANGED <<Stored, out>> /\ (next' = next \/ next' = next + n)
    BY <1>1, StoredKept DEF Callback, ringVars, history
  <2>3. next' = next \/ next' > next
    BY <2>1, <2>2
  <2> QED
    BY <2>2, <2>3 DEF Queue!Drop
<1>2. CASE Overflow \/ Wake
  BY <1>2, StoredKept DEF Overflow, Wake, ringVars, history
<1>3. CASE WriteCopy
  BY <1>3, WritePuts DEF Queue!Next
<1>4. ASSUME NEW c \in Counts, NEW nb \in BOOLEAN, ReadCall(c, nb)
      PROVE  UNCHANGED <<Stored, next, out>>
  BY <1>4, StoredKept DEF ReadCall, ringVars, writerVars, history
<1>5. CASE LoopHead \/ Enqueue \/ WaitCheck \/ WakeUp \/ Signal \/ TestError \/ CopyFault
  <2>1. UNCHANGED <<ringVars, writerVars, history>>
    BY <1>5 DEF LoopHead, Enqueue, WaitCheck, WakeUp, Signal, TestError, CopyFault
  <2> QED
    BY <2>1, StoredKept DEF ringVars, writerVars, history
<1>6. CASE ReadCopy
  BY <1>6, ReadGets DEF Queue!Next
<1>7. CASE Flush
  <2>1. Stored' = <<>>
    BY <1>7, NothingStored DEF Flush, Empty
  <2> QED
    BY <1>7, <2>1 DEF Flush, Queue!Next, Queue!Flush, writerVars, history
<1>8. CASE Clear
  BY <1>8, StoredKept DEF Clear, writerVars
<1>9. CASE UNCHANGED vars
  BY <1>9, StoredKept DEF vars, ringVars, writerVars, history
<1> QED
  BY <1>1, <1>2, <1>3, <1>4, <1>5, <1>6, <1>7, <1>8, <1>9
     DEF Next, Writer, Reader, Queue!Next

(* The buffer of a device is a queue of Size - 1 bytes, whatever the order  *)
(* in which the steps of dvb_dmxdev_ts_callback and of                      *)
(* dvb_dmxdev_buffer_read come: bytes leave it in the order of their        *)
(* arrival, none twice and none changed.                                    *)
THEOREM BufferIsQueue == Spec => IsQueue
  BY QueueInit, QueueStep, OrderedHolds, PTL DEF Spec, IsQueue, Queue!Spec

-----------------------------------------------------------------------------
(* A read hands out a byte that does not follow the one before only after   *)
(* dvb_ringbuffer_flush has answered an overflow (dvb_dmxdev_buffer_read).  *)
THEOREM GapsAreReported == Spec => GapReported
<1>1. Ordered /\ Ordered' /\ [Next]_vars
        => [out' # out /\ out'[1] # LastOut + 1 => told]_<<out, told>>
  <2> SUFFICES ASSUME IInv, TypeOK', Asked, [Next]_vars, NEW b \in Int, Follows(b),
                      out' # out, ~told
               PROVE  out'[1] = LastOut + 1
    BY DEF Ordered, InOrder, IInv
  <2>1. ReadCopy
    BY DEF Next, Writer, Reader, Callback, Overflow, WriteCopy, Wake, ReadCall, LoopHead,
       Enqueue, WaitCheck, WakeUp, Signal, TestError, CopyFault, Flush, Clear, vars, history
  <2>2. PICK c \in Int : c = b + Chunk(pread, len)
    BY <2>1, ReadIndices
  <2>3. out'[1] = b
    BY <2>1, <2>2, ReadFollows
  <2> QED
    BY <2>3 DEF Follows
<1> QED
  BY <1>1, OrderedHolds, PTL DEF Spec, GapReported
=============================================================================
