-------------------------------- MODULE Fifo --------------------------------
(***************************************************************************)
(* What the ring buffer of the demux devices promises: a queue of bounded  *)
(* length between one writer and one reader.  Numbers stand for the bytes, *)
(* in the order in which they arrive.                                      *)
(***************************************************************************)
EXTENDS Integers, Sequences

CONSTANT Capacity

VARIABLES queue,  \* what can be read
          next,   \* the byte that arrives next
          out     \* what the reader got with its last read

Init == queue = <<>> /\ next = 0 /\ out = <<>>

Put ==
  \E n \in 1 .. Capacity - Len(queue) :
    /\ queue' = queue \o [k \in 1 .. n |-> next + k - 1]
    /\ next' = next + n
    /\ UNCHANGED out

Drop ==
  /\ next' > next
  /\ UNCHANGED <<queue, out>>

Get ==
  \E n \in 1 .. Len(queue) :
    /\ out' = SubSeq(queue, 1, n)
    /\ queue' = SubSeq(queue, n + 1, Len(queue))
    /\ UNCHANGED next

Flush == queue' = <<>> /\ UNCHANGED <<next, out>>

Next == Put \/ Drop \/ Get \/ Flush

Spec == Init /\ [][Next]_<<queue, next, out>>
=============================================================================
