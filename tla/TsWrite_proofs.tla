--------------------------- MODULE TsWrite_proofs ---------------------------
(***************************************************************************)
(* The sending side for every number and size of buffers, every packet and *)
(* every register unit that the driver may have: the driver and the engine *)
(* agree on what is queued, and a write that may go on can go on.          *)
(*                                                                         *)
(* The argument measures how far the process is ahead of a position of the *)
(* ring (Behind): what is queued is its lead over the engine, and what the *)
(* process knows of the engine only makes its lead look longer.            *)
(***************************************************************************)
EXTENDS TsWrite, TLAPS

(* Products and remainders.                                                 *)
LEMMA Order ==
  ASSUME NEW s \in Nat, NEW i \in Nat, NEW j \in Nat, i < j
  PROVE  i * s + s <= j * s
  OBVIOUS

LEMMA Successor ==
  ASSUME NEW s \in Nat, NEW i \in Nat
  PROVE  (i + 1) * s = i * s + s /\ i * s \in Nat
  OBVIOUS

LEMMA Modulo ==
  ASSUME NEW s \in Nat \ {0}, NEW x \in 0 .. 2 * s - 1
  PROVE  x % s = IF x < s THEN x ELSE x - s
  OBVIOUS

LEMMA Quotient ==
  ASSUME NEW g \in Nat, g > 0, NEW x \in Nat, NEW q \in Int, q = x \div g,
         NEW r \in Int, r = x % g
  PROVE  x = q * g + r
  OBVIOUS

LEMMA Remainder ==
  ASSUME NEW g \in Nat \ {0}, NEW x \in Nat
  PROVE  \E k \in Nat, r \in 0 .. g - 1 : r = x % g /\ x = k * g + r
<1>1. x % g \in 0 .. g - 1 /\ x \div g \in Nat /\ g > 0
  OBVIOUS
<1>2. PICK q \in Nat, r \in 0 .. g - 1 : q = x \div g /\ r = x % g
  BY <1>1
<1>3. x = q * g + r
  BY <1>1, <1>2, Quotient
<1> QED
  BY <1>2, <1>3

LEMMA RemainderUnique ==
  ASSUME NEW g \in Nat \ {0}, NEW k \in Nat, NEW r \in 0 .. g - 1
  PROVE  (k * g + r) % g = r
  OBVIOUS

(* Multiples of the register unit.                                          *)
LEMMA Multiples ==
  ASSUME NEW g \in Nat \ {0}, NEW x \in Nat, x % g = 0
  PROVE  /\ \A r \in 0 .. g - 1 : (x + r) % g = r
         /\ (x + g) % g = 0
         /\ \A y \in Nat : y % g = 0 /\ x < y => x + g <= y
<1>1. PICK k \in Nat : x = k * g + 0
  <2>1. PICK k \in Nat, r \in 0 .. g - 1 : r = x % g /\ x = k * g + r
    BY Remainder
  <2> QED
    BY <2>1
<1>2. ASSUME NEW r \in 0 .. g - 1 PROVE (x + r) % g = r
  <2>1. x + r = k * g + r
    BY <1>1, Successor
  <2> QED
    BY <2>1, RemainderUnique
<1>3. (x + g) % g = 0
  <2>1. x + g = (k + 1) * g + 0 /\ 0 \in 0 .. g - 1 /\ k + 1 \in Nat
    BY <1>1, Successor
  <2> QED
    BY <2>1, RemainderUnique
<1>4. ASSUME NEW y \in Nat, y % g = 0, x < y PROVE x + g <= y
  <2>1. PICK j \in Nat : y = j * g + 0
    <3>1. PICK j \in Nat, r \in 0 .. g - 1 : r = y % g /\ y = j * g + r
      BY Remainder
    <3> QED
      BY <1>4, <3>1
  <2>2. ~(j <= k)
    <3> SUFFICES ASSUME j <= k PROVE FALSE
      OBVIOUS
    <3>1. j = k \/ j * g + g <= k * g
      BY Order
    <3> QED
      BY <1>1, <1>4, <2>1, <3>1, Successor
  <2>3. k * g + g <= j * g
    BY <2>2, Order
  <2> QED
    BY <1>1, <2>1, <2>3, Successor
<1> QED
  BY <1>2, <1>3, <1>4

(* What the registers keep of an offset.                                    *)
LEMMA FloorOf ==
  ASSUME NEW x \in Nat, Gran \in Nat \ {0}
  PROVE  /\ Floor(x) \in Nat /\ Floor(x) <= x /\ x - Floor(x) \in 0 .. Gran - 1
         /\ Floor(x) % Gran = 0
         /\ x % Gran = 0 => Floor(x) = x
<1>1. PICK k \in Nat, r \in 0 .. Gran - 1 : r = x % Gran /\ x = k * Gran + r
  BY Remainder
<1>2. k * Gran \in Nat
  BY Successor
<1>3. Floor(x) = x - r
  BY <1>1 DEF Floor
<1>4. Floor(x) = k * Gran + 0
  BY <1>1, <1>2, <1>3
<1>5. Floor(x) % Gran = 0
  BY <1>4, RemainderUnique
<1> DEFINE m == k * Gran
<1>6. m \in Nat /\ x = m + r /\ Floor(x) = m
  BY <1>1, <1>2, <1>4
<1> HIDE DEF m
<1>7. Floor(x) \in Nat /\ Floor(x) <= x /\ x - Floor(x) \in 0 .. Gran - 1
  BY <1>1, <1>6
<1>8. x % Gran = 0 => Floor(x) = x
  BY DEF Floor
<1> QED
  BY <1>5, <1>7, <1>8

-----------------------------------------------------------------------------
(* Positions.                                                               *)

LEMMA Sizes ==
  /\ Num \in Nat /\ Num >= 2 /\ Size \in Nat /\ Packet \in Nat /\ Packet > 0
  /\ Size > 2 * Packet /\ Gran \in Nat \ {0} /\ Gran <= Packet /\ Size % Gran = 0
  /\ RingSize \in Nat /\ RingSize >= 2 * Size
<1>1. /\ Num \in Nat /\ Num >= 2 /\ Size \in Nat /\ Packet \in Nat /\ Packet > 0
      /\ Size > 2 * Packet /\ Gran \in Nat \ {0} /\ Gran <= Packet
  BY WriteAssumption
<1>2. Size % Gran = 0
  BY WriteAssumption
<1>3. RingSize \in Nat /\ RingSize >= 2 * Size
  <2>1. 1 * Size = Size /\ 1 * Size + Size <= Num * Size
    BY <1>1, Order
  <2>2. Num * Size \in Nat
    BY <1>1, Successor
  <2> QED
    BY <1>1, <2>1, <2>2 DEF RingSize
<1> QED
  BY <1>1, <1>2, <1>3

LEMMA NextBuffer ==
  ASSUME NEW i \in 0 .. Num - 1
  PROVE  /\ Next1(i) \in 0 .. Num - 1 /\ Next1(i) # i
         /\ i + 1 < Num => Next1(i) = i + 1
         /\ i + 1 >= Num => i = Num - 1 /\ Next1(i) = 0
<1>1. Num \in Nat \ {0} /\ i + 1 \in 0 .. 2 * Num - 1 /\ Num >= 2 /\ i \in Nat
  BY Sizes
<1>2. Next1(i) = IF i + 1 < Num THEN i + 1 ELSE i + 1 - Num
  <2> DEFINE x == i + 1
  <2>1. x \in 0 .. 2 * Num - 1
    BY <1>1
  <2> HIDE DEF x
  <2>2. x % Num = IF x < Num THEN x ELSE x - Num
    BY <1>1, <2>1, Modulo
  <2>3. Next1(i) = x % Num
    BY DEF x, Next1
  <2>4. Next1(i) = IF x < Num THEN x ELSE x - Num
    BY <2>2, <2>3
  <2> QED
    BY <1>1, <2>4 DEF x
<1> QED
  BY <1>1, <1>2

(* A register holds a buffer and an offset in whole units.                  *)
LEMMA RegHas ==
  ASSUME NEW i \in 0 .. Num - 1, NEW o \in 0 .. Size - 1
  PROVE  At(i, Floor(o)) \in RegPos /\ (o % Gran = 0 => At(i, o) \in RegPos)
<1>1. o \in Nat /\ Gran \in Nat \ {0}
  BY Sizes
<1>2. o % Gran = 0 => Floor(o) = o
  BY <1>1, FloorOf
<1>3. At(i, Floor(o)) \in RegPos
  BY DEF At, RegPos
<1> QED
  BY <1>2, <1>3

LEMMA RegParts ==
  ASSUME NEW s \in RegPos
  PROVE  /\ s = At(s.idx, s.off) /\ s.idx \in 0 .. Num - 1 /\ s.off \in 0 .. Size - 1
         /\ s.off % Gran = 0 /\ s.off + Gran <= Size
<1>1. PICK o \in 0 .. Size - 1 : s.off = Floor(o)
  BY DEF RegPos
<1>2. s.idx \in 0 .. Num - 1 /\ s = At(s.idx, s.off)
  BY DEF RegPos, At
<1>3. o \in Nat /\ Gran \in Nat \ {0} /\ Size \in Nat /\ Size % Gran = 0
  BY Sizes
<1>4. s.off \in Nat /\ s.off <= o /\ s.off % Gran = 0
  BY <1>1, <1>3, FloorOf
<1>5. s.off < Size
  BY <1>3, <1>4
<1>6. s.off + Gran <= Size
  BY <1>3, <1>4, <1>5, Multiples
<1> QED
  BY <1>2, <1>3, <1>4, <1>5, <1>6

(* Where a position lies in the ring, and where the process writes.         *)
Place(s) == s.idx * Size + s.off
Fill == cbuf * Size + coff

(* How far the process is ahead of position s.                              *)
Behind(s) == IF Fill >= Place(s) THEN Fill - Place(s) ELSE Fill - Place(s) + RingSize

LEMMA PlaceRange ==
  ASSUME NEW i \in 0 .. Num - 1, NEW o \in 0 .. Size - 1
  PROVE  i * Size + o \in 0 .. RingSize - 1
<1>1. Num \in Nat /\ Size \in Nat /\ i \in Nat /\ i < Num /\ o \in Nat /\ o < Size
  BY Sizes
<1>2. i * Size \in Nat /\ i * Size + Size <= Num * Size
  BY <1>1, Order, Successor
<1> DEFINE m == i * Size
           r == Num * Size
<1>3. m \in Nat /\ m + Size <= r /\ RingSize \in Nat /\ RingSize = r
  BY <1>2, Sizes DEF RingSize
<1> HIDE DEF m, r
<1>4. m + o \in 0 .. RingSize - 1
  BY <1>1, <1>3
<1> QED
  BY <1>4 DEF m

(* The distance by the buffers the two positions lie in.                    *)
LEMMA Where ==
  ASSUME cbuf \in 0 .. Num - 1, coff \in 0 .. Size - 1, NEW s \in RegPos
  PROVE  /\ Behind(s) \in 0 .. RingSize - 1
         /\ s.idx = cbuf /\ s.off <= coff => Behind(s) = coff - s.off
         /\ s.idx = cbuf /\ s.off > coff => Behind(s) = RingSize - (s.off - coff)
         /\ s.idx = Next1(cbuf) => Behind(s) = RingSize - (Size - coff) - s.off
         /\ s.idx # cbuf /\ s.idx # Next1(cbuf)
              => /\ Behind(s) >= coff + (Size - s.off)
                 /\ Behind(s) <= RingSize - (Size - coff) - Size
<1> DEFINE i == s.idx
           c == cbuf * Size
           m == s.idx * Size
           r == RingSize
<1>1. /\ i \in Nat /\ cbuf \in Nat /\ i < Num /\ cbuf < Num /\ coff \in Nat /\ coff < Size
      /\ s.off \in Nat /\ s.off < Size /\ Size \in Nat /\ Num \in Nat /\ r \in Nat
      /\ r >= 2 * Size
  BY Sizes, RegParts
<1>2. /\ c \in Nat /\ m \in Nat /\ c + coff \in 0 .. r - 1 /\ m + s.off \in 0 .. r - 1
      /\ c + Size <= r /\ m + Size <= r
  <2>1. c \in Nat /\ m \in Nat /\ c + Size <= Num * Size /\ m + Size <= Num * Size
    BY <1>1, Order, Successor
  <2> QED
    BY <2>1, PlaceRange, RegParts DEF RingSize
<1>3. /\ i = cbuf => m = c
      /\ i < cbuf => m + Size <= c
      /\ i > cbuf => c + Size <= m
  BY <1>1, Order
<1>4. i = Next1(cbuf) => (i = cbuf + 1 /\ m = c + Size) \/ (i = 0 /\ m = 0 /\ c + Size = r)
  <2>1. CASE cbuf + 1 < Num
    <3>1. Next1(cbuf) = cbuf + 1 /\ (cbuf + 1) * Size = c + Size
      BY <1>1, <2>1, NextBuffer, Successor
    <3> QED
      BY <3>1
  <2>2. CASE cbuf + 1 >= Num
    <3>1. Next1(cbuf) = 0 /\ cbuf + 1 = Num /\ 0 * Size = 0
      BY <1>1, <2>2, NextBuffer
    <3>2. (cbuf + 1) * Size = c + Size
      BY <1>1, Successor
    <3> QED
      BY <3>1, <3>2 DEF RingSize
  <2> QED
    BY <1>1, <2>1, <2>2
<1>5. i # cbuf /\ i # Next1(cbuf) =>
        \/ i < cbuf /\ m + Size <= c /\ ~(cbuf + 1 >= Num /\ i = 0)
        \/ i > cbuf + 1 /\ c + Size + Size <= m
  <2>1. i > cbuf + 1 => c + Size + Size <= m
    <3>1. (cbuf + 1) * Size = c + Size
      BY <1>1, Successor
    <3>2. i > cbuf + 1 => (cbuf + 1) * Size + Size <= m
      BY <1>1, Order
    <3> QED
      BY <3>1, <3>2
  <2>2. i > cbuf /\ i # Next1(cbuf) => i # cbuf + 1
    BY <1>1, NextBuffer
  <2>3. i = 0 /\ cbuf + 1 >= Num => i = Next1(cbuf)
    BY <1>1, NextBuffer
  <2>4. i = cbuf \/ (i < cbuf /\ m + Size <= c) \/ i = cbuf + 1 \/ i > cbuf + 1
    BY <1>1, <1>3
  <2> QED
    BY <1>1, <2>1, <2>2, <2>3, <2>4
<1>6. i < cbuf /\ m + Size <= c /\ ~(cbuf + 1 >= Num /\ i = 0) => c + Size <= r - Size \/ m >= Size
  <2>1. cbuf + 1 < Num => c + Size + Size <= r
    <3>1. (cbuf + 1) * Size = c + Size
      BY <1>1, Successor
    <3>2. cbuf + 1 < Num => (cbuf + 1) * Size + Size <= Num * Size
      BY <1>1, Order
    <3> QED
      BY <3>1, <3>2 DEF RingSize
  <2>2. i > 0 => m >= Size
    <3>1. i > 0 => 0 * Size + Size <= m
      BY <1>1, Order
    <3>2. 0 * Size + Size = Size /\ m \in Nat
      BY <1>1, <1>2
    <3> HIDE DEF m
    <3> QED
      BY <1>1, <3>1, <3>2
  <2> QED
    BY <1>1, <1>2, <2>1, <2>2
<1>7. Behind(s) = IF c + coff >= m + s.off THEN (c + coff) - (m + s.off)
                                           ELSE (c + coff) - (m + s.off) + r
  BY DEF Behind, Fill, Place
<1> HIDE DEF c, m, r
<1>8. Behind(s) \in 0 .. r - 1
  BY <1>1, <1>2, <1>7
<1>9. s.idx = cbuf /\ s.off <= coff => Behind(s) = coff - s.off
  BY <1>1, <1>2, <1>3, <1>7
<1>10. s.idx = cbuf /\ s.off > coff => Behind(s) = r - (s.off - coff)
  BY <1>1, <1>2, <1>3, <1>7
<1>11. s.idx = Next1(cbuf) => Behind(s) = r - (Size - coff) - s.off
  BY <1>1, <1>2, <1>4, <1>7
<1>12. s.idx # cbuf /\ s.idx # Next1(cbuf)
              => Behind(s) >= coff + (Size - s.off) /\ Behind(s) <= r - (Size - coff) - Size
  BY <1>1, <1>2, <1>5, <1>6, <1>7
<1> QED
  BY <1>8, <1>9, <1>10, <1>11, <1>12 DEF r


(* n bytes on from a position, with the wrap at the end of the last buffer. *)
OnBuffer(i, o, n) == IF o + n = Size THEN Next1(i) ELSE i
OnOffset(o, n)    == IF o + n = Size THEN 0 ELSE o + n

LEMMA StepOn ==
  ASSUME NEW i \in 0 .. Num - 1, NEW o \in 0 .. Size - 1, NEW n \in Nat, o + n <= Size
  PROVE  /\ OnBuffer(i, o, n) \in 0 .. Num - 1 /\ OnOffset(o, n) \in 0 .. Size - 1
         /\ OnBuffer(i, o, n) * Size + OnOffset(o, n)
              = IF i * Size + o + n < RingSize THEN i * Size + o + n
                ELSE i * Size + o + n - RingSize
<1> DEFINE m == i * Size
           j == OnBuffer(i, o, n)
           u == OnOffset(o, n)
<1>0. o + n = Size => j = Next1(i) /\ u = 0
  BY DEF OnBuffer, OnOffset
<1>a. o + n # Size => j = i /\ u = o + n
  BY DEF OnBuffer, OnOffset
<1>b. SUFFICES /\ j \in 0 .. Num - 1 /\ u \in 0 .. Size - 1
               /\ j * Size + u = IF m + o + n < RingSize THEN m + o + n
                                 ELSE m + o + n - RingSize
  OBVIOUS
<1> HIDE DEF j, u
<1>1. /\ i \in Nat /\ i < Num /\ o \in Nat /\ o < Size /\ Size \in Nat /\ Num \in Nat
      /\ RingSize \in Nat /\ Size > 0
  BY Sizes
<1>2. m \in Nat /\ m + Size <= RingSize
  BY <1>1, Order, Successor DEF RingSize
<1>3. CASE o + n # Size
  <2>1. j = i /\ u = o + n /\ u < Size /\ u \in Nat
    BY <1>a, <1>1, <1>3
  <2>2. j * Size = m
    BY <2>1
  <2>3. j * Size + u = m + o + n /\ m + o + n < RingSize
    <3> HIDE DEF m
    <3> QED
      BY <1>1, <1>2, <2>1, <2>2
  <2> QED
    BY <1>1, <2>1, <2>3
<1>4. CASE o + n = Size
  <2>0. j = Next1(i) /\ u = 0 /\ (i + 1) * Size = m + Size
    BY <1>0, <1>1, <1>4, Successor
  <2>1. CASE i + 1 < Num
    <3>1. j = i + 1
      BY <2>0, <2>1, NextBuffer
    <3>2. (i + 1) * Size + Size <= Num * Size
      BY <1>1, <2>1, Order
    <3>3. j * Size = m + Size /\ m + Size + Size <= RingSize
      BY <2>0, <3>1, <3>2 DEF RingSize
    <3>4. j * Size + u = m + o + n /\ m + o + n < RingSize
      <4> HIDE DEF m
      <4> QED
        BY <1>1, <1>2, <1>4, <2>0, <3>3
    <3> QED
      BY <1>1, <2>0, <2>1, <3>1, <3>4
  <2>2. CASE i + 1 >= Num
    <3>1. j = 0 /\ i + 1 = Num
      BY <1>1, <2>0, <2>2, NextBuffer
    <3>2. m + Size = RingSize /\ j * Size = 0
      BY <1>1, <2>0, <3>1 DEF RingSize
    <3>3. j * Size + u = m + o + n - RingSize /\ ~(m + o + n < RingSize)
      <4> HIDE DEF m
      <4> QED
        BY <1>1, <1>2, <1>4, <2>0, <3>2
    <3> QED
      BY <1>1, <2>0, <3>1, <3>3
  <2> QED
    BY <1>1, <2>1, <2>2
<1> QED
  BY <1>3, <1>4

-----------------------------------------------------------------------------
(* What may be written.                                                     *)

(* One chunk stays in the current buffer and never closes up on s.          *)
LEMMA RoomFits ==
  ASSUME cbuf \in 0 .. Num - 1, coff \in 0 .. Size - 1, NEW s \in RegPos
  PROVE  /\ Room(s) \in Nat /\ coff + Room(s) <= Size
         /\ Room(s) > 0 => Behind(s) + Room(s) < RingSize
<1> DEFINE d == s.off - coff
<1>1. /\ coff \in Nat /\ coff < Size /\ s.off \in Nat /\ s.off < Size
      /\ Size \in Nat /\ RingSize \in Nat /\ RingSize >= 2 * Size
      /\ Packet \in Nat /\ Packet > 0
  BY Sizes, RegParts
<1>2. Next1(cbuf) # cbuf
  BY NextBuffer
<1>3. CASE Next1(cbuf) = s.idx /\ s.off = 0
  <2>1. Room(s) = IF Size - coff <= Packet THEN 0 ELSE Size - coff - Packet
    BY <1>3 DEF Room
  <2>2. Behind(s) = RingSize - (Size - coff) - 0
    BY <1>3, Where
  <2> QED
    BY <1>1, <2>1, <2>2
<1>4. CASE cbuf = s.idx /\ s.off > coff
  <2>1. PICK r \in Nat : r = d % Packet
    <3>1. d \in Nat /\ Packet \in Nat \ {0}
      BY <1>1, <1>4
    <3> HIDE DEF d
    <3> QED
      BY <3>1, Remainder
  <2>2. Room(s) = IF d - r <= Packet THEN 0 ELSE d - r - Packet
    BY <1>2, <1>4, <2>1 DEF Room
  <2>3. Behind(s) = RingSize - d
    BY <1>4, Where
  <2> QED
    BY <1>1, <1>4, <2>1, <2>2, <2>3
<1>5. CASE ~(Next1(cbuf) = s.idx /\ s.off = 0) /\ ~(cbuf = s.idx /\ s.off > coff)
  <2>1. Room(s) = Size - coff
    BY <1>5 DEF Room
  <2>2. Behind(s) + (Size - coff) < RingSize
    <3>1. CASE s.idx = cbuf
      <4>1. Behind(s) = coff - s.off
        BY <1>1, <1>5, <3>1, Where
      <4> QED
        BY <1>1, <4>1
    <3>2. CASE s.idx = Next1(cbuf)
      <4>1. Behind(s) = RingSize - (Size - coff) - s.off /\ s.off # 0
        BY <1>5, <3>2, Where
      <4> QED
        BY <1>1, <4>1
    <3>3. CASE s.idx # cbuf /\ s.idx # Next1(cbuf)
      <4>1. Behind(s) <= RingSize - (Size - coff) - Size /\ Behind(s) \in Nat
        BY <1>1, <3>3, Where
      <4> QED
        BY <1>1, <4>1
    <3> QED
      BY <3>1, <3>2, <3>3
  <2> QED
    BY <1>1, <2>1, <2>2
<1> QED
  BY <1>3, <1>4, <1>5

(* Where ddb_output_free() lets the process go on there is room for a byte. *)
LEMMA FreeHasRoom ==
  ASSUME cbuf \in 0 .. Num - 1, coff \in 0 .. Size - 1, NEW s \in RegPos, OutputFree(s)
  PROVE  Room(s) > 0
<1> DEFINE d == s.off - coff
<1>1. /\ coff \in Nat /\ coff < Size /\ s.off \in Nat /\ s.off < Size
      /\ Size \in Nat /\ Packet \in Nat /\ Packet > 0 /\ Next1(cbuf) # cbuf
  BY Sizes, RegParts, NextBuffer
<1>2. CASE Next1(cbuf) = s.idx /\ s.off = 0
  <2>1. Size - coff > 2 * Packet
    BY <1>1, <1>2 DEF OutputFree
  <2>2. Room(s) = IF Size - coff <= Packet THEN 0 ELSE Size - coff - Packet
    BY <1>2 DEF Room
  <2> QED
    BY <1>1, <2>1, <2>2
<1>3. CASE cbuf = s.idx /\ s.off > coff
  <2>1. d > 2 * Packet
    BY <1>1, <1>3 DEF OutputFree
  <2>2. PICK r \in 0 .. Packet - 1 : r = d % Packet
    <3>1. d \in Nat /\ Packet \in Nat \ {0}
      BY <1>1, <1>3
    <3> HIDE DEF d
    <3> QED
      BY <3>1, Remainder
  <2>3. Room(s) = IF d - r <= Packet THEN 0 ELSE d - r - Packet
    BY <1>1, <1>3, <2>2 DEF Room
  <2> QED
    BY <1>1, <1>3, <2>1, <2>2, <2>3
<1>4. CASE ~(Next1(cbuf) = s.idx /\ s.off = 0) /\ ~(cbuf = s.idx /\ s.off > coff)
  <2>1. Room(s) = Size - coff
    BY <1>4 DEF Room
  <2> QED
    BY <1>1, <2>1
<1> QED
  BY <1>2, <1>3, <1>4

(* And it still does when the engine has gone on.                           *)
LEMMA FreeStays ==
  ASSUME cbuf \in 0 .. Num - 1, coff \in 0 .. Size - 1, NEW s \in RegPos, NEW p \in RegPos,
         OutputFree(s), Behind(p) <= Behind(s)
  PROVE  OutputFree(p)
<1>1. /\ coff \in Nat /\ coff < Size /\ s.off \in Nat /\ s.off < Size
      /\ p.off \in Nat /\ p.off < Size /\ Size \in Nat /\ Packet \in Nat /\ Packet > 0
      /\ RingSize \in Nat /\ RingSize >= 2 * Size /\ Next1(cbuf) # cbuf
      /\ Behind(s) \in Nat /\ Behind(p) \in Nat
  <2>1. Behind(s) \in 0 .. RingSize - 1 /\ Behind(p) \in 0 .. RingSize - 1
    BY Where
  <2> QED
    BY <2>1, Sizes, RegParts, NextBuffer
<1>2. SUFFICES ASSUME ~OutputFree(p) PROVE FALSE
  OBVIOUS
<1>3. CASE p.idx = cbuf
  <2>1. p.off > coff /\ p.off - coff <= 2 * Packet
    BY <1>1, <1>2, <1>3 DEF OutputFree
  <2>2. Behind(p) = RingSize - (p.off - coff)
    BY <1>3, <2>1, Where
  <2>3. CASE s.idx = cbuf /\ s.off > coff
    <3>1. Behind(s) = RingSize - (s.off - coff)
      BY <2>3, Where
    <3>2. s.off - coff > 2 * Packet
      BY <1>1, <2>3 DEF OutputFree
    <3> QED
      BY <1>1, <2>1, <2>2, <3>1, <3>2
  <2>4. CASE s.idx = cbuf /\ s.off <= coff
    BY <1>1, <2>1, <2>2, <2>4, Where
  <2>5. CASE s.idx = Next1(cbuf)
    BY <1>1, <2>1, <2>2, <2>5, Where
  <2>6. CASE s.idx # cbuf /\ s.idx # Next1(cbuf)
    <3>1. Behind(s) <= RingSize - (Size - coff) - Size
      BY <2>6, Where
    <3> QED
      BY <1>1, <2>1, <2>2, <3>1
  <2> QED
    BY <1>1, <2>3, <2>4, <2>5, <2>6
<1>4. CASE p.idx # cbuf
  <2>1. p.idx = Next1(cbuf) /\ Size - coff <= 2 * Packet
    BY <1>2, <1>4 DEF OutputFree
  <2>2. Behind(p) = RingSize - (Size - coff) - p.off
    BY <2>1, Where
  <2>3. CASE s.idx = cbuf /\ s.off > coff
    <3>1. s.off - coff > 2 * Packet
      BY <1>1, <2>3 DEF OutputFree
    <3> QED
      BY <1>1, <2>1, <3>1
  <2>4. CASE s.idx = cbuf /\ s.off <= coff
    <3>1. Behind(s) = coff - s.off
      BY <2>4, Where
    <3> QED
      BY <1>1, <2>2, <3>1
  <2>5. CASE s.idx = Next1(cbuf)
    BY <1>1, <2>1, <2>5 DEF OutputFree
  <2>6. CASE s.idx # cbuf /\ s.idx # Next1(cbuf)
    <3>1. Behind(s) <= RingSize - (Size - coff) - Size
      BY <2>6, Where
    <3> QED
      BY <1>1, <2>2, <3>1
  <2> QED
    BY <1>1, <2>3, <2>4, <2>5, <2>6
<1> QED
  BY <1>3, <1>4

-----------------------------------------------------------------------------
(* The inductive invariant.                                                 *)

(* The engine was told where the process writes, as far as the register     *)
(* can tell.                                                                *)
Acked == ack = At(cbuf, Floor(coff))

(* What is queued lies between the engine and the process.                  *)
Exact == queued = Behind(pos)

(* What the process knows of the engine is old, never ahead of it, and the  *)
(* position it took for its copies is older still.                          *)
Lags == queued <= Behind(stat) /\ (pc = "copy" => Behind(stat) <= Behind(snap))

(* Once it was let go on, the process may still go on.                      *)
Freed == pc = "write" => OutputFree(stat)

IInv == TypeOK /\ Acked /\ Exact /\ Lags /\ Freed

LEMMA IInvInit == Init => IInv
<1> SUFFICES ASSUME Init PROVE IInv
  OBVIOUS
<1>1. 0 \in 0 .. Num - 1 /\ 0 \in 0 .. Size - 1 /\ 0 \in Nat /\ 0 \in Int
  BY Sizes
<1>2. 0 % Gran = 0
  BY Sizes
<1>3. Origin \in RegPos /\ Floor(0) = 0 /\ Origin.idx = 0 /\ Origin.off = 0
  BY <1>1, <1>2, RegHas, FloorOf, Sizes DEF Origin, At
<1>4. TypeOK
  <2>1. hwRun \in BOOLEAN /\ irq \in BOOLEAN /\ running \in BOOLEAN /\ nonblock \in BOOLEAN
        /\ woken \in BOOLEAN /\ pc = "closed"
    BY DEF Init
  <2>2. /\ pos \in RegPos /\ ack \in RegPos /\ stat \in RegPos /\ snap \in RegPos
        /\ cbuf \in 0 .. Num - 1 /\ coff \in 0 .. Size - 1 /\ left \in Nat /\ queued \in Int
    BY <1>1, <1>3 DEF Init
  <2> QED
    BY <2>1, <2>2 DEF TypeOK
<1>5. Acked /\ Freed
  BY <1>3 DEF Init, Acked, Freed, Origin
<1>6. Behind(Origin) = 0 /\ pos = Origin /\ stat = Origin
  <2>1. Place(Origin) = Fill /\ Fill \in Int
    BY <1>1, <1>3, Sizes DEF Init, Place, Fill
  <2> QED
    BY <2>1 DEF Init, Behind
<1>7. Exact /\ Lags
  BY <1>6 DEF Init, Exact, Lags
<1> QED
  BY <1>4, <1>5, <1>7 DEF IInv

(* The distances depend on the pointers of the process alone.               *)
LEMMA BehindStays ==
  ASSUME UNCHANGED <<cbuf, coff>>
  PROVE  /\ Fill' = Fill /\ \A s : Behind(s)' = Behind(s) /\ OutputFree(s)' = OutputFree(s)
         /\ Behind(pos)' = Behind(pos') /\ Behind(stat)' = Behind(stat')
         /\ Behind(snap)' = Behind(snap') /\ OutputFree(stat)' = OutputFree(stat')
  BY DEF Behind, Fill, Place, OutputFree

(* The engine sends only what is queued, a whole unit of it.                *)
LEMMA SendTakes ==
  ASSUME IInv, HwSend
  PROVE  /\ pos' \in RegPos /\ queued >= Gran /\ Behind(pos') = Behind(pos) - Gran
<1>1. /\ pos \in RegPos /\ ack = At(cbuf, Floor(coff)) /\ pos # ack /\ queued = Behind(pos)
      /\ cbuf \in 0 .. Num - 1 /\ coff \in 0 .. Size - 1
  BY DEF IInv, TypeOK, Acked, Exact, HwSend
<1>2. /\ pos = At(pos.idx, pos.off) /\ pos.idx \in 0 .. Num - 1 /\ pos.off \in 0 .. Size - 1
      /\ pos.off % Gran = 0 /\ pos.off + Gran <= Size
  BY <1>1, RegParts
<1>3. /\ Floor(coff) \in Nat /\ Floor(coff) <= coff /\ coff < Floor(coff) + Gran
      /\ Floor(coff) % Gran = 0
  <2>1. coff \in Nat /\ Gran \in Nat \ {0}
    BY <1>1, Sizes
  <2> QED
    BY <2>1, FloorOf
<1>4. /\ Gran \in Nat /\ Gran > 0 /\ pos.off \in Nat /\ coff \in Nat /\ Size \in Nat
      /\ RingSize \in Nat /\ RingSize >= 2 * Size /\ coff < Size
  BY <1>1, <1>2, Sizes
<1>5. Behind(pos) >= Gran
  <2>1. CASE pos.idx = cbuf /\ pos.off <= coff
    <3>1. pos.off # Floor(coff)
      BY <1>1, <1>2, <2>1
    <3>2. pos.off < Floor(coff) => pos.off + Gran <= Floor(coff)
      BY <1>2, <1>3, <1>4, Multiples
    <3>3. Floor(coff) < pos.off => Floor(coff) + Gran <= pos.off
      BY <1>2, <1>3, <1>4, Multiples
    <3>4. Behind(pos) = coff - pos.off
      BY <1>1, <2>1, Where
    <3> DEFINE f == Floor(coff)
    <3>5. f \in Nat /\ f <= coff /\ coff < f + Gran /\ pos.off # f
          /\ (pos.off < f => pos.off + Gran <= f) /\ (f < pos.off => f + Gran <= pos.off)
      BY <1>3, <3>1, <3>2, <3>3
    <3> HIDE DEF f
    <3> QED
      BY <1>4, <2>1, <3>4, <3>5
  <2>2. CASE pos.idx = cbuf /\ pos.off > coff
    <3>1. Behind(pos) = RingSize - (pos.off - coff)
      BY <1>1, <2>2, Where
    <3> QED
      BY <1>2, <1>4, <3>1
  <2>3. CASE pos.idx = Next1(cbuf)
    <3>1. Behind(pos) = RingSize - (Size - coff) - pos.off
      BY <1>1, <2>3, Where
    <3> QED
      BY <1>2, <1>4, <3>1
  <2>4. CASE pos.idx # cbuf /\ pos.idx # Next1(cbuf)
    <3>1. Behind(pos) >= coff + (Size - pos.off) /\ Behind(pos) \in Int
      BY <1>1, <2>4, Where
    <3> QED
      BY <1>2, <1>4, <3>1
  <2> QED
    BY <1>4, <2>1, <2>2, <2>3, <2>4
<1>6. pos' = IF pos.off + Gran = Size THEN At(Next1(pos.idx), 0) ELSE At(pos.idx, pos.off + Gran)
  BY DEF HwSend
<1> DEFINE j == OnBuffer(pos.idx, pos.off, Gran)
           u == OnOffset(pos.off, Gran)
<1>7. /\ j \in 0 .. Num - 1 /\ u \in 0 .. Size - 1
      /\ j * Size + u = IF pos.idx * Size + pos.off + Gran < RingSize
                        THEN pos.idx * Size + pos.off + Gran
                        ELSE pos.idx * Size + pos.off + Gran - RingSize
  BY <1>2, <1>4, StepOn
<1>8. u % Gran = 0
  <2>1. (pos.off + Gran) % Gran = 0 /\ 0 % Gran = 0
    BY <1>2, <1>4, Multiples, Sizes
  <2> QED
    BY <2>1 DEF OnOffset
<1>9. pos' = At(j, u)
  BY <1>6 DEF OnBuffer, OnOffset
<1> HIDE DEF j, u
<1>10. pos' \in RegPos
  BY <1>7, <1>8, <1>9, RegHas
<1>11. Behind(pos') = Behind(pos) - Gran
  <2> DEFINE p == Place(pos)
             q == Place(pos')
  <2>1. q = IF p + Gran < RingSize THEN p + Gran ELSE p + Gran - RingSize
    BY <1>7, <1>9 DEF At, Place
  <2>2. p \in 0 .. RingSize - 1 /\ Fill \in 0 .. RingSize - 1
    BY <1>1, <1>2, PlaceRange DEF Place, Fill
  <2>3. /\ Behind(pos) = IF Fill >= p THEN Fill - p ELSE Fill - p + RingSize
        /\ Behind(pos') = IF Fill >= q THEN Fill - q ELSE Fill - q + RingSize
    BY DEF Behind
  <2> HIDE DEF p, q
  <2> QED
    BY <1>4, <1>5, <2>1, <2>2, <2>3
<1> QED
  BY <1>1, <1>5, <1>10, <1>11


(* What the process copies is added to every distance.                      *)
LEMMA CopyAdds ==
  ASSUME IInv, Copy
  PROVE  \E n \in Nat :
           /\ left' = left - n /\ n <= left /\ queued' = queued + n
           /\ cbuf' \in 0 .. Num - 1 /\ coff' \in 0 .. Size - 1
           /\ \A s \in RegPos : Behind(s) <= Behind(snap) => Behind(s)' = Behind(s) + n
<1> DEFINE n == IF Room(snap) < left THEN Room(snap) ELSE left
<1>1. /\ cbuf \in 0 .. Num - 1 /\ coff \in 0 .. Size - 1 /\ snap \in RegPos /\ left \in Nat
      /\ Room(snap) > 0
  BY DEF IInv, TypeOK, Copy
<1>2. /\ Room(snap) \in Nat /\ coff + Room(snap) <= Size
      /\ Behind(snap) + Room(snap) < RingSize
  BY <1>1, RoomFits
<1>3. /\ n \in Nat /\ n <= Room(snap) /\ n <= left
      /\ left' = left - n /\ queued' = queued + n
      /\ cbuf' = OnBuffer(cbuf, coff, n) /\ coff' = OnOffset(coff, n)
  <2>1. Advance(n) /\ left' = left - n /\ queued' = queued + n
    BY DEF Copy
  <2>2. cbuf' = OnBuffer(cbuf, coff, n) /\ coff' = OnOffset(coff, n)
    BY <2>1 DEF Advance, OnBuffer, OnOffset
  <2> QED
    BY <1>1, <1>2, <2>1, <2>2
<1> HIDE DEF n
<1>4. /\ coff \in Nat /\ coff + n <= Size /\ Size \in Nat /\ RingSize \in Nat
      /\ Behind(snap) + n < RingSize /\ Behind(snap) \in Nat
  <2>1. coff \in Nat /\ Size \in Nat /\ RingSize \in Nat
    BY <1>1, Sizes
  <2>2. Behind(snap) \in 0 .. RingSize - 1
    BY <1>1, Where
  <2> QED
    BY <1>2, <1>3, <2>1, <2>2
<1>5. /\ cbuf' \in 0 .. Num - 1 /\ coff' \in 0 .. Size - 1
      /\ cbuf' * Size + coff' = IF cbuf * Size + coff + n < RingSize THEN cbuf * Size + coff + n
                                ELSE cbuf * Size + coff + n - RingSize
  BY <1>1, <1>3, <1>4, StepOn
<1>6. ASSUME NEW s \in RegPos, Behind(s) <= Behind(snap) PROVE Behind(s)' = Behind(s) + n
  <2> DEFINE p == Place(s)
             f == Fill
             g == cbuf' * Size + coff'
  <2>1. g = IF f + n < RingSize THEN f + n ELSE f + n - RingSize
    BY <1>5 DEF Fill
  <2>2. p \in 0 .. RingSize - 1 /\ f \in 0 .. RingSize - 1 /\ Behind(s) \in 0 .. RingSize - 1
    BY <1>1, PlaceRange, RegParts, Where DEF Place, Fill
  <2>3. /\ Behind(s) = IF f >= p THEN f - p ELSE f - p + RingSize
        /\ Behind(s)' = IF g >= p THEN g - p ELSE g - p + RingSize
    BY DEF Behind, Fill, Place
  <2> HIDE DEF p, f, g
  <2> QED
    BY <1>3, <1>4, <1>6, <2>1, <2>2, <2>3
<1> QED
  BY <1>3, <1>5, <1>6

(* Every step keeps the invariant.                                          *)
LEMMA IInvNext == IInv /\ [Next]_vars => IInv'
<1> SUFFICES ASSUME IInv, [Next]_vars PROVE IInv'
  OBVIOUS
<1>0. /\ TypeOK /\ Acked /\ Exact /\ Lags /\ Freed
      /\ cbuf \in 0 .. Num - 1 /\ coff \in 0 .. Size - 1
      /\ pos \in RegPos /\ stat \in RegPos /\ snap \in RegPos
      /\ queued \in Int /\ left \in Nat /\ Gran \in Nat
  BY Sizes DEF IInv, TypeOK
<1>a. \A s \in RegPos : Behind(s) \in Int
  <2>1. \A s \in RegPos : Behind(s) \in 0 .. RingSize - 1
    BY <1>0, Where
  <2> QED
    BY <2>1
<1>1. CASE HwSend
  <2>1. pos' \in RegPos /\ Behind(pos') = Behind(pos) - Gran
    BY <1>1, SendTakes
  <2>2. /\ queued' = queued - Gran /\ irq' \in BOOLEAN
        /\ UNCHANGED <<hwRun, ack, dmaVars, writerVars>>
    BY <1>0, <1>1 DEF HwSend, TypeOK
  <2>3. TypeOK'
    BY <1>0, <2>1, <2>2 DEF TypeOK, dmaVars, writerVars
  <2>4. Behind(pos)' = Behind(pos') /\ Behind(stat)' = Behind(stat)
        /\ Behind(snap)' = Behind(snap) /\ OutputFree(stat)' = OutputFree(stat)
    BY <2>2, BehindStays DEF dmaVars, writerVars
  <2>5. Exact'
    BY <1>0, <2>1, <2>2, <2>4 DEF Exact
  <2>6. Lags' /\ Freed'
    BY <1>0, <1>a, <2>2, <2>4 DEF Lags, Freed, writerVars
  <2>7. Acked'
    BY <1>0, <2>2 DEF Acked, dmaVars
  <2> QED
    BY <2>3, <2>5, <2>6, <2>7 DEF IInv
<1>2. CASE OutputHandler
  <2>1. /\ stat' \in {stat, pos} /\ irq' \in BOOLEAN /\ woken' \in BOOLEAN
        /\ UNCHANGED <<hwRun, pos, ack, cbuf, coff, running, pc, left, snap, nonblock, queued>>
    BY <1>0, <1>2 DEF OutputHandler, TypeOK
  <2>2. TypeOK'
    BY <1>0, <2>1 DEF TypeOK
  <2>3. Behind(pos)' = Behind(pos) /\ Behind(stat)' = Behind(stat')
        /\ Behind(snap)' = Behind(snap) /\ OutputFree(stat)' = OutputFree(stat')
    BY <2>1, BehindStays
  <2>4. Behind(pos) <= Behind(stat)
    BY <1>0 DEF Exact, Lags
  <2>5. Acked' /\ Exact'
    BY <1>0, <2>1, <2>3 DEF Acked, Exact
  <2>6. Lags'
    BY <1>0, <1>a, <2>1, <2>3, <2>4 DEF Lags, Exact
  <2>7. Freed'
    BY <1>0, <2>1, <2>3, <2>4, FreeStays DEF Freed
  <2> QED
    BY <2>2, <2>5, <2>6, <2>7 DEF IInv
<1>3. CASE TsOpen
  <2>1. /\ cbuf' = 0 /\ coff' = 0 /\ stat' = Origin /\ pos' = Origin /\ ack' = Origin
        /\ queued' = 0 /\ pc' = "idle" /\ running' = TRUE /\ hwRun' = TRUE
        /\ UNCHANGED <<irq, left, snap, nonblock, woken>>
    BY <1>3 DEF TsOpen, ResetDma
  <2>2. 0 \in 0 .. Num - 1 /\ 0 \in 0 .. Size - 1 /\ 0 \in Int /\ 0 % Gran = 0
    BY Sizes
  <2>3. Origin \in RegPos /\ Origin.idx = 0 /\ Origin.off = 0 /\ Floor(0) = 0
    BY <2>2, RegHas, FloorOf, Sizes DEF Origin, At
  <2>4. TypeOK'
    BY <1>0, <2>1, <2>2, <2>3 DEF TypeOK
  <2>5. Behind(pos)' = 0 /\ Behind(stat)' = 0
    <3>1. Fill' = 0 * Size + 0 /\ Place(Origin) = 0 * Size + 0
      BY <2>1, <2>3 DEF Fill, Place
    <3>2. Fill' = 0 /\ Place(Origin) = 0
      BY <3>1, Sizes
    <3>3. Place(pos)' = Place(Origin) /\ Place(stat)' = Place(Origin)
      BY <2>1 DEF Place
    <3> QED
      BY <3>2, <3>3 DEF Behind
  <2>6. Acked'
    BY <2>1, <2>3 DEF Acked, Origin
  <2>7. Exact' /\ Lags' /\ Freed'
    BY <2>1, <2>5 DEF Exact, Lags, Freed
  <2> QED
    BY <2>4, <2>6, <2>7 DEF IInv
<1>4. CASE Copy
  <2>1. PICK n \in Nat :
          /\ left' = left - n /\ n <= left /\ queued' = queued + n
          /\ cbuf' \in 0 .. Num - 1 /\ coff' \in 0 .. Size - 1
          /\ \A s \in RegPos : Behind(s) <= Behind(snap) => Behind(s)' = Behind(s) + n
    BY <1>4, CopyAdds
  <2>2. /\ ack' = At(cbuf', Floor(coff')) /\ pc = "copy"
        /\ UNCHANGED <<hwRun, pos, irq, stat, running, pc, snap, nonblock, woken>>
    BY <1>4 DEF Copy
  <2>3. ack' \in RegPos /\ left' \in Nat /\ queued' \in Int
    BY <1>0, <2>1, <2>2, RegHas
  <2>4. TypeOK'
    BY <1>0, <2>1, <2>2, <2>3 DEF TypeOK
  <2>5. /\ Behind(pos) <= Behind(stat) /\ Behind(stat) <= Behind(snap)
        /\ Behind(pos) <= Behind(snap) /\ Behind(snap) <= Behind(snap)
    BY <1>0, <1>a, <2>2 DEF Exact, Lags
  <2>6. /\ Behind(pos)' = Behind(pos) + n /\ Behind(stat)' = Behind(stat) + n
        /\ Behind(snap)' = Behind(snap) + n
    <3>1. \A s : Behind(s)' = IF Fill' >= Place(s)' THEN Fill' - Place(s)' ELSE Fill' - Place(s)' + RingSize
      BY DEF Behind
    <3>2. PICK p \in RegPos, t \in RegPos, u \in RegPos : p = pos /\ t = stat /\ u = snap
      BY <1>0
    <3>3. Behind(p)' = Behind(p) + n /\ Behind(t)' = Behind(t) + n /\ Behind(u)' = Behind(u) + n
      BY <2>1, <2>5, <3>2
    <3>4. p = pos' /\ t = stat' /\ u = snap'
      BY <2>2, <3>2
    <3> QED
      BY <3>2, <3>3, <3>4 DEF Behind, Place
  <2>7. Acked'
    BY <2>2 DEF Acked
  <2>8. Exact' /\ Freed'
    BY <1>0, <2>1, <2>2, <2>6 DEF Exact, Freed
  <2>9. Lags'
    BY <1>0, <1>a, <2>1, <2>2, <2>5, <2>6 DEF Lags
  <2> QED
    BY <2>4, <2>7, <2>8, <2>9 DEF IInv
<1>5. CASE WriteBegin
  <2>1. /\ pc' = "copy" /\ snap' = stat
        /\ UNCHANGED <<hwVars, dmaVars, left, nonblock, woken, queued>>
    BY <1>5 DEF WriteBegin
  <2>2. Behind(pos)' = Behind(pos) /\ Behind(stat)' = Behind(stat) /\ Behind(snap)' = Behind(stat)
    BY <2>1, BehindStays DEF hwVars, dmaVars
  <2>3. TypeOK'
    BY <1>0, <2>1 DEF TypeOK, hwVars, dmaVars
  <2>4. Acked' /\ Exact' /\ Freed'
    BY <1>0, <2>1, <2>2 DEF Acked, Exact, Freed, hwVars, dmaVars
  <2>5. Lags'
    BY <1>0, <1>a, <2>1, <2>2 DEF Lags
  <2> QED
    BY <2>3, <2>4, <2>5 DEF IInv
<1>6. CASE TsRelease \/ WriteCall \/ CheckFree \/ Enqueue \/ WaitCheck \/ WakeUp \/ WriteEnd
           \/ Signal \/ CopyFault
  <2>1. /\ UNCHANGED <<pos, ack, irq, cbuf, coff, stat, snap, queued>>
        /\ pc' # "copy" /\ (pc' = "write" => OutputFree(stat))
        /\ pc' \in {"closed", "idle", "check", "enqueue", "wcheck", "sleep", "write"}
        /\ running' \in BOOLEAN /\ hwRun' \in BOOLEAN /\ nonblock' \in BOOLEAN
        /\ woken' \in BOOLEAN /\ left' \in Nat
    <3>1. Counts \subseteq Nat
      BY WriteAssumption
    <3>2. CASE TsRelease
      BY <1>0, <3>2 DEF TsRelease, TypeOK
    <3>3. CASE WriteCall
      BY <1>0, <3>1, <3>3 DEF WriteCall, TypeOK, hwVars, dmaVars
    <3>4. CASE CheckFree \/ WaitCheck
      BY <1>0, <3>4 DEF CheckFree, WaitCheck, TypeOK, hwVars, dmaVars
    <3>5. CASE Enqueue \/ WakeUp \/ WriteEnd
      BY <1>0, <3>5 DEF Enqueue, WakeUp, WriteEnd, TypeOK, hwVars, dmaVars
    <3>6. CASE Signal \/ CopyFault
      BY <1>0, <3>6 DEF Signal, CopyFault, TypeOK, hwVars, dmaVars
    <3> QED
      BY <1>6, <3>2, <3>3, <3>4, <3>5, <3>6
  <2>2. Behind(pos)' = Behind(pos) /\ Behind(stat)' = Behind(stat)
        /\ OutputFree(stat)' = OutputFree(stat)
    BY <2>1, BehindStays
  <2>3. TypeOK'
    BY <1>0, <2>1 DEF TypeOK
  <2> QED
    BY <1>0, <2>1, <2>2, <2>3 DEF IInv, Acked, Exact, Lags, Freed
<1>7. CASE UNCHANGED vars
  <2>1. Behind(pos)' = Behind(pos) /\ Behind(stat)' = Behind(stat)
        /\ Behind(snap)' = Behind(snap) /\ OutputFree(stat)' = OutputFree(stat)
    BY <1>7, BehindStays DEF vars, hwVars, dmaVars, writerVars
  <2>2. TypeOK'
    BY <1>0, <1>7 DEF TypeOK, vars, hwVars, dmaVars, writerVars
  <2> QED
    BY <1>0, <1>7, <2>1, <2>2
       DEF IInv, Acked, Exact, Lags, Freed, vars, hwVars, dmaVars, writerVars
<1> QED
  BY <1>1, <1>2, <1>3, <1>4, <1>5, <1>6, <1>7 DEF Next, Writer

(* Every reachable state has the invariant.                                 *)
THEOREM RingInvariant == Spec => []IInv
  BY IInvInit, IInvNext, PTL DEF Spec

(* The pointers of the driver and of the engine stay in their ranges.       *)
THEOREM RingWellTyped == Spec => []TypeOK
<1>1. IInv => TypeOK
  BY DEF IInv
<1> QED
  BY <1>1, RingInvariant, PTL

-----------------------------------------------------------------------------
(* The driver's pointers and the engine's agree on what is queued, and      *)
(* ddb_output_write never fills the ring to the last byte: nothing is       *)
(* overwritten before it is sent, nothing is sent twice, and the engine     *)
(* never takes a full ring for an empty one.                                *)
THEOREM NothingOverwritten == Spec => []RingConsistent
<1>1. IInv => RingConsistent
  <2> SUFFICES ASSUME IInv PROVE RingConsistent
    OBVIOUS
  <2>1. /\ cbuf \in 0 .. Num - 1 /\ coff \in 0 .. Size - 1 /\ pos \in RegPos
        /\ queued = Behind(pos) /\ ack = At(cbuf, Floor(coff))
    BY DEF IInv, TypeOK, Exact, Acked
  <2>2. queued \in 0 .. RingSize - 1
    BY <2>1, Where
  <2>3. pos = ack => queued \in 0 .. Gran - 1
    <3> SUFFICES ASSUME pos = ack PROVE queued \in 0 .. Gran - 1
      OBVIOUS
    <3>1. coff \in Nat /\ Gran \in Nat \ {0}
      BY <2>1, Sizes
    <3>2. Floor(coff) \in Nat /\ Floor(coff) <= coff /\ coff - Floor(coff) \in 0 .. Gran - 1
      BY <3>1, FloorOf
    <3>3. pos.idx = cbuf /\ pos.off = Floor(coff)
      BY <2>1 DEF At
    <3> QED
      BY <2>1, <3>2, <3>3, Where
  <2>4. (pos.idx * Size + pos.off + queued) % RingSize = cbuf * Size + coff
    <3> DEFINE p == pos.idx * Size + pos.off
               f == cbuf * Size + coff
    <3>1. /\ p \in 0 .. RingSize - 1 /\ f \in 0 .. RingSize - 1
          /\ queued = IF f >= p THEN f - p ELSE f - p + RingSize
          /\ RingSize \in Nat \ {0}
      <4>1. p \in 0 .. RingSize - 1 /\ f \in 0 .. RingSize - 1
        BY <2>1, PlaceRange, RegParts
      <4>2. queued = IF f >= p THEN f - p ELSE f - p + RingSize
        BY <2>1 DEF Behind, Place, Fill
      <4>3. RingSize \in Nat \ {0}
        BY Sizes
      <4> QED
        BY <4>1, <4>2, <4>3
    <3> HIDE DEF p, f
    <3> DEFINE x == p + queued
    <3>2. x \in 0 .. 2 * RingSize - 1 /\ f = IF x < RingSize THEN x ELSE x - RingSize
      BY <2>2, <3>1
    <3> HIDE DEF x
    <3>3. x % RingSize = f
      BY <3>1, <3>2, Modulo
    <3> QED
      BY <3>3 DEF x, p, f
  <2> QED
    BY <2>2, <2>3, <2>4 DEF RingConsistent
<1> QED
  BY <1>1, RingInvariant, PTL

(* ts_write() never spins in the kernel: where ddb_output_free() was        *)
(* satisfied, ddb_output_write() copies at least one byte, although the     *)
(* engine may have moved between the two looks at dma->stat.                *)
THEOREM WriteNeverSpins == Spec => NoBusyLoop
<1>1. IInv /\ [Next]_vars => [WriteBegin => Room(snap') > 0]_vars
  <2> SUFFICES ASSUME IInv, WriteBegin PROVE Room(snap') > 0
    OBVIOUS
  <2>1. /\ cbuf \in 0 .. Num - 1 /\ coff \in 0 .. Size - 1 /\ stat \in RegPos
        /\ OutputFree(stat) /\ snap' = stat
    BY DEF IInv, TypeOK, Freed, WriteBegin
  <2>2. Room(stat) > 0
    BY <2>1, FreeHasRoom
  <2> QED
    BY <2>1, <2>2
<1> QED
  BY <1>1, RingInvariant, PTL DEF Spec, NoBusyLoop
=============================================================================
