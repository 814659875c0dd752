------------------------- MODULE CaInterface_proofs -------------------------
(***************************************************************************)
(* The CI slot for any number of connections, messages and fragments, and  *)
(* any size of rx_buffer: what read() returns, and that the application    *)
(* leaves the module alone.                                                *)
(***************************************************************************)
EXTENDS CaInterface, SequenceTheorems, WellFoundedInduction, TLAPS

(* The application is gone when the thread stops.                           *)
Stopping ==
  /\ fd # "open" => rpc = "idle" /\ wpc = "idle" /\ users = 1
  /\ fd = "open" => users = 0
  /\ tpc = "stopped" => exit /\ users = 1
  /\ rel # "no" => exit

(* Once a fragment went to a slot that was not running, the next test of    *)
(* the slot ends the write or the slot runs again.                          *)
Straying == stray \in {0, 1} /\ (stray = 1 => slot_state # "RUNNING" /\ wpc # "lock")

(* The ring begins with a packet that was not disposed of; one is half      *)
(* stored only while the thread is at it; a spoilt ring has no packets.     *)
RingHead ==
  /\ rx # <<>> => ~rx[1].gone
  /\ half # "no" => tpc = "rest"
  /\ spoilt => rx = <<>>
  /\ ridx <= Len(rx)

(* The flag of packet k is not stored.                                      *)
Torn(k) == half = "flag" /\ k = Len(rx)

(* The connection of the read under way.                                    *)
Mine == IF rconn = NoConn THEN rx[ridx].conn ELSE rconn

(* The end of the message is ahead of the reader, unless a flag that was    *)
(* not stored misled it, and nothing of the message is behind.              *)
EndAhead ==
  rpc = "read" =>
    /\ ridx # 0 => ridx \in Live(0)
    /\ ~misled =>
         /\ ridx # 0
         /\ \E e \in Live(0) : e >= ridx /\ rx[e].conn = Mine /\ rx[e].last /\ ~Torn(e)
    /\ \A j \in Live(0) : j < ridx => rconn # NoConn /\ rx[j].conn # rconn

(* What read() has, until it ends a message.  It takes a packet whose flag  *)
(* is not stored for an end that it is not, or the other way round.         *)
GotSoFar ==
  /\ rpc \notin {"read", "done"} \/ rconn = NoConn => got = <<>>
  /\ rpc = "done" => got # <<>> /\ (got[Len(got)].last \/ got[Len(got)].msg \in damaged)
  /\ \A i \in 1 .. Len(got) : /\ got[i].conn = rconn /\ ~got[i].gone
                              /\ got[i].last => i = Len(got) /\ (rpc = "done" \/ ridx = 0)

(* Packets of a connection are in the order of its messages.                *)
Before(p, q) ==
  p.conn = q.conn => p.msg <= q.msg /\ (p.msg = q.msg => ~p.last /\ q.last /\ ~q.first)

InOrder ==
  /\ \A i, k \in Live(0) : i < k => Before(rx[i], rx[k])
  /\ \A i \in 1 .. Len(got), k \in Live(0) : Before(got[i], rx[k])
  /\ \A i, k \in 1 .. Len(got) : i < k => Before(got[i], got[k])

(* What was received and not returned yet.                                  *)
Stock == {rx[k] : k \in Live(0)} \cup {got[i] : i \in 1 .. Len(got)}

SameMessage(p, q) == p.conn = q.conn /\ p.msg = q.msg

(* A message has one or two fragments, and no fragment of one that is not   *)
(* damaged is missing before another.                                       *)
StockWhole ==
  /\ \A q \in Stock :
       /\ q.first \/ q.last
       /\ ~q.first /\ q.msg \notin damaged => \E p \in Stock : SameMessage(p, q) /\ p.first /\ ~p.last
       /\ ~q.last /\ q.msg \notin damaged =>
            cur[q.conn] = q.msg \/ \E p \in Stock : SameMessage(p, q) /\ p.last
  /\ \A c \in Conn : cur[c] \notin {None} \cup damaged =>
       \E p \in Stock : p.conn = c /\ p.msg = cur[c] /\ p.first /\ ~p.last

(* Message m comes after message k, or is the rest of it.                   *)
After(k, m) == k <= m /\ (m \notin damaged => k < m)

(* Messages are numbered as they are sent.                                  *)
Numbered ==
  /\ \A q \in Stock : /\ q.msg <= sent /\ After(lastGot[q.conn], q.msg)
                      /\ cur[q.conn] # None =>
                           q.msg <= cur[q.conn] /\ (q.msg = cur[q.conn] => ~q.last)
  /\ \A c \in Conn : /\ lastGot[c] <= sent /\ cur[c] <= sent
                     /\ cur[c] # None => After(lastGot[c], cur[c])

WriteCounted == wpc # "idle" => wleft > 0

IInv == /\ TypeOK /\ Stopping /\ Straying /\ RingHead /\ EndAhead /\ GotSoFar /\ InOrder
        /\ StockWhole /\ Numbered /\ WriteCounted
-----------------------------------------------------------------------------
(* The least element of a set of numbers.                                   *)
Less == {p \in Nat \X Nat : p[1] < p[2]}

LEMMA LessWellFounded == IsWellFoundedOn(Less, Nat)
BY NatLessThanWellFounded DEF OpToRel, Less

LEMMA LeastElement ==
  ASSUME NEW S, S \subseteq Nat, S # {}
  PROVE  \E m \in S : \A n \in S : m <= n
<1>1. PICK m \in S : \A n \in S : ~ (<<n, m>> \in Less)
  BY LessWellFounded, WFMin
<1>2. ASSUME NEW n \in S PROVE m <= n
  <2>1. m \in Nat /\ n \in Nat /\ <<n, m>> \notin Less
    BY <1>1
  <2>2. n < m => <<n, m>> \in Less
    BY <2>1 DEF Less
  <2> QED
    BY <2>1, <2>2
<1> QED
  BY <1>1, <1>2

(* The packet after packet k.                                               *)
LEMMA NextPacket ==
  ASSUME TypeOK, NEW k \in Nat
  PROVE  /\ Live(k) = {} => PktNext(k) = 0
         /\ Live(k) # {} => PktNext(k) \in Live(k) /\ \A i \in Live(k) : PktNext(k) <= i
         /\ Live(k) = {j \in Live(0) : j > k} /\ Live(0) \subseteq 1 .. Len(rx)
         /\ Len(rx) \in Nat
<1>1. Len(rx) \in Nat
  BY LenProperties DEF TypeOK
<1>2. Live(k) = {j \in Live(0) : j > k} /\ Live(0) \subseteq 1 .. Len(rx)
  BY <1>1 DEF Live
<1>3. CASE Live(k) # {}
  <2>1. Live(k) \subseteq Nat
    BY <1>1, <1>2
  <2>2. \E j \in Live(k) : \A i \in Live(k) : j <= i
    BY <1>3, <2>1, LeastElement
  <2>3. PktNext(k) = CHOOSE j \in Live(k) : \A i \in Live(k) : j <= i
    BY <1>3 DEF PktNext
  <2> QED
    BY <1>1, <1>2, <1>3, <2>2, <2>3
<1> QED
  BY <1>1, <1>2, <1>3 DEF PktNext
-----------------------------------------------------------------------------
(* The steps, by what they touch.                                           *)
CamCase   == Insert \/ Remove \/ CamReady \/ TimeUp
SlotCase  == \/ Poll \/ NothingToDo \/ ResetSlot \/ NotReady \/ Validate \/ LinkFree \/ LinkInit
             \/ BeginFetch \/ NoPacket \/ ReadError \/ FetchDone
FetchCase == (\E f \in Fragments : Fetch(f)) \/ FetchRest
ReadAside == ReadCall \/ ReadSignal \/ ReadGarbage \/ ReturnGarbage
ReadEnd   == ReadFault \/ ReadEnded \/ ReadReturn
ReadCase  == ReadAside \/ ReadEnd \/ ReadCondition \/ ReadPacket
WriteStep == \E n \in 1 .. MaxFrag : WriteCall(n)
WriteCase == WriteStep \/ WriteTimeout \/ WriteTest \/ WriteData \/ WriteAgain \/ WriteError
FileCase  == \/ ResetIoctl \/ Open \/ Close \/ CloseEnd \/ Release \/ StopThread \/ ReleaseSlot

LEMMA NextCases == Next => CamCase \/ SlotCase \/ FetchCase \/ ReadCase \/ WriteCase \/ FileCase
BY DEF Next, Thread, Reader, Write, CamCase, SlotCase, FetchCase, ReadAside, ReadEnd, ReadCase,
   WriteStep, WriteCase, FileCase

(* Only a fetch and a read touch the ring and what the reader has.          *)
OtherCase == CamCase \/ SlotCase \/ WriteCase \/ FileCase

LEMMA RingFrame ==
  ASSUME OtherCase
  PROVE  /\ UNCHANGED <<rx, half, spoilt, ridx, rconn, got, lastGot, misled>>
         /\ rpc' = rpc \/ (rpc = "asleep" /\ rpc' = "cond")
         /\ tpc = "rest" => tpc' = "rest"
<1> USE DEF ringVars, readVars, threadVars, SlotShutdown, WakeReader, Pass, In
<1>1. CASE CamCase
  BY <1>1 DEF CamCase, Insert, Remove, CamReady, TimeUp
<1>2. CASE Poll \/ NothingToDo \/ ResetSlot \/ NotReady \/ Validate \/ LinkFree \/ LinkInit
  BY <1>2 DEF Poll, NothingToDo, ResetSlot, NotReady, Validate, LinkFree, LinkInit
<1>3. CASE BeginFetch \/ NoPacket \/ ReadError \/ FetchDone
  BY <1>3 DEF BeginFetch, NoPacket, ReadError, FetchDone
<1>4. CASE WriteCase
  BY <1>4 DEF WriteCase, WriteStep, WriteCall, WriteTimeout, WriteTest, WriteData, WriteAgain,
     WriteError
<1>5. CASE FileCase
  BY <1>5 DEF FileCase, ResetIoctl, Open, Close, CloseEnd, Release, StopThread, ReleaseSlot
<1> QED
  BY <1>1, <1>2, <1>3, <1>4, <1>5 DEF OtherCase, SlotCase

(* What the module has begun goes on, is lost, or loses a fragment.         *)
LEMMA CamFrame ==
  ASSUME OtherCase
  PROVE  \/ UNCHANGED <<cur, sent, damaged>>
         \/ LinkReset
         \/ \E f \in Fragments : Sent(f) /\ damaged' = damaged \cup {f.msg}
<1> USE DEF camVars, SlotShutdown, CamReset, slot_reset, slot_shutdown
<1>1. CASE CamCase
  BY <1>1 DEF CamCase, Insert, Remove, CamReady, TimeUp
<1>2. CASE Poll \/ NothingToDo \/ ResetSlot \/ NotReady \/ Validate \/ LinkFree \/ LinkInit
  BY <1>2 DEF Poll, NothingToDo, ResetSlot, NotReady, Validate, LinkFree, LinkInit
<1>3. CASE BeginFetch \/ NoPacket \/ ReadError \/ FetchDone
  BY <1>3 DEF BeginFetch, NoPacket, ReadError, FetchDone
<1>4. CASE WriteCase
  BY <1>4 DEF WriteCase, WriteStep, WriteCall, WriteTimeout, WriteTest, WriteData, WriteAgain,
     WriteError
<1>5. CASE FileCase
  BY <1>5 DEF FileCase, ResetIoctl, Open, Close, CloseEnd, Release, StopThread, ReleaseSlot
<1> QED
  BY <1>1, <1>2, <1>3, <1>4, <1>5 DEF OtherCase, SlotCase
-----------------------------------------------------------------------------
(* The application is gone when the thread stops.                           *)
LEMMA StoppingNext ==
  ASSUME TypeOK, Stopping, Next
  PROVE  Stopping'
<1> USE DEF Stopping, threadVars, fileVars, readVars, writeVars, SlotShutdown, WakeReader, Pass, In,
        WriteFails
<1>1. CASE CamCase
  BY <1>1 DEF CamCase, Insert, Remove, CamReady, TimeUp
<1>2. CASE Poll \/ NothingToDo \/ ResetSlot \/ NotReady \/ Validate \/ LinkFree \/ LinkInit
  BY <1>2 DEF Poll, NothingToDo, ResetSlot, NotReady, Validate, LinkFree, LinkInit
<1>3. CASE BeginFetch \/ NoPacket \/ ReadError \/ FetchDone
  BY <1>3 DEF BeginFetch, NoPacket, ReadError, FetchDone
<1>4. CASE FetchCase
  BY <1>4 DEF FetchCase, Fetch, FetchRest
<1>5. CASE ReadCase
  BY <1>5 DEF ReadCase, ReadAside, ReadEnd, ReadCall, ReadSignal, ReadGarbage, ReturnGarbage,
     ReadFault, ReadEnded, ReadFails, ReadCondition, ReadPacket, ReadReturn
<1>6. CASE WriteCase
  BY <1>6 DEF WriteCase, WriteStep, WriteCall, WriteTimeout, WriteTest, WriteData, WriteAgain,
     WriteError
<1>7. CASE FileCase
  BY <1>7 DEF FileCase, ResetIoctl, Open, Close, CloseEnd, Release, StopThread, ReleaseSlot, TypeOK
<1> QED
  BY <1>1, <1>2, <1>3, <1>4, <1>5, <1>6, <1>7, NextCases DEF SlotCase

(* The slot starts to run only in dvb_ca_en50221_link_init.                 *)
LEMMA StrayingNext ==
  ASSUME TypeOK, Straying, Next
  PROVE  Straying'
<1> USE DEF Straying, slotVars, writeVars, SlotShutdown, Pass, In, WriteFails
<1>1. CASE CamCase
  BY <1>1 DEF CamCase, Insert, Remove, CamReady, TimeUp
<1>2. CASE Poll
  BY <1>2 DEF Poll, Unchanged
<1>3. CASE NothingToDo \/ ResetSlot \/ NotReady \/ LinkFree
  BY <1>3 DEF NothingToDo, ResetSlot, NotReady, LinkFree
<1>4. CASE Validate \/ LinkInit
  BY <1>4 DEF Validate, LinkInit
<1>5. CASE BeginFetch \/ NoPacket \/ ReadError \/ FetchDone
  BY <1>5 DEF BeginFetch, NoPacket, ReadError, FetchDone
<1>6. CASE FetchCase
  BY <1>6 DEF FetchCase, Fetch, FetchRest
<1>7. CASE ReadCase
  BY <1>7 DEF ReadCase, ReadAside, ReadEnd, ReadCall, ReadSignal, ReadGarbage, ReturnGarbage,
     ReadFault, ReadEnded, ReadFails, ReadCondition, ReadPacket, ReadReturn
<1>8. CASE WriteStep \/ WriteTimeout \/ WriteTest
  BY <1>8 DEF WriteStep, WriteCall, WriteTimeout, WriteTest
<1>9. CASE WriteData \/ WriteAgain \/ WriteError
  BY <1>9 DEF WriteData, WriteAgain, WriteError
<1>10. CASE FileCase
  BY <1>10 DEF FileCase, ResetIoctl, Open, Close, CloseEnd, Release, StopThread, ReleaseSlot
<1> QED
  BY <1>1, <1>2, <1>3, <1>4, <1>5, <1>6, <1>7, <1>8, <1>9, <1>10, NextCases DEF SlotCase, WriteCase
-----------------------------------------------------------------------------
(* What dvb_ringbuffer_pkt_dispose leaves: packet k and what was disposed   *)
(* of before it are gone from the head.                                     *)
LEMMA Disposed ==
  ASSUME TypeOK, NEW k \in Live(0), Dispose(k)
  PROVE  \E n \in 0 .. Len(rx) :
           /\ n = Freed(k) /\ rx' \in Seq(Packet) /\ Len(rx') = Len(rx) - n
           /\ \A j \in 1 .. Len(rx') : rx'[j] = Marked(k)[j + n]
           /\ \A i \in Live(0) \ {k} : i > n
           /\ rx' # <<>> => ~rx'[1].gone
<1> DEFINE m == Marked(k)
           L == {j \in 1 .. Len(m) : ~m[j].gone}
           n == Freed(k)
<1>1. rx \in Seq(Packet) /\ Len(rx) \in Nat /\ k \in 1 .. Len(rx) /\ rx[k] \in Packet
  BY NextPacket, ElementOfSeq DEF TypeOK
<1>2. /\ m \in Seq(Packet) /\ Len(m) = Len(rx)
      /\ \A j \in 1 .. Len(rx) : m[j] = IF j = k THEN [rx[k] EXCEPT !.gone = TRUE] ELSE rx[j]
  <2>1. [rx[k] EXCEPT !.gone = TRUE] \in Packet
    BY <1>1 DEF Packet
  <2>2. m = [rx EXCEPT ![k] = [rx[k] EXCEPT !.gone = TRUE]]
    BY <1>1 DEF Marked
  <2> QED
    BY <1>1, <2>1, <2>2, ExceptSeq
<1>3. [rx[k] EXCEPT !.gone = TRUE].gone
  BY <1>1 DEF Packet
<1>4. L = Live(0) \ {k}
  <2> HIDE DEF m
  <2>1. Live(0) = {j \in 1 .. Len(rx) : ~rx[j].gone}
    BY DEF Live
  <2> QED
    BY <1>1, <1>2, <1>3, <2>1
<1>5. n \in 0 .. Len(rx) /\ (\A i \in L : i > n) /\ (n # Len(rx) => n + 1 \in L)
  <2>1. CASE L = {}
    BY <1>1, <1>2, <2>1 DEF Freed
  <2>2. CASE L # {}
    <3>1. \E j \in L : \A i \in L : j <= i
      <4>1. L \subseteq Nat
        BY <1>1, <1>2
      <4> HIDE DEF L
      <4> QED
        BY <2>2, <4>1, LeastElement
    <3>2. n = (CHOOSE j \in L : \A i \in L : j <= i) - 1
      BY <2>2 DEF Freed
    <3> DEFINE l == CHOOSE j \in L : \A i \in L : j <= i
    <3>3. l \in L /\ \A i \in L : l <= i
      BY <3>1
    <3>4. l \in 1 .. Len(rx) /\ L \subseteq 1 .. Len(rx) /\ n = l - 1
      BY <1>2, <3>2, <3>3
    <3> HIDE DEF l, L, n
    <3> QED
      BY <1>1, <3>3, <3>4
  <2> QED
    BY <2>1, <2>2
<1>6. rx' = SubSeq(m, n + 1, Len(rx))
  BY DEF Dispose
<1> HIDE DEF m, L, n
<1>7. /\ rx' \in Seq(Packet) /\ Len(rx') = Len(rx) - n
      /\ \A j \in 1 .. Len(rx') : rx'[j] = m[j + n]
  <2>1. \A i \in n + 1 .. Len(rx) : m[i] \in Packet
    BY <1>1, <1>2, <1>5, ElementOfSeq
  <2>2. n + 1 \in Int /\ Len(rx) \in Int
    BY <1>1, <1>5
  <2>3. /\ rx' \in Seq(Packet)
        /\ Len(rx') = IF n + 1 <= Len(rx) THEN Len(rx) - (n + 1) + 1 ELSE 0
        /\ \A i \in 1 .. Len(rx) - (n + 1) + 1 : rx'[i] = m[n + 1 + i - 1]
    BY <1>6, <2>1, <2>2, SubSeqProperties
  <2>4. Len(rx') = Len(rx) - n
    BY <1>1, <1>5, <2>3
  <2>5. ASSUME NEW j \in 1 .. Len(rx') PROVE rx'[j] = m[j + n]
    <3>1. j \in 1 .. Len(rx) - (n + 1) + 1 /\ n + 1 + j - 1 = j + n
      BY <1>1, <1>5, <2>4
    <3> QED
      BY <2>3, <3>1
  <2> QED
    BY <2>3, <2>4, <2>5
<1>8. rx' # <<>> => ~rx'[1].gone
  <2> SUFFICES ASSUME rx' # <<>> PROVE ~rx'[1].gone
    OBVIOUS
  <2>1. Len(rx') \in Nat \ {0}
    BY <1>7, EmptySeq
  <2>2. n + 1 \in L /\ rx'[1] = m[n + 1]
    BY <1>1, <1>5, <1>7, <2>1
  <2> QED
    BY <2>2 DEF L
<1>9. \A i \in Live(0) \ {k} : i > n
  BY <1>4, <1>5
<1> QED
  BY <1>5, <1>7, <1>8, <1>9 DEF m, n

(* The packets that stay move by n.                                         *)
Moved(n, k) ==
  /\ n \in Nat
  /\ \A i \in Live(0) \ {k} : i - n \in Live(0)' /\ rx'[i - n] = rx[i]
  /\ \A j \in Live(0)' : j + n \in Live(0) \ {k} /\ rx'[j] = rx[j + n]

LEMMA DisposeMoves ==
  ASSUME TypeOK, NEW k \in Live(0), Dispose(k)
  PROVE  \E n \in 0 .. Len(rx) :
           /\ n = Freed(k) /\ Moved(n, k) /\ rx' \in Seq(Packet) /\ Len(rx') = Len(rx) - n
           /\ rx' # <<>> => ~rx'[1].gone
<1>1. rx \in Seq(Packet) /\ Len(rx) \in Nat /\ k \in 1 .. Len(rx) /\ Live(0) \subseteq 1 .. Len(rx)
  BY NextPacket DEF TypeOK
<1>2. PICK n \in 0 .. Len(rx) :
           /\ n = Freed(k) /\ rx' \in Seq(Packet) /\ Len(rx') = Len(rx) - n
           /\ \A j \in 1 .. Len(rx') : rx'[j] = Marked(k)[j + n]
           /\ \A i \in Live(0) \ {k} : i > n
           /\ rx' # <<>> => ~rx'[1].gone
  BY Disposed
<1>3. /\ \A j \in 1 .. Len(rx) : j # k => Marked(k)[j] = rx[j]
      /\ Marked(k)[k].gone
  <2>1. rx[k] \in Packet
    BY <1>1, ElementOfSeq
  <2>2. rx \in [1 .. Len(rx) -> Packet]
    BY <1>1, LenProperties
  <2> QED
    BY <1>1, <2>1, <2>2 DEF Marked, Packet
<1>4. Live(0)' = {j \in 1 .. Len(rx') : ~rx'[j].gone}
  <2>1. Live(0)' = {j \in 0 + 1 .. Len(rx') : ~rx'[j].gone}
    BY DEF Live
  <2> QED
    BY <2>1
<1>5. Live(0) = {j \in 1 .. Len(rx) : ~rx[j].gone}
  BY DEF Live
<1>6. ASSUME NEW i \in Live(0) \ {k} PROVE i - n \in Live(0)' /\ rx'[i - n] = rx[i]
  <2>1. i \in 1 .. Len(rx) /\ i > n /\ i - n \in 1 .. Len(rx')
    BY <1>1, <1>2
  <2>2. rx'[i - n] = Marked(k)[i]
    <3>1. i - n + n = i
      BY <1>1, <2>1
    <3> QED
      BY <1>2, <2>1, <3>1
  <2> QED
    BY <1>3, <1>4, <1>5, <2>1, <2>2
<1>7. ASSUME NEW j \in Live(0)' PROVE j + n \in Live(0) \ {k} /\ rx'[j] = rx[j + n]
  <2>1. j \in 1 .. Len(rx') /\ ~rx'[j].gone /\ rx'[j] = Marked(k)[j + n]
    BY <1>2, <1>4
  <2>2. j + n \in 1 .. Len(rx)
    BY <1>1, <1>2, <2>1
  <2> QED
    BY <1>3, <1>5, <2>1, <2>2
<1> QED
  BY <1>2, <1>6, <1>7 DEF Moved

(* What a fetch adds.                                                       *)
LEMMA FetchAdds ==
  ASSUME TypeOK, ~spoilt, NEW f \in Fragments, Fetch(f)
  PROVE  /\ rx' \in Seq(Packet) /\ Len(rx') = Len(rx) + 1 /\ Stored(f) \in Packet
         /\ rx'[Len(rx) + 1] = Stored(f)
         /\ \A i \in 1 .. Len(rx) : rx'[i] = rx[i]
         /\ Live(0)' = Live(0) \cup {Len(rx) + 1}
<1>1. rx \in Seq(Packet) /\ Len(rx) \in Nat /\ Live(0) = {j \in 1 .. Len(rx) : ~rx[j].gone}
  BY NextPacket DEF TypeOK, Live
<1>2. Stored(f) \in Packet /\ ~Stored(f).gone
  BY DEF Stored, Fragments, Packet
<1>3. /\ rx' \in Seq(Packet) /\ Len(rx') = Len(rx) + 1 /\ rx'[Len(rx) + 1] = Stored(f)
      /\ \A i \in 1 .. Len(rx) : rx'[i] = rx[i]
  BY <1>1, <1>2, AppendProperties DEF Fetch, Store
<1>4. Live(0)' = {j \in 1 .. Len(rx') : ~rx'[j].gone}
  BY DEF Live
<1> QED
  BY <1>1, <1>2, <1>3, <1>4
-----------------------------------------------------------------------------
(* A packet as the reader sees it.                                          *)
LEMMA SeenPacket ==
  ASSUME TypeOK, NEW k \in Live(0)
  PROVE  /\ Seen(k).conn = rx[k].conn /\ Seen(k).msg = rx[k].msg
         /\ Seen(k).last = IF Torn(k) THEN ~rx[k].last ELSE rx[k].last
         /\ Torn(k) => IsHalf(k) /\ k = Len(rx)
<1>1. rx[k] \in Packet
  BY NextPacket, ElementOfSeq DEF TypeOK
<1> QED
  BY <1>1 DEF Seen, IsHalf, Torn, Packet

(* A pass of the loop of io_read: a packet of its own, or another one.      *)
Taken ==
  /\ rpc = "read" /\ ridx # 0 /\ rconn \in {NoConn, rx[ridx].conn}
  /\ Dispose(ridx) /\ got' = Append(got, rx[ridx]) /\ rconn' = rx[ridx].conn
  /\ ridx' = IF PktNext(ridx) = 0 THEN 0 ELSE PktNext(ridx) - Freed(ridx)
  /\ rpc' = IF Seen(ridx).last THEN "done" ELSE "read"
  /\ damaged' = IF IsHalf(ridx) THEN damaged \cup {rx[ridx].msg} ELSE damaged
Passed ==
  /\ rpc = "read" /\ ridx # 0 /\ rconn \notin {NoConn, rx[ridx].conn}
  /\ UNCHANGED <<rx, got, rconn, damaged>>
  /\ ridx' = PktNext(ridx)
  /\ rpc' = "read"

LEMMA ReadPacketCases ==
  ASSUME TypeOK, EndAhead, ReadPacket
  PROVE  /\ Taken \/ Passed
         /\ ridx \in Live(0)
         /\ UNCHANGED <<half, tpc, lastGot, misled, cur, sent>>
         /\ spoilt' => spoilt \/ rx' = <<>>
<1>1. UNCHANGED <<half, tpc, lastGot, misled, cur, sent>> /\ rpc = "read" /\ ridx # 0
  BY DEF ReadPacket, threadVars
<1>2. ridx \in Live(0) /\ (spoilt' => spoilt \/ rx' = <<>>)
  BY <1>1 DEF EndAhead, ReadPacket
<1>3. Seen(ridx).conn = rx[ridx].conn /\ Seen(ridx).msg = rx[ridx].msg
  BY <1>2, SeenPacket
<1>4. CASE rconn \in {NoConn, rx[ridx].conn}
  BY <1>1, <1>2, <1>3, <1>4 DEF ReadPacket, Taken
<1>5. CASE rconn \notin {NoConn, rx[ridx].conn}
  BY <1>1, <1>2, <1>3, <1>5 DEF ReadPacket, Passed
<1> QED
  BY <1>1, <1>2, <1>4, <1>5

(* io_read_condition that finds a message, or does not.                     *)
LEMMA ConditionCases ==
  ASSUME ReadCondition
  PROVE  /\ rpc = "cond" /\ UNCHANGED <<rx, half, spoilt, tpc, lastGot, cur, sent, damaged>>
         /\ \/ /\ rpc' = "read" /\ Ends # {}
               /\ misled' \/ \E e \in Ends : rx[e].last
               /\ ridx' = PktNext(0) /\ rconn' = NoConn /\ got' = <<>>
            \/ rpc' \in {"asleep", "idle"} /\ UNCHANGED <<ridx, rconn, got>>
BY DEF ReadCondition, Found, ringVars, threadVars, camVars

(* The other steps of a read: those that leave what it has, ...             *)
LEMMA AsideFrame ==
  ASSUME ReadAside
  PROVE  /\ UNCHANGED <<rx, half, tpc, cur, sent, ridx, rconn, got, lastGot, damaged>>
         /\ rpc \in {"idle", "asleep", "cond", "garbage"} /\ rpc' \in {"idle", "cond", "garbage"}
         /\ spoilt' => spoilt \/ rx = <<>>
BY DEF ReadAside, ReadCall, ReadSignal, ReadGarbage, ReturnGarbage, Overrun, ringVars, threadVars,
   camVars

(* ... and those that return it or lose it.                                 *)
LEMMA EndFrame ==
  ASSUME ReadEnd
  PROVE  /\ UNCHANGED <<rx, half, spoilt, tpc, cur, sent>>
         /\ rpc' = "idle" /\ ridx' = 0 /\ rconn' = NoConn /\ got' = <<>>
         /\ \/ /\ rpc = "done" /\ UNCHANGED damaged
               /\ lastGot' = [lastGot EXCEPT ![rconn] = got[Len(got)].msg]
            \/ /\ UNCHANGED lastGot
               /\ damaged' = damaged \cup {got[k].msg : k \in 1 .. Len(got)}
<1> USE DEF ringVars, threadVars, camVars
<1>1. CASE ReadFault \/ ReadEnded
  BY <1>1 DEF ReadFault, ReadEnded, ReadFails
<1>2. CASE ReadReturn
  BY <1>2 DEF ReadReturn
<1> QED
  BY <1>1, <1>2 DEF ReadEnd

LEMMA FetchRestFrame ==
  ASSUME FetchRest
  PROVE  /\ UNCHANGED <<rx, spoilt, rpc, ridx, rconn, got, lastGot, misled, cur, sent, damaged>>
         /\ half' = "no" /\ tpc = "rest"
BY DEF FetchRest, readVars, camVars

LEMMA FetchFrame ==
  ASSUME NEW f \in Fragments, Fetch(f)
  PROVE  /\ UNCHANGED <<spoilt, rpc, ridx, rconn, got, lastGot, misled>> /\ Sent(f)
         /\ half' # "no" => tpc' = "rest"
         /\ tpc = "fetch" /\ Len(rx) < RxSize
         /\ IF spoilt THEN UNCHANGED <<rx, half>> /\ damaged' = damaged \cup {f.msg}
                      ELSE UNCHANGED damaged
BY DEF Fetch, Store, readVars

(* The head of the ring is a packet to be read.                             *)
LEMMA RingHeadNext ==
  ASSUME TypeOK, RingHead, EndAhead, Next
  PROVE  RingHead'
<1>0. /\ rx \in Seq(Packet) /\ Len(rx) \in Nat /\ Live(0) = {j \in 1 .. Len(rx) : ~rx[j].gone}
      /\ ridx \in Nat /\ (rx # <<>> <=> Len(rx) > 0)
  BY NextPacket, EmptySeq DEF TypeOK, Live
<1> USE DEF RingHead
<1>1. CASE OtherCase
  BY <1>1, RingFrame
<1>2. ASSUME NEW f \in Fragments, Fetch(f), ~spoilt PROVE RingHead'
  <2>1. /\ rx' \in Seq(Packet) /\ Len(rx') = Len(rx) + 1
        /\ rx'[Len(rx) + 1] = Stored(f) /\ \A i \in 1 .. Len(rx) : rx'[i] = rx[i]
    BY <1>2, FetchAdds
  <2>2. ~Stored(f).gone
    BY DEF Stored
  <2>3. UNCHANGED <<ridx, spoilt>> /\ (half' # "no" => tpc' = "rest")
    BY <1>2, FetchFrame
  <2>4. rx' # <<>> => ~rx'[1].gone
    BY <1>0, <2>1, <2>2
  <2> QED
    BY <1>0, <1>2, <2>1, <2>3, <2>4
<1>3. ASSUME NEW f \in Fragments, Fetch(f), spoilt PROVE RingHead'
  BY <1>3, FetchFrame
<1>4. CASE FetchRest
  BY <1>4, FetchRestFrame
<1>5. CASE ReadAside
  BY <1>5, AsideFrame
<1>6. CASE ReadEnd
  BY <1>0, <1>6, EndFrame
<1>7. CASE ReadCondition
  <2>1. PktNext(0) <= Len(rx)
    BY <1>0, NextPacket
  <2> QED
    BY <1>7, <2>1, ConditionCases
<1>8. CASE ReadPacket /\ Taken
  <2>1. /\ ridx \in Live(0) /\ UNCHANGED <<half, tpc>> /\ Dispose(ridx)
        /\ spoilt' => spoilt \/ rx' = <<>>
    BY <1>8, ReadPacketCases DEF Taken
  <2>2. PICK n \in 0 .. Len(rx) :
           /\ n = Freed(ridx) /\ rx' \in Seq(Packet) /\ Len(rx') = Len(rx) - n
           /\ rx' # <<>> => ~rx'[1].gone
    BY <2>1, DisposeMoves
  <2>3. ~spoilt
    BY <1>0, <2>1
  <2>4. ridx' <= Len(rx')
    <3>1. PktNext(ridx) <= Len(rx)
      BY <1>0, NextPacket
    <3>2. PktNext(ridx) \in Nat
      BY <1>0, NextPacket
    <3> QED
      BY <1>0, <1>8, <2>2, <3>1, <3>2 DEF Taken
  <2> QED
    BY <2>1, <2>2, <2>3, <2>4
<1>9. CASE ReadPacket /\ Passed
  <2>1. PktNext(ridx) <= Len(rx)
    BY <1>0, NextPacket
  <2>2. UNCHANGED <<half, tpc>> /\ (spoilt' => spoilt \/ rx' = <<>>)
    BY <1>9, ReadPacketCases
  <2> QED
    BY <1>9, <2>1, <2>2 DEF Passed
<1> QED
  BY <1>1, <1>2, <1>3, <1>4, <1>5, <1>6, <1>7, <1>8, <1>9, NextCases, ReadPacketCases
     DEF OtherCase, FetchCase, ReadCase

(* The reader finds the end of the message that io_read_condition found.    *)
LEMMA EndAheadNext ==
  ASSUME TypeOK, RingHead, EndAhead, Next
  PROVE  EndAhead'
<1>0. /\ rx \in Seq(Packet) /\ Len(rx) \in Nat /\ Live(0) \subseteq 1 .. Len(rx)
      /\ Live(0) = {j \in 1 .. Len(rx) : ~rx[j].gone} /\ Live(0) \subseteq Nat
      /\ ridx \in Nat /\ ridx <= Len(rx)
  BY NextPacket DEF TypeOK, Live, RingHead
<1>1. CASE OtherCase
  BY <1>1, RingFrame DEF EndAhead, Live, Torn, Mine
<1>2. ASSUME NEW f \in Fragments, Fetch(f), spoilt PROVE EndAhead'
  BY <1>2, FetchFrame DEF EndAhead, Live, Torn, Mine
<1>3. ASSUME NEW f \in Fragments, Fetch(f), ~spoilt PROVE EndAhead'
  <2> SUFFICES ASSUME rpc' = "read" PROVE EndAhead'
    BY DEF EndAhead
  <2>1. /\ \A i \in 1 .. Len(rx) : rx'[i] = rx[i]
        /\ Live(0)' = Live(0) \cup {Len(rx) + 1} /\ Len(rx') = Len(rx) + 1
        /\ UNCHANGED <<ridx, rconn, misled>> /\ rpc = "read"
    BY <1>3, FetchAdds, FetchFrame
  <2>2. ridx' # 0 => ridx' \in Live(0)'
    BY <2>1 DEF EndAhead
  <2>3. ASSUME ~misled'
        PROVE  /\ ridx' # 0
               /\ \E e \in Live(0)' : e >= ridx' /\ rx'[e].conn = Mine' /\ rx'[e].last /\ ~Torn(e)'
    <3>1. PICK e \in Live(0) : e >= ridx /\ rx[e].conn = Mine /\ rx[e].last
      BY <2>1, <2>3 DEF EndAhead
    <3>2. ridx # 0 /\ ridx \in 1 .. Len(rx)
      BY <1>0, <2>1, <2>3 DEF EndAhead
    <3>3. Mine' = Mine
      BY <2>1, <3>2 DEF Mine
    <3>4. e \in Live(0)' /\ rx'[e] = rx[e] /\ ~Torn(e)'
      BY <1>0, <2>1 DEF Torn
    <3> QED
      BY <2>1, <3>1, <3>2, <3>3, <3>4
  <2>4. ASSUME NEW j \in Live(0)', j < ridx' PROVE rconn' # NoConn /\ rx'[j].conn # rconn'
    <3>1. j \in Live(0) /\ j \in 1 .. Len(rx)
      BY <1>0, <2>1, <2>4
    <3> QED
      BY <2>1, <2>4, <3>1 DEF EndAhead
  <2> QED
    BY <2>2, <2>3, <2>4 DEF EndAhead
<1>4. CASE FetchRest
  BY <1>4, FetchRestFrame DEF EndAhead, Live, Torn, Mine
<1>5. CASE ReadAside \/ ReadEnd
  BY <1>5, AsideFrame, EndFrame DEF EndAhead
<1>6. CASE ReadCondition
  <2> SUFFICES ASSUME rpc' = "read" PROVE EndAhead'
    BY DEF EndAhead
  <2>1. /\ Ends # {} /\ (misled' \/ \E e \in Ends : rx[e].last)
        /\ ridx' = PktNext(0) /\ rconn' = NoConn /\ UNCHANGED <<rx, half>>
    BY <1>6, ConditionCases
  <2>2. PktNext(0) \in Live(0) /\ \A i \in Live(0) : PktNext(0) <= i
    BY <2>1, NextPacket DEF Ends
  <2>3. Live(0)' = Live(0) /\ Mine' = rx[PktNext(0)].conn /\ (\A e : Torn(e)' = Torn(e))
    BY <2>1 DEF Live, Torn, Mine
  <2>4. \A j \in Live(0) : ~(j < PktNext(0))
    BY <1>0, <2>2
  <2>5. ASSUME ~misled'
        PROVE  \E e \in Live(0) : e >= PktNext(0) /\ rx[e].conn = Mine' /\ rx[e].last /\ ~Torn(e)
    <3>1. PICK e \in Ends : rx[e].last
      BY <2>1, <2>5
    <3>2. e \in Live(0) /\ rx[e].conn = rx[PktNext(0)].conn /\ Seen(e).last
      BY DEF Ends
    <3>3. ~Torn(e)
      BY <3>1, <3>2, SeenPacket
    <3>4. e >= PktNext(0)
      BY <1>0, <2>2, <3>2
    <3> QED
      BY <2>3, <3>1, <3>2, <3>3, <3>4
  <2>6. PktNext(0) # 0
    BY <1>0, <2>2
  <2> QED
    BY <2>1, <2>2, <2>3, <2>4, <2>5, <2>6 DEF EndAhead
<1>7. CASE ReadPacket /\ Taken
  <2> SUFFICES ASSUME rpc' = "read" PROVE EndAhead'
    BY DEF EndAhead
  <2>1. /\ ridx \in Live(0) /\ ~Seen(ridx).last /\ UNCHANGED <<half, misled>>
        /\ rconn' = rx[ridx].conn /\ rconn \in {NoConn, rx[ridx].conn}
        /\ ridx' = IF PktNext(ridx) = 0 THEN 0 ELSE PktNext(ridx) - Freed(ridx)
        /\ Dispose(ridx) /\ rpc = "read" /\ ridx # 0
    BY <1>7, ReadPacketCases DEF Taken
  <2>2. PICK n \in 0 .. Len(rx) : n = Freed(ridx) /\ Moved(n, ridx) /\ Len(rx') = Len(rx) - n
    BY <2>1, DisposeMoves
  <2>3. /\ rx[ridx] \in Packet /\ rx[ridx].conn \in Conn
        /\ Mine = rx[ridx].conn /\ Mine' = rx[ridx].conn /\ rconn' # NoConn
    <3>1. rx[ridx] \in Packet
      BY <1>0, <2>1, ElementOfSeq
    <3> QED
      BY <2>1, <3>1, CaAssumption DEF Packet, Mine
  <2>4. CASE PktNext(ridx) = 0
    <3>1. misled
      <4> SUFFICES ASSUME ~misled PROVE FALSE
        OBVIOUS
      <4>1. PICK e \in Live(0) : e >= ridx /\ rx[e].last /\ ~Torn(e)
        BY <2>1 DEF EndAhead
      <4>2. e # ridx
        BY <2>1, <4>1, SeenPacket
      <4>3. e \in Live(ridx)
        BY <1>0, <4>1, <4>2, NextPacket
      <4> QED
        BY <1>0, <2>4, <4>3, NextPacket
    <3>2. ridx' = 0 /\ misled'
      BY <2>1, <2>4, <3>1
    <3>3. \A j \in Live(0)' : ~(j < 0)
      BY <1>0, <2>2 DEF Live
    <3> QED
      BY <3>2, <3>3 DEF EndAhead
  <2>5. CASE PktNext(ridx) # 0
    <3>1. /\ PktNext(ridx) \in Live(0) \ {ridx}
          /\ \A i \in Live(0) : i > ridx => PktNext(ridx) <= i
      BY <1>0, <2>5, NextPacket
    <3>2. ridx' = PktNext(ridx) - n /\ ridx' \in Live(0)' /\ ridx' # 0
      <4>1. ridx' = PktNext(ridx) - n /\ ridx' \in Live(0)'
        BY <2>1, <2>2, <2>5, <3>1 DEF Moved
      <4> QED
        BY <1>0, <2>2, <4>1 DEF Live
    <3>3. ASSUME ~misled'
          PROVE  \E e \in Live(0)' : e >= ridx' /\ rx'[e].conn = Mine' /\ rx'[e].last /\ ~Torn(e)'
      <4>1. PICK e \in Live(0) : e >= ridx /\ rx[e].conn = Mine /\ rx[e].last /\ ~Torn(e)
        BY <2>1, <3>3 DEF EndAhead
      <4>2. e # ridx
        BY <2>1, <4>1, SeenPacket
      <4>3. PktNext(ridx) <= e
        BY <1>0, <3>1, <4>1, <4>2
      <4>4. e - n \in Live(0)' /\ rx'[e - n] = rx[e]
        BY <2>2, <4>1, <4>2 DEF Moved
      <4>5. e - n >= ridx' /\ ~Torn(e - n)'
        BY <1>0, <2>1, <2>2, <3>1, <3>2, <4>1, <4>3 DEF Torn
      <4> QED
        BY <2>3, <4>1, <4>4, <4>5
    <3>4. ASSUME NEW j \in Live(0)', j < ridx' PROVE rx'[j].conn # rconn'
      <4>1. j + n \in Live(0) \ {ridx} /\ rx'[j] = rx[j + n]
        BY <2>2 DEF Moved
      <4>2. j \in Int
        BY DEF Live
      <4>3. j + n < PktNext(ridx)
        BY <1>0, <3>1, <3>2, <3>4, <4>2
      <4>4. j + n < ridx
        BY <1>0, <3>1, <4>1, <4>3
      <4>5. rconn # NoConn /\ rx[j + n].conn # rconn
        BY <2>1, <4>1, <4>4 DEF EndAhead
      <4> QED
        BY <2>1, <4>1, <4>5
    <3> QED
      BY <2>3, <3>2, <3>3, <3>4 DEF EndAhead
  <2> QED
    BY <2>4, <2>5
<1>8. CASE ReadPacket /\ Passed
  <2>1. /\ ridx \in Live(0) /\ ridx # 0 /\ rconn # NoConn /\ rx[ridx].conn # rconn
        /\ UNCHANGED <<rx, half, rconn, misled>> /\ ridx' = PktNext(ridx) /\ rpc = "read"
    BY <1>8, ReadPacketCases DEF Passed
  <2>2. Live(0)' = Live(0) /\ Mine' = Mine /\ (\A e : Torn(e)' = Torn(e))
    BY <2>1 DEF Live, Torn, Mine
  <2>3. /\ PktNext(ridx) # 0 => PktNext(ridx) \in Live(0)
        /\ \A i \in Live(0) : i > ridx => PktNext(ridx) <= i /\ PktNext(ridx) # 0
    BY <1>0, NextPacket
  <2>4. ASSUME ~misled
        PROVE  /\ PktNext(ridx) # 0
               /\ \E e \in Live(0) : e >= PktNext(ridx) /\ rx[e].conn = Mine /\ rx[e].last /\ ~Torn(e)
    <3>1. PICK e \in Live(0) : e >= ridx /\ rx[e].conn = Mine /\ rx[e].last /\ ~Torn(e)
      BY <2>1, <2>4 DEF EndAhead
    <3>2. e > ridx
      BY <1>0, <2>1, <3>1 DEF Mine
    <3>3. PktNext(ridx) # 0 /\ PktNext(ridx) <= e /\ PktNext(ridx) \in Nat
      BY <1>0, <2>3, <3>2
    <3> QED
      BY <1>0, <3>1, <3>3
  <2>5. ASSUME NEW j \in Live(0), j < PktNext(ridx) PROVE rx[j].conn # rconn
    <3>1. j = ridx \/ j < ridx
      <4>1. PktNext(ridx) \in Nat /\ j \in Nat
        BY <1>0, NextPacket
      <4> QED
        BY <1>0, <2>3, <2>5, <4>1
    <3> QED
      BY <2>1, <3>1 DEF EndAhead
  <2> QED
    BY <2>1, <2>2, <2>3, <2>4, <2>5 DEF EndAhead
<1> QED
  BY <1>1, <1>2, <1>3, <1>4, <1>5, <1>6, <1>7, <1>8, NextCases, ReadPacketCases
     DEF OtherCase, FetchCase, ReadCase

(* Nothing that was damaged is whole again.                                 *)
LEMMA DamagedGrows ==
  ASSUME TypeOK, EndAhead, Next
  PROVE  damaged \subseteq damaged'
<1>1. CASE OtherCase
  BY <1>1, CamFrame DEF LinkReset
<1>2. CASE FetchCase
  BY <1>2, FetchFrame, FetchRestFrame DEF FetchCase
<1>3. CASE ReadAside \/ ReadEnd
  BY <1>3, AsideFrame, EndFrame
<1>4. CASE ReadCondition
  BY <1>4, ConditionCases
<1>5. CASE ReadPacket
  BY <1>5, ReadPacketCases DEF Taken, Passed
<1> QED
  BY <1>1, <1>2, <1>3, <1>4, <1>5, NextCases DEF OtherCase, ReadCase

(* A read ends with the first packet that ends a message, as it sees it.    *)
LEMMA GotSoFarNext ==
  ASSUME TypeOK, EndAhead, GotSoFar, Next
  PROVE  GotSoFar'
<1>0. /\ rx \in Seq(Packet) /\ Live(0) \subseteq 1 .. Len(rx) /\ \A j \in Live(0) : ~rx[j].gone
      /\ got \in Seq(Packet) /\ Len(got) \in Nat /\ Len(<<>>) = 0
      /\ damaged \subseteq damaged'
  BY NextPacket, LenProperties, EmptySeq, DamagedGrows DEF TypeOK, Live
<1>1. CASE OtherCase
  BY <1>0, <1>1, RingFrame DEF GotSoFar
<1>2. ASSUME NEW f \in Fragments, Fetch(f) PROVE GotSoFar'
  BY <1>0, <1>2, FetchFrame DEF GotSoFar
<1>3. CASE FetchRest
  BY <1>3, FetchRestFrame DEF GotSoFar
<1>4. CASE ReadAside
  BY <1>0, <1>4, AsideFrame DEF GotSoFar
<1>5. CASE ReadEnd
  BY <1>0, <1>5, EndFrame DEF GotSoFar
<1>6. CASE ReadCondition
  BY <1>0, <1>6, ConditionCases DEF GotSoFar
<1>7. CASE ReadPacket /\ Taken
  <2> DEFINE p == rx[ridx]
  <2>1. /\ rpc = "read" /\ ridx # 0 /\ ridx \in Live(0) /\ rconn \in {NoConn, p.conn}
        /\ got' = Append(got, p) /\ rconn' = p.conn
        /\ rpc' = IF Seen(ridx).last THEN "done" ELSE "read"
        /\ IsHalf(ridx) => p.msg \in damaged'
        /\ PktNext(ridx) = 0 => ridx' = 0
    BY <1>7, ReadPacketCases DEF Taken
  <2>2. p \in Packet /\ p.conn # NoConn /\ ~p.gone
    <3>1. p \in Packet
      BY <1>0, <2>1, ElementOfSeq
    <3> QED
      BY <1>0, <2>1, <3>1, CaAssumption DEF Packet
  <2>3. /\ Seen(ridx).last = IF Torn(ridx) THEN ~p.last ELSE p.last
        /\ Torn(ridx) => IsHalf(ridx) /\ ridx' = 0
    <3>1. /\ Seen(ridx).last = IF Torn(ridx) THEN ~p.last ELSE p.last
          /\ Torn(ridx) => IsHalf(ridx) /\ ridx = Len(rx)
      BY <2>1, SeenPacket
    <3>2. ridx = Len(rx) => Live(ridx) = {}
      BY <1>0, <2>1, NextPacket
    <3>3. Live(ridx) = {} => PktNext(ridx) = 0
      BY <1>0, <2>1, NextPacket
    <3> QED
      BY <2>1, <3>1, <3>2, <3>3
  <2> HIDE DEF p
  <2>4. /\ Len(got') = Len(got) + 1 /\ got'[Len(got) + 1] = p
        /\ \A i \in 1 .. Len(got) : got'[i] = got[i]
    BY <1>0, <2>1, <2>2, AppendProperties
  <2>5. got' # <<>>
    BY <1>0, <2>4
  <2>6. ASSUME NEW i \in 1 .. Len(got')
        PROVE  /\ got'[i].conn = rconn' /\ ~got'[i].gone
               /\ got'[i].last => i = Len(got') /\ (rpc' = "done" \/ ridx' = 0)
    <3>1. CASE i \in 1 .. Len(got)
      <4>1. /\ got[i].conn = rconn /\ ~got[i].gone /\ ~got[i].last /\ got'[i] = got[i]
        BY <2>1, <2>4, <3>1 DEF GotSoFar
      <4>2. got # <<>>
        BY <1>0, <3>1
      <4>3. rconn # NoConn
        BY <4>2 DEF GotSoFar
      <4> QED
        BY <2>1, <4>1, <4>3
    <3>2. CASE i = Len(got')
      BY <1>0, <2>1, <2>2, <2>3, <2>4, <3>2
    <3> QED
      BY <1>0, <2>4, <3>1, <3>2
  <2>7. rpc' = "done" => got'[Len(got')].last \/ got'[Len(got')].msg \in damaged'
    BY <2>1, <2>3, <2>4
  <2>8. rpc' \in {"read", "done"} /\ rconn' # NoConn
    BY <2>1, <2>2
  <2> QED
    BY <2>5, <2>6, <2>7, <2>8 DEF GotSoFar
<1>8. CASE ReadPacket /\ Passed
  BY <1>8 DEF GotSoFar, Passed
<1> QED
  BY <1>1, <1>2, <1>3, <1>4, <1>5, <1>6, <1>7, <1>8, NextCases, ReadPacketCases
     DEF OtherCase, FetchCase, ReadCase
-----------------------------------------------------------------------------
(* The packets that are held, and how the steps change them.                *)
LEMMA StockPackets ==
  ASSUME TypeOK
  PROVE  /\ Stock \subseteq Packet
         /\ \A k \in Live(0) : rx[k] \in Stock
         /\ \A i \in 1 .. Len(got) : got[i] \in Stock
<1>1. rx \in Seq(Packet) /\ got \in Seq(Packet) /\ Live(0) \subseteq 1 .. Len(rx)
  BY NextPacket DEF TypeOK
<1>2. \A k \in Live(0) : rx[k] \in Packet
  BY <1>1, ElementOfSeq
<1>3. \A i \in 1 .. Len(got) : got[i] \in Packet
  BY <1>1, ElementOfSeq
<1> QED
  BY <1>2, <1>3 DEF Stock

LEMMA StockSame ==
  ASSUME UNCHANGED <<rx, got>>
  PROVE  Stock' = Stock
BY DEF Stock, Live

LEMMA StockFetched ==
  ASSUME TypeOK, ~spoilt, NEW f \in Fragments, Fetch(f)
  PROVE  Stock' = Stock \cup {Stored(f)}
<1>1. /\ rx'[Len(rx) + 1] = Stored(f) /\ \A i \in 1 .. Len(rx) : rx'[i] = rx[i]
      /\ Live(0)' = Live(0) \cup {Len(rx) + 1} /\ got' = got
      /\ Live(0) \subseteq 1 .. Len(rx)
  BY FetchAdds, FetchFrame, NextPacket
<1> QED
  BY <1>1 DEF Stock

LEMMA StockRead ==
  ASSUME TypeOK, EndAhead, ReadPacket
  PROVE  Stock' = Stock
<1>1. CASE Passed
  BY <1>1, StockSame DEF Passed
<1>2. CASE Taken
  <2> DEFINE p == rx[ridx]
  <2>1. ridx \in Live(0) /\ got' = Append(got, p) /\ Dispose(ridx)
    BY <1>2, ReadPacketCases DEF Taken
  <2>2. PICK n : Moved(n, ridx)
    BY <2>1, DisposeMoves
  <2>3. {rx'[j] : j \in Live(0)'} = {rx[i] : i \in Live(0) \ {ridx}}
    <3>1. ASSUME NEW j \in Live(0)' PROVE rx'[j] \in {rx[i] : i \in Live(0) \ {ridx}}
      BY <2>2 DEF Moved
    <3>2. ASSUME NEW i \in Live(0) \ {ridx} PROVE rx[i] \in {rx'[j] : j \in Live(0)'}
      <4>1. i - n \in Live(0)' /\ rx'[i - n] = rx[i]
        BY <2>2 DEF Moved
      <4> QED
        BY <4>1
    <3> QED
      BY <3>1, <3>2
  <2>4. {got'[i] : i \in 1 .. Len(got')} = {got[i] : i \in 1 .. Len(got)} \cup {p}
    <3>1. got \in Seq(Packet) /\ p \in Packet /\ Len(got) \in Nat
      BY <2>1, StockPackets, LenProperties DEF TypeOK
    <3> HIDE DEF p
    <3>2. /\ Len(got') = Len(got) + 1 /\ got'[Len(got) + 1] = p
          /\ \A i \in 1 .. Len(got) : got'[i] = got[i]
      BY <2>1, <3>1, AppendProperties
    <3>3. 1 .. Len(got') = 1 .. Len(got) \cup {Len(got) + 1}
      BY <3>1, <3>2
    <3> QED
      BY <3>2, <3>3
  <2> QED
    BY <2>1, <2>3, <2>4 DEF Stock
<1> QED
  BY <1>1, <1>2, ReadPacketCases

(* The next fragment comes after everything that is held.                   *)
LEMMA FragmentAfter ==
  ASSUME TypeOK, Numbered, NEW f \in Fragments, NEW q \in Stock
  PROVE  Before(q, Stored(f))
<1>1. /\ f.conn \in Conn /\ f.msg \in Nat /\ sent \in Nat /\ cur[f.conn] \in Nat
      /\ \/ cur[f.conn] # None /\ f.msg = cur[f.conn] /\ ~f.first /\ f.last
         \/ cur[f.conn] = None /\ f.msg = sent + 1 /\ f.first
  BY CaAssumption DEF Fragments, TypeOK
<1>2. q \in Packet /\ q.msg \in Nat
  BY StockPackets, CaAssumption DEF Packet
<1>3. /\ q.msg <= sent
      /\ cur[q.conn] # None => q.msg <= cur[q.conn] /\ (q.msg = cur[q.conn] => ~q.last)
  BY DEF Numbered
<1>4. /\ Stored(f).conn = f.conn /\ Stored(f).msg = f.msg
      /\ Stored(f).first = f.first /\ Stored(f).last = f.last
  BY DEF Stored
<1> QED
  BY <1>1, <1>2, <1>3, <1>4 DEF Before

(* The ring and what was read of a message are in order.                    *)
LEMMA InOrderNext ==
  ASSUME TypeOK, EndAhead, GotSoFar, InOrder, Numbered, Next
  PROVE  InOrder'
<1>0. /\ rx \in Seq(Packet) /\ Len(rx) \in Nat /\ Live(0) \subseteq 1 .. Len(rx)
      /\ got \in Seq(Packet) /\ Len(got) \in Nat /\ Len(<<>>) = 0
  BY NextPacket, LenProperties, EmptySeq DEF TypeOK
<1>1. ASSUME UNCHANGED <<rx, got>> PROVE InOrder'
  BY <1>1 DEF InOrder, Live
<1>2. ASSUME UNCHANGED rx, got' = <<>> PROVE InOrder'
  BY <1>0, <1>2 DEF InOrder, Live
<1>3. ASSUME NEW f \in Fragments, Fetch(f), ~spoilt PROVE InOrder'
  <2>1. /\ rx'[Len(rx) + 1] = Stored(f) /\ \A i \in 1 .. Len(rx) : rx'[i] = rx[i]
        /\ Live(0)' = Live(0) \cup {Len(rx) + 1} /\ got' = got
    BY <1>3, FetchAdds, FetchFrame
  <2>2. ASSUME NEW i \in Live(0)', NEW k \in Live(0)', i < k PROVE Before(rx'[i], rx'[k])
    <3>1. i \in Live(0) /\ rx'[i] = rx[i]
      BY <1>0, <2>1, <2>2
    <3>2. CASE k \in Live(0)
      BY <1>0, <2>1, <2>2, <3>1, <3>2 DEF InOrder
    <3>3. CASE k = Len(rx) + 1
      BY <2>1, <3>1, <3>3, FragmentAfter, StockPackets
    <3> QED
      BY <2>1, <3>2, <3>3
  <2>3. ASSUME NEW i \in 1 .. Len(got), NEW k \in Live(0)' PROVE Before(got[i], rx'[k])
    <3>1. CASE k \in Live(0)
      BY <1>0, <2>1, <3>1 DEF InOrder
    <3>2. CASE k = Len(rx) + 1
      BY <2>1, <3>2, FragmentAfter, StockPackets
    <3> QED
      BY <2>1, <3>1, <3>2
  <2> QED
    BY <2>1, <2>2, <2>3 DEF InOrder
<1>4. CASE ReadPacket /\ Taken
  <2> DEFINE p == rx[ridx]
  <2>1. /\ ridx \in Live(0) /\ got' = Append(got, p) /\ Dispose(ridx)
        /\ rconn \in {NoConn, p.conn} /\ rpc = "read"
    BY <1>4, ReadPacketCases DEF Taken
  <2>2. PICK n : Moved(n, ridx)
    BY <2>1, DisposeMoves
  <2>3. p \in Packet
    BY <1>0, <2>1, ElementOfSeq
  <2>4. \A k \in Live(0) \ {ridx} : Before(p, rx[k])
    <3> TAKE k \in Live(0) \ {ridx}
    <3>1. CASE k > ridx
      BY <2>1, <3>1 DEF InOrder
    <3>2. CASE k < ridx
      <4>1. rconn # NoConn /\ rx[k].conn # rconn
        BY <2>1, <3>2 DEF EndAhead
      <4> QED
        BY <2>1, <4>1 DEF Before
    <3> QED
      BY <1>0, <2>1, <3>1, <3>2
  <2>5. \A i \in 1 .. Len(got) : Before(got[i], p)
    BY <2>1 DEF InOrder
  <2> HIDE DEF p
  <2>6. /\ Len(got') = Len(got) + 1 /\ got'[Len(got) + 1] = p
        /\ \A i \in 1 .. Len(got) : got'[i] = got[i]
    BY <1>0, <2>1, <2>3, AppendProperties
  <2>7. ASSUME NEW i \in Live(0)', NEW k \in Live(0)', i < k PROVE Before(rx'[i], rx'[k])
    <3>1. /\ i + n \in Live(0) /\ rx'[i] = rx[i + n] /\ k + n \in Live(0) /\ rx'[k] = rx[k + n]
          /\ n \in Nat
      BY <2>2 DEF Moved
    <3>2. i \in Int /\ k \in Int
      BY DEF Live
    <3>3. i + n < k + n
      BY <2>7, <3>1, <3>2
    <3> QED
      BY <3>1, <3>3 DEF InOrder
  <2>8. ASSUME NEW i \in 1 .. Len(got'), NEW k \in Live(0)' PROVE Before(got'[i], rx'[k])
    <3>1. k + n \in Live(0) \ {ridx} /\ rx'[k] = rx[k + n]
      BY <2>2 DEF Moved
    <3>2. CASE i \in 1 .. Len(got)
      BY <2>6, <3>1, <3>2 DEF InOrder
    <3>3. CASE i = Len(got) + 1
      BY <2>4, <2>6, <3>1, <3>3
    <3> QED
      BY <1>0, <2>6, <3>2, <3>3
  <2>9. ASSUME NEW i \in 1 .. Len(got'), NEW k \in 1 .. Len(got'), i < k
        PROVE  Before(got'[i], got'[k])
    <3>1. i \in 1 .. Len(got) /\ got'[i] = got[i]
      BY <1>0, <2>6, <2>9
    <3>2. CASE k \in 1 .. Len(got)
      BY <2>6, <2>9, <3>1, <3>2 DEF InOrder
    <3>3. CASE k = Len(got) + 1
      BY <2>5, <2>6, <3>1, <3>3
    <3> QED
      BY <1>0, <2>6, <3>2, <3>3
  <2> QED
    BY <2>7, <2>8, <2>9 DEF InOrder
<1>5. CASE OtherCase
  BY <1>1, <1>5, RingFrame
<1>6. CASE FetchRest
  BY <1>1, <1>6, FetchRestFrame
<1>7. CASE ReadAside \/ ReadEnd
  BY <1>1, <1>2, <1>7, AsideFrame, EndFrame
<1>8. CASE ReadCondition
  BY <1>1, <1>2, <1>8, ConditionCases
<1>9. CASE ReadPacket /\ Passed
  BY <1>1, <1>9 DEF Passed
<1>10. ASSUME NEW f \in Fragments, Fetch(f), spoilt PROVE InOrder'
  BY <1>1, <1>10, FetchFrame
<1> QED
  BY <1>3, <1>4, <1>5, <1>6, <1>7, <1>8, <1>9, <1>10, NextCases, ReadPacketCases
     DEF OtherCase, FetchCase, ReadCase
-----------------------------------------------------------------------------
(* The steps by what they do to the packets that are held: they keep them,  *)
(* add one, return a message, or throw what was read of one away.           *)
KeepStep ==
  /\ Stock' = Stock /\ UNCHANGED lastGot
  /\ \/ /\ UNCHANGED <<cur, sent>>
        /\ damaged \subseteq damaged' /\ damaged' \subseteq damaged \cup {q.msg : q \in Stock}
     \/ LinkReset
     \/ \E f \in Fragments : Sent(f) /\ damaged' = damaged \cup {f.msg}
AddStep(f) == Stock' = Stock \cup {Stored(f)} /\ Sent(f) /\ UNCHANGED <<lastGot, damaged>>
ReturnStep ==
  /\ rpc = "done" /\ Stock' = {rx[k] : k \in Live(0)}
  /\ lastGot' = [lastGot EXCEPT ![rconn] = got[Len(got)].msg]
  /\ UNCHANGED <<cur, sent, damaged>>
LoseStep ==
  /\ Stock' = {rx[k] : k \in Live(0)}
  /\ damaged' = damaged \cup {got[k].msg : k \in 1 .. Len(got)}
  /\ UNCHANGED <<cur, sent, lastGot>>

LEMMA StockCases ==
  ASSUME TypeOK, EndAhead, GotSoFar, Next
  PROVE  KeepStep \/ (\E f \in Fragments : AddStep(f)) \/ ReturnStep \/ LoseStep
<1>0. ASSUME UNCHANGED rx, got' = <<>> PROVE Stock' = {rx[k] : k \in Live(0)}
  BY <1>0, EmptySeq DEF Stock, Live
<1>1. CASE OtherCase
  BY <1>1, RingFrame, CamFrame, StockSame DEF KeepStep
<1>2. ASSUME NEW f \in Fragments, Fetch(f), ~spoilt PROVE AddStep(f)
  BY <1>2, StockFetched, FetchFrame DEF AddStep
<1>3. ASSUME NEW f \in Fragments, Fetch(f), spoilt PROVE KeepStep
  BY <1>3, FetchFrame, StockSame DEF KeepStep
<1>4. CASE FetchRest
  BY <1>4, FetchRestFrame, StockSame DEF KeepStep
<1>5. CASE ReadAside
  BY <1>5, AsideFrame, StockSame DEF KeepStep
<1>6. CASE ReadEnd
  <2>1. UNCHANGED <<rx, cur, sent>> /\ got' = <<>>
    BY <1>6, EndFrame
  <2>2. CASE rpc = "done" /\ UNCHANGED damaged /\ lastGot' = [lastGot EXCEPT ![rconn] = got[Len(got)].msg]
    BY <1>0, <2>1, <2>2 DEF ReturnStep
  <2>3. CASE UNCHANGED lastGot /\ damaged' = damaged \cup {got[k].msg : k \in 1 .. Len(got)}
    BY <1>0, <2>1, <2>3 DEF LoseStep
  <2> QED
    BY <1>6, <2>2, <2>3, EndFrame
<1>7. CASE ReadCondition
  <2>1. UNCHANGED rx /\ got = <<>> /\ got' \in {<<>>, got}
    BY <1>7, ConditionCases DEF GotSoFar
  <2> QED
    BY <1>7, <2>1, ConditionCases, StockSame DEF KeepStep
<1>8. CASE ReadPacket
  <2>1. rx[ridx] \in Stock
    BY <1>8, ReadPacketCases, StockPackets
  <2>2. damaged \subseteq damaged' /\ damaged' \subseteq damaged \cup {q.msg : q \in Stock}
    BY <1>8, <2>1, ReadPacketCases DEF Taken, Passed
  <2> QED
    BY <1>8, <2>2, StockRead, ReadPacketCases DEF KeepStep
<1> QED
  BY <1>1, <1>2, <1>3, <1>4, <1>5, <1>6, <1>7, <1>8, NextCases DEF OtherCase, FetchCase, ReadCase

(* A fragment that is sent, by what it is of.                               *)
LEMMA SentCases ==
  ASSUME TypeOK, NEW f \in Fragments, Sent(f)
  PROVE  /\ f.conn \in Conn /\ f.msg \in 1 .. MaxMsg
         /\ \A c \in Conn \ {f.conn} : cur'[c] = cur[c]
         /\ \/ /\ cur[f.conn] # None /\ f.msg = cur[f.conn] /\ ~f.first /\ f.last
               /\ cur'[f.conn] = None /\ sent' = sent
            \/ /\ cur[f.conn] = None /\ f.msg = sent + 1 /\ f.first /\ sent' = sent + 1
               /\ cur'[f.conn] = IF f.last THEN None ELSE f.msg
<1>1. /\ f.conn \in Conn /\ f.msg \in 1 .. MaxMsg
      /\ \/ cur[f.conn] # None /\ f.msg = cur[f.conn] /\ ~f.first /\ f.last
         \/ cur[f.conn] = None /\ f.msg = sent + 1 /\ f.first
  BY DEF Fragments
<1>2. /\ \A c \in Conn \ {f.conn} : cur'[c] = cur[c]
      /\ cur'[f.conn] = IF f.last THEN None ELSE f.msg
      /\ sent' = IF f.first THEN f.msg ELSE sent
  BY <1>1 DEF Sent, TypeOK
<1> QED
  BY <1>1, <1>2

(* Messages are numbered.                                                   *)
LEMMA NumberedNext ==
  ASSUME TypeOK, EndAhead, GotSoFar, InOrder, Numbered, Next
  PROVE  Numbered'
<1>0. /\ \A q \in Stock : q \in Packet /\ q.conn \in Conn /\ q.msg \in Nat \ {0}
      /\ \A c \in Conn : cur[c] \in Nat /\ lastGot[c] \in Nat
      /\ sent \in Nat
  BY StockPackets, CaAssumption DEF TypeOK, Packet
<1>a. \A k, m : After(k, m) => After(k, m)'
  BY DamagedGrows DEF After
<1>1. CASE KeepStep
  <2>1. CASE UNCHANGED <<cur, sent>>
    BY <1>a, <1>1, <2>1 DEF KeepStep, Numbered
  <2>2. CASE LinkReset
    BY <1>0, <1>a, <1>1, <2>2 DEF KeepStep, Numbered, LinkReset, None
  <2>3. ASSUME NEW f \in Fragments, Sent(f) PROVE Numbered'
    <3>1. /\ \A c \in Conn \ {f.conn} : cur'[c] = cur[c]
          /\ cur'[f.conn] = None \/ cur'[f.conn] = sent + 1
          /\ sent' >= sent /\ sent' \in Nat /\ (cur'[f.conn] # None => sent' = sent + 1)
      BY <1>0, <2>3, SentCases DEF None
    <3>2. ASSUME NEW q \in Stock
          PROVE  /\ q.msg <= sent' /\ After(lastGot[q.conn], q.msg)'
                 /\ cur'[q.conn] # None => q.msg <= cur'[q.conn] /\ (q.msg = cur'[q.conn] => ~q.last)
      <4>1. q.msg <= sent /\ After(lastGot[q.conn], q.msg)'
        BY <1>a, <1>1 DEF Numbered, KeepStep
      <4>2. CASE q.conn = f.conn
        BY <1>0, <3>1, <4>1, <4>2
      <4>3. CASE q.conn # f.conn
        BY <1>0, <3>1, <4>1, <4>3 DEF Numbered
      <4> QED
        BY <4>2, <4>3
    <3>3. ASSUME NEW c \in Conn
          PROVE  /\ lastGot[c] <= sent' /\ cur'[c] <= sent'
                 /\ cur'[c] # None => After(lastGot[c], cur[c])'
      <4>1. lastGot[c] <= sent /\ cur[c] <= sent
        BY DEF Numbered
      <4>2. CASE c = f.conn
        BY <1>0, <1>1, <3>1, <4>1, <4>2 DEF None, After, KeepStep
      <4>3. CASE c # f.conn
        BY <1>0, <1>a, <1>1, <3>1, <4>1, <4>3 DEF Numbered, KeepStep
      <4> QED
        BY <4>2, <4>3
    <3> QED
      BY <1>1, <3>2, <3>3 DEF KeepStep, Numbered
  <2> QED
    BY <1>1, <2>1, <2>2, <2>3 DEF KeepStep
<1>2. ASSUME NEW f \in Fragments, AddStep(f) PROVE Numbered'
  <2>1. /\ f.conn \in Conn /\ f.msg \in Nat
        /\ \A c \in Conn \ {f.conn} : cur'[c] = cur[c]
        /\ \/ /\ cur[f.conn] # None /\ f.msg = cur[f.conn] /\ ~f.first /\ f.last
              /\ cur'[f.conn] = None /\ sent' = sent
           \/ /\ cur[f.conn] = None /\ f.msg = sent + 1 /\ f.first /\ sent' = sent + 1
              /\ cur'[f.conn] = IF f.last THEN None ELSE f.msg
    BY <1>2, SentCases, CaAssumption DEF AddStep
  <2>2. /\ sent' >= sent /\ sent' \in Nat /\ f.msg <= sent' /\ After(lastGot[f.conn], f.msg)
        /\ UNCHANGED <<lastGot, damaged>>
    BY <1>0, <1>2, <2>1 DEF Numbered, After, AddStep
  <2>3. ASSUME NEW q \in Stock
        PROVE  /\ q.msg <= sent' /\ After(lastGot[q.conn], q.msg)
               /\ cur'[q.conn] # None => q.msg <= cur'[q.conn] /\ (q.msg = cur'[q.conn] => ~q.last)
    <3>1. q.msg <= sent /\ After(lastGot[q.conn], q.msg)
      BY DEF Numbered
    <3>2. CASE q.conn = f.conn
      BY <1>0, <2>1, <2>2, <3>1, <3>2
    <3>3. CASE q.conn # f.conn
      BY <1>0, <2>1, <2>2, <3>1, <3>3 DEF Numbered
    <3> QED
      BY <3>2, <3>3
  <2>4. LET q == Stored(f)
        IN /\ q.msg <= sent' /\ After(lastGot[q.conn], q.msg)
           /\ cur'[q.conn] # None => q.msg <= cur'[q.conn] /\ (q.msg = cur'[q.conn] => ~q.last)
    BY <2>1, <2>2 DEF Stored
  <2>5. ASSUME NEW c \in Conn
        PROVE  /\ lastGot[c] <= sent' /\ cur'[c] <= sent'
               /\ cur'[c] # None => After(lastGot[c], cur'[c])
    <3>1. lastGot[c] <= sent /\ cur[c] <= sent
      BY DEF Numbered
    <3>2. CASE c = f.conn
      BY <1>0, <2>1, <2>2, <3>1, <3>2 DEF None
    <3>3. CASE c # f.conn
      BY <1>0, <2>1, <2>2, <3>1, <3>3 DEF Numbered
    <3> QED
      BY <3>2, <3>3
  <2> QED
    BY <1>2, <2>2, <2>3, <2>4, <2>5 DEF AddStep, Numbered, After
<1>3. CASE ReturnStep
  <2> DEFINE g == got[Len(got)]
  <2>1. Len(got) \in Nat /\ Len(got) # 0
    BY <1>3, LenProperties, EmptySeq DEF TypeOK, GotSoFar, ReturnStep
  <2>2. g \in Stock /\ g.conn = rconn /\ (g.last \/ g.msg \in damaged)
    BY <1>3, <2>1 DEF ReturnStep, GotSoFar, Stock
  <2>3. /\ g.msg <= sent /\ rconn \in Conn /\ g.msg \in Nat
        /\ cur[rconn] # None => After(g.msg, cur[rconn])
    BY <1>0, <2>2 DEF Numbered, After
  <2>4. \A k \in Live(0) : Before(g, rx[k])
    BY <2>1 DEF InOrder
  <2>5. \A c \in Conn : lastGot'[c] = IF c = rconn THEN g.msg ELSE lastGot[c]
    BY <1>3, <2>3 DEF ReturnStep, TypeOK
  <2>6. UNCHANGED damaged
    BY <1>3 DEF ReturnStep
  <2> HIDE DEF g
  <2>7. Stock' \subseteq Stock /\ \A q \in Stock' : Before(g, q)
    BY <1>3, <2>4, StockPackets DEF ReturnStep
  <2>8. ASSUME NEW q \in Stock' PROVE After(lastGot'[q.conn], q.msg)
    <3>1. q \in Stock /\ q.conn \in Conn /\ q.msg \in Nat
      BY <1>0, <2>7
    <3>2. CASE q.conn = rconn
      BY <2>2, <2>3, <2>5, <2>7, <3>1, <3>2 DEF Before, After
    <3>3. CASE q.conn # rconn
      BY <2>5, <3>1, <3>3 DEF Numbered
    <3> QED
      BY <3>2, <3>3
  <2>9. ASSUME NEW c \in Conn, cur[c] # None PROVE After(lastGot'[c], cur[c])
    BY <2>3, <2>5, <2>9 DEF Numbered
  <2> QED
    BY <1>3, <2>3, <2>5, <2>6, <2>7, <2>8, <2>9 DEF ReturnStep, Numbered, After
<1>4. CASE LoseStep
  <2>1. Stock' \subseteq Stock
    BY <1>4, StockPackets DEF LoseStep
  <2> QED
    BY <1>a, <1>4, <2>1 DEF LoseStep, Numbered
<1> QED
  BY <1>1, <1>2, <1>3, <1>4, StockCases

(* No fragment of a message that is not damaged is missing.                 *)
LEMMA StockWholeNext ==
  ASSUME TypeOK, EndAhead, GotSoFar, InOrder, StockWhole, Numbered, Next
  PROVE  StockWhole'
<1>0. /\ \A q \in Stock : q \in Packet /\ q.conn \in Conn /\ q.msg \in Nat \ {0}
      /\ \A c \in Conn : cur[c] \in Nat
      /\ sent \in Nat
  BY StockPackets, CaAssumption DEF TypeOK, Packet
<1>1. CASE KeepStep
  <2>2. ASSUME damaged \subseteq damaged',
               \A c \in Conn : cur'[c] = cur[c] \/ (cur'[c] \in {None} \cup damaged'
                                                    /\ cur[c] \in {None} \cup damaged')
        PROVE  StockWhole'
    <3>1. ASSUME NEW q \in Stock, ~q.last, q.msg \notin damaged'
          PROVE  cur'[q.conn] = q.msg \/ \E p \in Stock : SameMessage(p, q) /\ p.last
      BY <1>0, <2>2, <3>1 DEF StockWhole, None
    <3>2. ASSUME NEW q \in Stock, ~q.first, q.msg \notin damaged'
          PROVE  \E p \in Stock : SameMessage(p, q) /\ p.first /\ ~p.last
      BY <2>2, <3>2 DEF StockWhole
    <3>3. ASSUME NEW c \in Conn, cur'[c] \notin {None} \cup damaged'
          PROVE  \E p \in Stock : p.conn = c /\ p.msg = cur'[c] /\ p.first /\ ~p.last
      BY <2>2, <3>3 DEF StockWhole
    <3>4. \A q \in Stock : q.first \/ q.last
      BY DEF StockWhole
    <3> QED
      BY <1>1, <3>1, <3>2, <3>3, <3>4 DEF KeepStep, StockWhole, SameMessage
  <2>1. CASE UNCHANGED <<cur, sent>> /\ damaged \subseteq damaged'
    BY <2>1, <2>2
  <2>3. CASE LinkReset
    BY <2>2, <2>3 DEF LinkReset
  <2>4. ASSUME NEW f \in Fragments, Sent(f), damaged' = damaged \cup {f.msg} PROVE StockWhole'
    <3>1. ASSUME NEW c \in Conn
          PROVE  cur'[c] = cur[c] \/ (cur'[c] \in {None} \cup damaged'
                                      /\ cur[c] \in {None} \cup damaged')
      BY <2>4, SentCases
    <3> QED
      BY <2>2, <2>4, <3>1
  <2> QED
    BY <1>1, <2>1, <2>3, <2>4 DEF KeepStep
<1>2. ASSUME NEW f \in Fragments, AddStep(f) PROVE StockWhole'
  <2> DEFINE s == Stored(f)
  <2>1. /\ f.conn \in Conn /\ f.msg \in Nat
        /\ \A c \in Conn \ {f.conn} : cur'[c] = cur[c]
        /\ \/ /\ cur[f.conn] # None /\ f.msg = cur[f.conn] /\ ~f.first /\ f.last
              /\ cur'[f.conn] = None /\ sent' = sent
           \/ /\ cur[f.conn] = None /\ f.msg = sent + 1 /\ f.first /\ sent' = sent + 1
              /\ cur'[f.conn] = IF f.last THEN None ELSE f.msg
    BY <1>2, SentCases, CaAssumption DEF AddStep
  <2>2. s.conn = f.conn /\ s.msg = f.msg /\ s.first = f.first /\ s.last = f.last
    BY DEF Stored
  <2>3. Stock' = Stock \cup {s} /\ damaged' = damaged
    BY <1>2 DEF AddStep
  <2> HIDE DEF s
  <2>4. \A q \in Stock' : q.first \/ q.last
    BY <2>1, <2>2, <2>3 DEF StockWhole
  <2>5. ASSUME NEW q \in Stock', ~q.first, q.msg \notin damaged
        PROVE  \E p \in Stock' : SameMessage(p, q) /\ p.first /\ ~p.last
    <3>1. CASE q \in Stock
      BY <2>3, <2>5, <3>1 DEF StockWhole
    <3>2. CASE q = s
      BY <2>1, <2>2, <2>3, <2>5, <3>2 DEF StockWhole, SameMessage
    <3> QED
      BY <2>3, <3>1, <3>2
  <2>6. ASSUME NEW q \in Stock', ~q.last, q.msg \notin damaged
        PROVE  cur'[q.conn] = q.msg \/ \E p \in Stock' : SameMessage(p, q) /\ p.last
    <3>1. CASE q \in Stock
      <4>1. CASE \E p \in Stock : SameMessage(p, q) /\ p.last
        BY <2>3, <4>1
      <4>2. CASE cur[q.conn] = q.msg
        <5>1. CASE q.conn = f.conn
          <6>1. cur[f.conn] # None
            BY <1>0, <3>1, <4>2, <5>1 DEF None
          <6>2. SameMessage(s, q) /\ s.last
            BY <2>1, <2>2, <4>2, <5>1, <6>1 DEF SameMessage
          <6> QED
            BY <2>3, <6>2
        <5>2. CASE q.conn # f.conn
          BY <1>0, <2>1, <3>1, <4>2, <5>2
        <5> QED
          BY <5>1, <5>2
      <4> QED
        BY <2>6, <3>1, <4>1, <4>2 DEF StockWhole
    <3>2. CASE q = s
      BY <2>1, <2>2, <2>6, <3>2
    <3> QED
      BY <2>3, <3>1, <3>2
  <2>7. ASSUME NEW c \in Conn, cur'[c] \notin {None} \cup damaged
        PROVE  \E p \in Stock' : p.conn = c /\ p.msg = cur'[c] /\ p.first /\ ~p.last
    <3>1. CASE c = f.conn
      <4>1. f.first /\ ~f.last /\ cur'[c] = f.msg
        BY <2>1, <2>7, <3>1
      <4> QED
        BY <2>2, <2>3, <3>1, <4>1
    <3>2. CASE c # f.conn
      BY <2>1, <2>3, <2>7, <3>2 DEF StockWhole
    <3> QED
      BY <3>1, <3>2
  <2> QED
    BY <2>3, <2>4, <2>5, <2>6, <2>7 DEF StockWhole, SameMessage
<1>3. CASE ReturnStep
  <2> DEFINE g == got[Len(got)]
             Had == {got[i] : i \in 1 .. Len(got)}
  <2>1. Len(got) \in Nat /\ Len(got) # 0
    BY <1>3, LenProperties, EmptySeq DEF TypeOK, GotSoFar, ReturnStep
  <2>2. g \in Stock /\ g \in Had /\ g.conn = rconn /\ (g.last \/ g.msg \in damaged)
    BY <1>3, <2>1 DEF ReturnStep, GotSoFar, Stock
  <2>3. Stock = Stock' \cup Had /\ Had \subseteq Stock
    BY <1>3 DEF ReturnStep, Stock
  <2>4. \A q \in Stock', p \in Had : Before(p, q)
    BY <1>3 DEF ReturnStep, InOrder
  <2>5. ASSUME NEW p \in Had, ~p.last, p.msg \notin damaged PROVE Before(p, g) /\ p.conn = rconn
    <3>1. PICK i \in 1 .. Len(got) : p = got[i]
      OBVIOUS
    <3>2. i # Len(got)
      BY <2>2, <2>5, <3>1
    <3>3. i < Len(got) /\ Len(got) \in 1 .. Len(got)
      BY <2>1, <3>1, <3>2
    <3> QED
      BY <3>1, <3>3 DEF InOrder, GotSoFar
  <2> HIDE DEF g, Had
  <2>6. UNCHANGED <<cur, damaged>>
    BY <1>3 DEF ReturnStep
  <2>7. ASSUME NEW q \in Stock', ~q.first, q.msg \notin damaged
        PROVE  \E p \in Stock' : SameMessage(p, q) /\ p.first /\ ~p.last
    <3>1. PICK p \in Stock : SameMessage(p, q) /\ p.first /\ ~p.last
      BY <2>3, <2>7 DEF StockWhole
    <3>2. p \notin Had
      <4> SUFFICES ASSUME p \in Had PROVE FALSE
        OBVIOUS
      <4>1. Before(p, g) /\ p.conn = rconn /\ Before(g, q)
        BY <2>2, <2>4, <2>5, <2>7, <3>1 DEF SameMessage
      <4>2. p.msg <= g.msg /\ g.msg <= q.msg /\ q.msg = p.msg
        BY <2>2, <3>1, <4>1 DEF Before, SameMessage
      <4>3. g.msg = q.msg
        BY <1>0, <2>2, <2>3, <4>2
      <4>4. g.last
        BY <2>2, <2>7, <4>3
      <4> QED
        BY <2>2, <3>1, <4>1, <4>3, <4>4 DEF Before, SameMessage
    <3> QED
      BY <2>3, <3>1, <3>2
  <2>8. ASSUME NEW q \in Stock', ~q.last, q.msg \notin damaged
        PROVE  cur[q.conn] = q.msg \/ \E p \in Stock' : SameMessage(p, q) /\ p.last
    BY <2>3, <2>4, <2>8 DEF StockWhole, Before, SameMessage
  <2>9. ASSUME NEW c \in Conn, cur[c] \notin {None} \cup damaged
        PROVE  \E p \in Stock' : p.conn = c /\ p.msg = cur[c] /\ p.first /\ ~p.last
    <3>1. PICK p \in Stock : p.conn = c /\ p.msg = cur[c] /\ p.first /\ ~p.last
      BY <2>9 DEF StockWhole
    <3>2. p \notin Had
      <4> SUFFICES ASSUME p \in Had PROVE FALSE
        OBVIOUS
      <4>1. Before(p, g) /\ p.conn = rconn
        BY <2>5, <2>9, <3>1
      <4>2. p.msg <= g.msg /\ g.msg <= cur[c] /\ (g.msg = cur[c] => ~g.last)
        BY <2>2, <2>9, <3>1, <4>1 DEF Before, Numbered
      <4>3. g.msg = cur[c]
        BY <1>0, <2>2, <3>1, <4>2
      <4> QED
        BY <2>2, <2>9, <4>2, <4>3
    <3> QED
      BY <2>3, <3>1, <3>2
  <2>10. \A q \in Stock' : q.first \/ q.last
    BY <2>3 DEF StockWhole
  <2> QED
    BY <2>6, <2>7, <2>8, <2>9, <2>10 DEF StockWhole, SameMessage
<1>4. CASE LoseStep
  <2>1. /\ \A q \in Stock : q \in Stock' \/ q.msg \in damaged'
        /\ damaged \subseteq damaged' /\ UNCHANGED cur /\ Stock' \subseteq Stock
    BY <1>4 DEF LoseStep, Stock
  <2>2. ASSUME NEW q \in Stock', ~q.first, q.msg \notin damaged'
        PROVE  \E p \in Stock' : SameMessage(p, q) /\ p.first /\ ~p.last
    BY <2>1, <2>2 DEF StockWhole, SameMessage
  <2>3. ASSUME NEW q \in Stock', ~q.last, q.msg \notin damaged'
        PROVE  cur[q.conn] = q.msg \/ \E p \in Stock' : SameMessage(p, q) /\ p.last
    BY <2>1, <2>3 DEF StockWhole, SameMessage
  <2>4. ASSUME NEW c \in Conn, cur[c] \notin {None} \cup damaged'
        PROVE  \E p \in Stock' : p.conn = c /\ p.msg = cur[c] /\ p.first /\ ~p.last
    BY <2>1, <2>4 DEF StockWhole
  <2> QED
    BY <2>1, <2>2, <2>3, <2>4 DEF StockWhole, SameMessage
<1> QED
  BY <1>1, <1>2, <1>3, <1>4, StockCases
-----------------------------------------------------------------------------
(* The types, in parts.                                                     *)
FlagsTyped ==
  /\ late \in BOOLEAN /\ spoilt \in BOOLEAN /\ tlast \in BOOLEAN /\ open \in BOOLEAN
  /\ exit \in BOOLEAN /\ present \in BOOLEAN /\ ready \in BOOLEAN /\ missed \in BOOLEAN
  /\ misled \in BOOLEAN
PlacesTyped ==
  /\ slot_state \in States /\ ctrl \in {"off", "on", "ts"} /\ users \in {0, 1}
  /\ tpc \in {"idle", "switch", "fetch", "rest", "wake", "stopped"}
  /\ fd \in {"closed", "open", "closing"} /\ rel \in {"no", "wait", "stopped", "gone"}
  /\ rpc \in {"idle", "cond", "asleep", "read", "done", "garbage"} /\ half \in {"no", "data", "flag"}
  /\ wpc \in {"idle", "test", "lock"}
CountsTyped == wleft \in 0 .. MaxFrag /\ events \in 0 .. MaxEvent /\ stray \in Nat
RingTyped ==
  /\ rx \in Seq(Packet) /\ Len(rx) <= RxSize
  /\ ridx \in 0 .. RxSize /\ rconn \in Conn \cup {NoConn} /\ got \in Seq(Packet)
  /\ lastGot \in [Conn -> 0 .. MaxMsg]
CamTyped ==
  cur \in [Conn -> 0 .. MaxMsg] /\ sent \in 0 .. MaxMsg /\ damaged \subseteq 1 .. MaxMsg

LEMMA TypeParts == TypeOK <=> FlagsTyped /\ PlacesTyped /\ CountsTyped /\ RingTyped /\ CamTyped
BY DEF TypeOK, FlagsTyped, PlacesTyped, CountsTyped, RingTyped, CamTyped

LEMMA FlagsTypedNext ==
  ASSUME FlagsTyped, Next
  PROVE  FlagsTyped'
<1> USE DEF FlagsTyped, slotVars, ringVars, threadVars, fileVars, readVars, writeVars,
        camVars, SlotShutdown, WakeReader, Pass, In, WriteFails, CamReset, slot_reset, slot_shutdown,
        slot_ts_enable, Sent, LinkReset
<1>1. CASE CamCase
  BY <1>1 DEF CamCase, Insert, Remove, CamReady, TimeUp
<1>2. CASE Poll
  BY <1>2 DEF Poll, Unchanged
<1>3. CASE NothingToDo \/ ResetSlot \/ NotReady \/ LinkFree
  BY <1>3 DEF NothingToDo, ResetSlot, NotReady, LinkFree
<1>4. CASE Validate \/ LinkInit
  BY <1>4 DEF Validate, LinkInit
<1>5. CASE BeginFetch \/ NoPacket \/ ReadError \/ FetchDone
  BY <1>5 DEF BeginFetch, NoPacket, ReadError, FetchDone
<1>6. CASE FetchCase
  <2>1. CASE FetchRest
    BY <2>1 DEF FetchRest
  <2>2. ASSUME NEW f \in Fragments, Fetch(f) PROVE FlagsTyped'
    <3>1. f.last \in BOOLEAN
      BY DEF Fragments
    <3>2. tlast' \in BOOLEAN
      BY <2>2, <3>1 DEF Fetch
    <3> QED
      BY <2>2, <3>2 DEF Fetch
  <2> QED
    BY <1>6, <2>1, <2>2 DEF FetchCase
<1>7. CASE ReadAside
  <2>1. CASE ReadCall \/ ReadSignal
    BY <2>1 DEF ReadCall, ReadSignal
  <2>2. CASE ReadGarbage \/ ReturnGarbage
    BY <2>2 DEF ReadGarbage, ReturnGarbage
  <2> QED
    BY <1>7, <2>1, <2>2 DEF ReadAside
<1>13. CASE ReadEnd
  BY <1>13 DEF ReadEnd, ReadFault, ReadEnded, ReadFails, ReadReturn
<1>8. CASE ReadCondition
  BY <1>8 DEF ReadCondition
<1>9. CASE ReadPacket
  BY <1>9 DEF ReadPacket
<1>10. CASE WriteStep \/ WriteTimeout \/ WriteTest
  BY <1>10 DEF WriteStep, WriteCall, WriteTimeout, WriteTest
<1>11. CASE WriteData \/ WriteAgain \/ WriteError
  BY <1>11 DEF WriteData, WriteAgain, WriteError
<1>12. CASE FileCase
  <2>1. CASE ResetIoctl \/ ReleaseSlot
    BY <2>1 DEF ResetIoctl, ReleaseSlot
  <2>2. CASE Open \/ Close \/ CloseEnd
    BY <2>2 DEF Open, Close, CloseEnd
  <2>3. CASE Release \/ StopThread
    BY <2>3 DEF Release, StopThread
  <2> QED
    BY <1>12, <2>1, <2>2, <2>3 DEF FileCase
<1> QED
  BY <1>1, <1>2, <1>3, <1>4, <1>5, <1>6, <1>7, <1>8, <1>9, <1>10, <1>11, <1>12, <1>13,
     NextCases DEF SlotCase, WriteCase, ReadCase

LEMMA PlacesTypedNext ==
  ASSUME PlacesTyped, Next
  PROVE  PlacesTyped'
<1> USE DEF PlacesTyped, States, slotVars, ringVars, threadVars, fileVars, readVars, writeVars,
        camVars, SlotShutdown, WakeReader, Pass, In, WriteFails, CamReset, slot_reset, slot_shutdown,
        slot_ts_enable, Sent
<1>1. CASE CamCase
  BY <1>1 DEF CamCase, Insert, Remove, CamReady, TimeUp
<1>2. CASE Poll
  BY <1>2 DEF Poll, Unchanged
<1>3. CASE NothingToDo \/ ResetSlot \/ NotReady \/ LinkFree
  BY <1>3 DEF NothingToDo, ResetSlot, NotReady, LinkFree
<1>4. CASE Validate \/ LinkInit
  BY <1>4 DEF Validate, LinkInit
<1>5. CASE BeginFetch \/ NoPacket \/ ReadError \/ FetchDone
  BY <1>5 DEF BeginFetch, NoPacket, ReadError, FetchDone
<1>6. CASE FetchCase
  BY <1>6 DEF FetchCase, Fetch, Store, FetchRest
<1>7. CASE ReadAside \/ ReadEnd
  BY <1>7 DEF ReadAside, ReadEnd, ReadCall, ReadSignal, ReadGarbage, ReturnGarbage, ReadFault,
     ReadEnded, ReadFails, ReadReturn
<1>8. CASE ReadCondition
  BY <1>8 DEF ReadCondition
<1>9. CASE ReadPacket
  BY <1>9 DEF ReadPacket
<1>10. CASE WriteStep \/ WriteTimeout \/ WriteTest
  BY <1>10 DEF WriteStep, WriteCall, WriteTimeout, WriteTest
<1>11. CASE WriteData \/ WriteAgain \/ WriteError
  BY <1>11 DEF WriteData, WriteAgain, WriteError
<1>12. CASE FileCase
  BY <1>12 DEF FileCase, ResetIoctl, Open, Close, CloseEnd, Release, StopThread, ReleaseSlot
<1> QED
  BY <1>1, <1>2, <1>3, <1>4, <1>5, <1>6, <1>7, <1>8, <1>9, <1>10, <1>11, <1>12,
     NextCases DEF SlotCase, WriteCase, ReadCase

LEMMA CountsTypedNext ==
  ASSUME CountsTyped, WriteCounted, Next
  PROVE  CountsTyped' /\ WriteCounted'
<1> USE CaAssumption
    DEF CountsTyped, WriteCounted, Event, slotVars, ringVars, threadVars, fileVars, readVars,
        writeVars, camVars, SlotShutdown, WakeReader, Pass, In, WriteFails, CamReset, slot_reset,
        slot_shutdown, slot_ts_enable, Sent
<1>1. CASE CamCase
  BY <1>1 DEF CamCase, Insert, Remove, CamReady, TimeUp
<1>2. CASE Poll
  BY <1>2 DEF Poll, Unchanged
<1>3. CASE NothingToDo \/ ResetSlot \/ NotReady \/ LinkFree
  BY <1>3 DEF NothingToDo, ResetSlot, NotReady, LinkFree
<1>4. CASE Validate \/ LinkInit
  BY <1>4 DEF Validate, LinkInit
<1>5. CASE BeginFetch \/ NoPacket \/ ReadError \/ FetchDone
  BY <1>5 DEF BeginFetch, NoPacket, ReadError, FetchDone
<1>6. CASE FetchCase
  BY <1>6 DEF FetchCase, Fetch, Store, FetchRest
<1>7. CASE ReadAside \/ ReadEnd
  BY <1>7 DEF ReadAside, ReadEnd, ReadCall, ReadSignal, ReadGarbage, ReturnGarbage, ReadFault,
     ReadEnded, ReadFails, ReadReturn
<1>8. CASE ReadCondition
  BY <1>8 DEF ReadCondition
<1>9. CASE ReadPacket
  BY <1>9 DEF ReadPacket
<1>10. CASE WriteStep \/ WriteTimeout \/ WriteTest
  BY <1>10 DEF WriteStep, WriteCall, WriteTimeout, WriteTest
<1>11. CASE WriteData \/ WriteAgain \/ WriteError
  BY <1>11 DEF WriteData, WriteAgain, WriteError
<1>12. CASE FileCase
  BY <1>12 DEF FileCase, ResetIoctl, Open, Close, CloseEnd, Release, StopThread, ReleaseSlot
<1> QED
  BY <1>1, <1>2, <1>3, <1>4, <1>5, <1>6, <1>7, <1>8, <1>9, <1>10, <1>11, <1>12,
     NextCases DEF SlotCase, WriteCase, ReadCase

LEMMA RingTypedNext ==
  ASSUME TypeOK, RingHead, EndAhead, GotSoFar, Next
  PROVE  RingTyped'
<1>0. /\ rx \in Seq(Packet) /\ Len(rx) \in Nat /\ Len(rx) <= RxSize /\ got \in Seq(Packet)
      /\ RxSize \in Nat /\ <<>> \in Seq(Packet) /\ Live(0) \subseteq 1 .. Len(rx) /\ RingTyped
  BY NextPacket, EmptySeq, CaAssumption, TypeParts DEF TypeOK
<1>1. CASE OtherCase
  BY <1>0, <1>1, RingFrame DEF RingTyped
<1>2. ASSUME NEW f \in Fragments, Fetch(f) PROVE RingTyped'
  BY <1>0, <1>2, FetchAdds, FetchFrame DEF RingTyped
<1>3. CASE FetchRest
  BY <1>0, <1>3, FetchRestFrame DEF RingTyped
<1>4. CASE ReadEnd
  <2>1. lastGot' \in [Conn -> 0 .. MaxMsg]
    <3>1. CASE UNCHANGED lastGot
      BY <3>1 DEF TypeOK
    <3>2. CASE rpc = "done" /\ lastGot' = [lastGot EXCEPT ![rconn] = got[Len(got)].msg]
      <4>1. Len(got) \in 1 .. Len(got)
        BY <1>0, <3>2, LenProperties, EmptySeq DEF GotSoFar
      <4>2. got[Len(got)] \in Packet
        BY <1>0, <4>1, ElementOfSeq
      <4>3. got[Len(got)].msg \in 0 .. MaxMsg
        BY <4>2, CaAssumption DEF Packet
      <4> HIDE DEF Packet
      <4> QED
        BY <3>2, <4>3 DEF TypeOK
    <3> QED
      BY <1>4, <3>1, <3>2, EndFrame
  <2>2. ridx' = 0 /\ rconn' = NoConn /\ got' = <<>> /\ UNCHANGED rx
    BY <1>4, EndFrame
  <2>3. 0 \in 0 .. RxSize
    BY <1>0
  <2> QED
    BY <1>0, <2>1, <2>2, <2>3 DEF RingTyped
<1>9. CASE ReadAside
  BY <1>0, <1>9, AsideFrame DEF RingTyped
<1>5. ASSUME ReadCondition \/ ReadPacket PROVE ridx' \in 0 .. RxSize
  <2>1. Len(rx') \in Nat /\ Len(rx') <= Len(rx)
    <3>1. CASE UNCHANGED rx
      BY <1>0, <3>1
    <3>2. CASE ReadPacket /\ Taken
      <4>1. ridx \in Live(0) /\ Dispose(ridx)
        BY <3>2, ReadPacketCases DEF Taken
      <4> QED
        BY <1>0, <4>1, DisposeMoves
    <3> QED
      BY <1>5, <3>1, <3>2, ReadPacketCases, ConditionCases DEF Passed
  <2>2. ridx' <= Len(rx')
    BY RingHeadNext DEF RingHead
  <2>3. ridx' \in Nat
    <3>1. PktNext(0) \in Nat /\ PktNext(ridx) \in Nat /\ ridx \in Nat
      <4>1. ridx \in Nat
        BY <1>0 DEF TypeOK
      <4>2. ASSUME NEW k \in Nat PROVE PktNext(k) \in Nat
        BY <1>0, NextPacket
      <4> QED
        BY <4>1, <4>2
    <3>2. CASE ReadCondition
      BY <3>1, <3>2, ConditionCases
    <3>3. CASE ReadPacket /\ Passed
      BY <3>1, <3>3 DEF Passed
    <3>4. CASE ReadPacket /\ Taken
      <4>1. ridx \in Live(0) /\ Dispose(ridx)
        BY <3>4, ReadPacketCases DEF Taken
      <4>2. PICK n \in 0 .. Len(rx) : n = Freed(ridx) /\ Moved(n, ridx)
        BY <4>1, DisposeMoves
      <4>3. CASE PktNext(ridx) = 0
        BY <3>4, <4>3 DEF Taken
      <4>4. CASE PktNext(ridx) # 0
        <5>1. PktNext(ridx) \in Live(0) \ {ridx}
          BY <1>0, <3>1, <4>1, <4>4, NextPacket
        <5>2. PktNext(ridx) - n \in Live(0)'
          BY <4>2, <5>1 DEF Moved
        <5>3. PktNext(ridx) - n \in Nat
          BY <2>1, <5>2 DEF Live
        <5> QED
          BY <3>4, <4>2, <4>4, <5>3 DEF Taken
      <4> QED
        BY <4>3, <4>4
    <3> QED
      BY <1>5, <3>2, <3>3, <3>4, ReadPacketCases
  <2> QED
    BY <1>0, <2>1, <2>2, <2>3
<1>6. CASE ReadCondition
  BY <1>0, <1>5, <1>6, ConditionCases DEF RingTyped
<1>7. CASE ReadPacket /\ Taken
  <2>1. ridx \in Live(0) /\ Dispose(ridx) /\ got' = Append(got, rx[ridx]) /\ rconn' = rx[ridx].conn
    BY <1>7, ReadPacketCases DEF Taken
  <2>2. rx[ridx] \in Packet
    BY <1>0, <2>1, ElementOfSeq
  <2>3. rx[ridx].conn \in Conn
    BY <2>2 DEF Packet
  <2>4. got' \in Seq(Packet)
    BY <1>0, <2>1, <2>2, AppendProperties
  <2>5. rx' \in Seq(Packet) /\ Len(rx') <= RxSize
    BY <1>0, <2>1, DisposeMoves
  <2> QED
    BY <1>0, <1>5, <1>7, <2>1, <2>3, <2>4, <2>5, ReadPacketCases DEF RingTyped
<1>8. CASE ReadPacket /\ Passed
  BY <1>0, <1>5, <1>8, ReadPacketCases DEF RingTyped, Passed
<1> QED
  BY <1>1, <1>2, <1>3, <1>4, <1>6, <1>7, <1>8, <1>9, NextCases, ReadPacketCases
     DEF OtherCase, FetchCase, ReadCase

LEMMA CamTypedNext ==
  ASSUME TypeOK, EndAhead, GotSoFar, Next
  PROVE  CamTyped'
<1>0. /\ cur \in [Conn -> 0 .. MaxMsg] /\ sent \in 0 .. MaxMsg /\ damaged \subseteq 1 .. MaxMsg
      /\ MaxMsg \in Nat
  BY CaAssumption DEF TypeOK
<1>1. ASSUME NEW f \in Fragments, Sent(f)
      PROVE  cur' \in [Conn -> 0 .. MaxMsg] /\ sent' \in 0 .. MaxMsg /\ f.msg \in 1 .. MaxMsg
  BY <1>0, <1>1 DEF Fragments, Sent, None
<1>2. CASE KeepStep
  <2>1. CASE LinkReset
    <3>1. cur' \in [Conn -> 0 .. MaxMsg] /\ sent' = sent
      BY <1>0, <2>1 DEF LinkReset, None
    <3>2. \A c \in Conn : cur[c] # None => cur[c] \in 1 .. MaxMsg
      BY <1>0 DEF None
    <3>3. damaged' \subseteq 1 .. MaxMsg
      BY <1>0, <2>1, <3>2 DEF LinkReset
    <3> QED
      BY <1>0, <3>1, <3>3 DEF CamTyped
  <2>2. CASE UNCHANGED <<cur, sent>> /\ damaged' \subseteq damaged \cup {q.msg : q \in Stock}
    <3>1. \A q \in Stock : q.msg \in 1 .. MaxMsg
      BY StockPackets DEF Packet
    <3> QED
      BY <1>0, <2>2, <3>1 DEF CamTyped
  <2>3. ASSUME NEW f \in Fragments, Sent(f), damaged' = damaged \cup {f.msg} PROVE CamTyped'
    BY <1>0, <1>1, <2>3 DEF CamTyped
  <2> QED
    BY <1>2, <2>1, <2>2, <2>3 DEF KeepStep
<1>3. ASSUME NEW f \in Fragments, AddStep(f) PROVE CamTyped'
  BY <1>0, <1>1, <1>3 DEF AddStep, CamTyped
<1>4. CASE ReturnStep
  BY <1>0, <1>4 DEF ReturnStep, CamTyped
<1>5. CASE LoseStep
  <2>1. \A k \in 1 .. Len(got) : got[k].msg \in 1 .. MaxMsg
    <3>1. \A k \in 1 .. Len(got) : got[k] \in Packet
      BY ElementOfSeq DEF TypeOK
    <3> QED
      BY <3>1 DEF Packet
  <2> QED
    BY <1>0, <1>5, <2>1 DEF LoseStep, CamTyped
<1> QED
  BY <1>2, <1>3, <1>4, <1>5, StockCases
-----------------------------------------------------------------------------
LEMMA IInvInit == Init => IInv
<1> SUFFICES ASSUME Init PROVE IInv
  OBVIOUS
<1>1. /\ rx = <<>> /\ got = <<>> /\ Len(<<>>) = 0 /\ <<>> \in Seq(Packet) /\ rpc = "idle"
      /\ rconn = NoConn /\ ridx = 0 /\ half = "no" /\ ~spoilt /\ 1 .. 0 = {}
  BY EmptySeq DEF Init
<1>2. Live(0) = {} /\ Stock = {}
  BY <1>1 DEF Live, Stock
<1>3. TypeOK
  <2>1. FlagsTyped /\ PlacesTyped
    BY DEF Init, FlagsTyped, PlacesTyped, States
  <2>2. CountsTyped /\ CamTyped
    BY CaAssumption DEF Init, CountsTyped, CamTyped, None
  <2>3. lastGot \in [Conn -> 0 .. MaxMsg]
    BY CaAssumption DEF Init, None
  <2>4. RingTyped
    BY <1>1, <2>3, CaAssumption DEF RingTyped
  <2> QED
    BY <2>1, <2>2, <2>4, TypeParts
<1>4. Stopping /\ Straying /\ WriteCounted
  BY DEF Init, Stopping, Straying, WriteCounted
<1>5. RingHead /\ EndAhead /\ GotSoFar /\ InOrder
  BY <1>1, <1>2 DEF RingHead, EndAhead, GotSoFar, InOrder
<1>6. StockWhole /\ Numbered
  <2>1. /\ \A c \in Conn : cur[c] = None /\ lastGot[c] = None
        /\ sent = 0
    BY DEF Init
  <2> QED
    BY <1>2, <2>1 DEF StockWhole, Numbered, None
<1> QED
  BY <1>3, <1>4, <1>5, <1>6 DEF IInv

LEMMA IInvNext == IInv /\ [Next]_vars => IInv'
<1>1. CASE IInv /\ Next
  <2>1. FlagsTyped' /\ PlacesTyped' /\ CountsTyped' /\ WriteCounted'
    BY <1>1, TypeParts, FlagsTypedNext, PlacesTypedNext, CountsTypedNext DEF IInv
  <2>2. TypeOK'
    <3>1. RingTyped' /\ CamTyped'
      BY <1>1, RingTypedNext, CamTypedNext DEF IInv
    <3> QED
      BY <2>1, <3>1
         DEF TypeOK, FlagsTyped, PlacesTyped, CountsTyped, RingTyped, CamTyped
  <2>3. Stopping' /\ Straying'
    BY <1>1, StoppingNext, StrayingNext DEF IInv
  <2>4. RingHead' /\ EndAhead' /\ GotSoFar'
    BY <1>1, RingHeadNext, EndAheadNext, GotSoFarNext DEF IInv
  <2>5. InOrder' /\ StockWhole' /\ Numbered'
    BY <1>1, InOrderNext, StockWholeNext, NumberedNext DEF IInv
  <2> QED
    BY <2>1, <2>2, <2>3, <2>4, <2>5 DEF IInv
<1>2. CASE IInv /\ UNCHANGED vars
  <2> USE <1>2 DEF vars, slotVars, ringVars, threadVars, fileVars, readVars, writeVars, camVars
  <2>1. TypeOK'
    BY DEF IInv, TypeOK
  <2>2. Stopping' /\ Straying' /\ WriteCounted'
    BY DEF IInv, Stopping, Straying, WriteCounted
  <2>3. RingHead' /\ EndAhead' /\ GotSoFar'
    BY DEF IInv, RingHead, EndAhead, GotSoFar, Live, Torn, Mine
  <2>4. InOrder'
    BY DEF IInv, InOrder, Live
  <2>5. Stock' = Stock
    BY StockSame
  <2>6. StockWhole' /\ Numbered'
    BY <2>5 DEF IInv, StockWhole, Numbered, After, SameMessage
  <2> QED
    BY <2>1, <2>2, <2>3, <2>4, <2>6 DEF IInv
<1> QED
  BY <1>1, <1>2

(* Every reachable state has the invariant.                                 *)
THEOREM CaInvariant == Spec => []IInv
  BY IInvInit, IInvNext, PTL DEF Spec

(* The variables of the slot have values of their kinds, and rx_buffer does *)
(* not overflow.                                                            *)
THEOREM CaWellTyped == Spec => []TypeOK
<1>1. IInv => TypeOK
  BY DEF IInv
<1> QED
  BY <1>1, CaInvariant, PTL

(* dvb_ca_en50221_io_write, dvb_ca_en50221_release: for any number of       *)
(* fragments, at most one of a write goes to a slot that is not running,    *)
(* and no call is under way when the thread has stopped.                    *)
THEOREM ModuleAlone == Spec => []ModuleLeftAlone
<1>1. IInv => ModuleLeftAlone
  <2>1. IInv => OneStray
    BY DEF IInv, Straying, OneStray
  <2>2. IInv => StoppedAlone
    BY DEF IInv, Stopping, StoppedAlone
  <2> QED
    BY <2>1, <2>2 DEF ModuleLeftAlone
<1> QED
  BY <1>1, CaInvariant, PTL

(* What a read has when it ends is one message that lost nothing, unless a  *)
(* fragment of its first message was lost.                                  *)
LEMMA GotWhole ==
  ASSUME IInv, rpc = "done", got[1].msg \notin damaged
  PROVE  OneMessage(got) /\ got[1].msg > lastGot[rconn]
<1> DEFINE n == Len(got)
           a == got[1]
           g == got[n]
<1>1. n \in Nat /\ n >= 1 /\ 1 \in 1 .. n /\ n \in 1 .. n
  BY LenProperties, EmptySeq DEF IInv, TypeOK, GotSoFar
<1>2. /\ \A i \in 1 .. n : /\ got[i] \in Stock /\ got[i].conn = rconn /\ got[i].msg \in Nat \ {0}
                           /\ got[i].last => i = n
      /\ g.last \/ g.msg \in damaged
  <2>1. \A i \in 1 .. n : got[i] \in Stock
    BY DEF Stock
  <2>2. \A i \in 1 .. n : got[i].msg \in Nat \ {0}
    BY <2>1, StockPackets, CaAssumption DEF IInv, Packet
  <2> QED
    BY <2>1, <2>2 DEF IInv, GotSoFar
<1>3. Stock = {rx[k] : k \in Live(0)} \cup {got[i] : i \in 1 .. n}
  BY DEF Stock
<1>4. \A i, k \in 1 .. n : i < k => Before(got[i], got[k])
  BY DEF IInv, InOrder
<1>5. \A i \in 1 .. n, k \in Live(0) : Before(got[i], rx[k])
  BY DEF IInv, InOrder
<1>6. a.first
  <2> SUFFICES ASSUME ~a.first PROVE FALSE
    OBVIOUS
  <2>1. PICK p \in Stock : SameMessage(p, a) /\ p.first
    BY <1>1, <1>2 DEF IInv, StockWhole
  <2>2. CASE \E k \in Live(0) : p = rx[k]
    BY <1>1, <1>5, <2>1, <2>2 DEF Before, SameMessage
  <2>3. CASE \E i \in 1 .. n : p = got[i]
    <3>1. PICK i \in 1 .. n : p = got[i]
      BY <2>3
    <3>2. i # 1
      BY <2>1, <3>1
    <3>3. 1 < i
      BY <1>1, <3>1, <3>2
    <3> QED
      BY <1>1, <1>4, <2>1, <3>1, <3>3 DEF Before, SameMessage
  <2> QED
    BY <1>3, <2>2, <2>3
<1>7. a.msg = g.msg
  <2> SUFFICES ASSUME a.msg # g.msg PROVE FALSE
    OBVIOUS
  <2>1. a.msg < g.msg /\ ~a.last
    <3>1. 1 < n
      BY <1>1
    <3>2. Before(a, g)
      BY <1>1, <1>4, <3>1
    <3>3. ~a.last
      BY <1>1, <1>2, <3>1
    <3> QED
      BY <1>1, <1>2, <3>2, <3>3 DEF Before
  <2>2. cur[rconn] # a.msg
    <3> SUFFICES ASSUME cur[rconn] = a.msg PROVE FALSE
      OBVIOUS
    <3>1. a.msg # None
      BY <1>1, <1>2 DEF None
    <3>2. g.msg <= cur[rconn]
      BY <1>1, <1>2, <3>1 DEF IInv, Numbered
    <3> QED
      BY <1>1, <1>2, <2>1, <3>2
  <2>3. PICK p \in Stock : SameMessage(p, a) /\ p.last
    BY <1>1, <1>2, <2>1, <2>2 DEF IInv, StockWhole
  <2>4. CASE \E k \in Live(0) : p = rx[k]
    <3>1. Before(g, p) /\ p.conn = g.conn
      BY <1>1, <1>2, <1>5, <2>3, <2>4 DEF SameMessage
    <3>2. g.msg <= a.msg
      BY <2>3, <3>1 DEF Before, SameMessage
    <3> QED
      BY <1>1, <1>2, <2>1, <3>2
  <2>5. CASE \E i \in 1 .. n : p = got[i]
    BY <1>2, <2>3, <2>5 DEF SameMessage
  <2> QED
    BY <1>3, <2>4, <2>5
<1>8. ASSUME NEW k \in 1 .. n PROVE got[k].msg = a.msg
  <2>1. CASE k = 1
    BY <2>1
  <2>2. CASE k = n
    BY <1>7, <2>2
  <2>3. CASE k # 1 /\ k # n
    <3>1. 1 < k /\ k < n
      BY <1>1, <2>3
    <3>2. Before(a, got[k]) /\ Before(got[k], g)
      BY <1>1, <1>4, <3>1
    <3>3. a.msg <= got[k].msg /\ got[k].msg <= g.msg
      BY <1>1, <1>2, <3>2 DEF Before
    <3> QED
      BY <1>1, <1>2, <1>7, <3>3
  <2> QED
    BY <2>1, <2>2, <2>3
<1>9. OneMessage(got)
  <2>1. g.last
    BY <1>2, <1>7
  <2> QED
    BY <1>2, <1>6, <1>8, <2>1 DEF OneMessage
<1>10. a.msg > lastGot[rconn]
  <2>1. lastGot[rconn] < a.msg
    BY <1>1, <1>2 DEF IInv, Numbered, After
  <2>2. rconn \in Conn
    BY <1>1, <1>2, StockPackets DEF IInv, Packet
  <2>3. lastGot[rconn] \in Nat
    BY <2>2, CaAssumption DEF IInv, TypeOK
  <2> QED
    BY <1>1, <1>2, <2>1, <2>3
<1> QED
  BY <1>9, <1>10

(* dvb_ca_en50221_io_read and dvb_ca_en50221_thread, for any number of      *)
(* connections and messages and any size of rx_buffer, and with packets     *)
(* visible before they are stored: a read that saw the end of its message   *)
(* stored reaches it, and a message that lost no fragment and was stored    *)
(* when it was read is returned whole, once and in order.                   *)
THEOREM MessagesWhole == Spec => []ReadsWhole
<1>1. ASSUME IInv, rpc = "read", ~misled PROVE ridx # 0
  BY <1>1 DEF IInv, EndAhead
<1>2. IInv => ReadsWhole
  BY <1>1, GotWhole DEF ReadsWhole
<1> QED
  BY <1>2, CaInvariant, PTL
=============================================================================
