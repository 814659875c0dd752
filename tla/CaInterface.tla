----------------------------- MODULE CaInterface -----------------------------
(***************************************************************************)
(* The conditional access device of a CI slot: dvb_ca_en50221.c over the   *)
(* slot operations of ddbridge-ci.c, with the one slot and the poll mode   *)
(* ddb_ci_attach asks for.  A kernel thread brings the module up and reads *)
(* its packets under slot_lock; the application reads messages without     *)
(* that lock, writes, resets, opens and closes; the driver may be removed. *)
(*                                                                         *)
(* The delay and the wakeup flag only choose when the next pass of the     *)
(* thread begins: here it may begin at any time.                           *)
(***************************************************************************)
EXTENDS Integers, Sequences

CONSTANTS Conn,     \* transport connections the module uses
          RxSize,   \* packets that fit into rx_buffer
          MaxMsg,   \* bound on the messages the module sends
          MaxFrag,  \* bound on the fragments of a write
          MaxEvent, \* bound on removals, resets, writes, failing transfers, and packets
                    \* whose flag is the first byte after a wrap
          NoConn    \* connection_id of a read that has seen no packet

ASSUME CaAssumption ==
  /\ RxSize \in Nat \ {0} /\ MaxMsg \in Nat /\ MaxFrag \in Nat \ {0} /\ MaxEvent \in Nat
  /\ NoConn \notin Conn

VARIABLES
  slot_state, late,     \* sl->slot_state; sl->timeout has passed
  ctrl,                 \* CI_CONTROL: "off", "on", "ts" (CI_BYPASS_DISABLE)
  rx,                   \* rx_buffer
  half,                 \* what its last packet lacks: "no" if it is whole, its "data", or
                        \* also its "flag", where an old byte says the opposite
  spoilt,               \* pread has run past pwrite and on, over what was there before
  tpc, tlast,           \* the thread; the packet it added ends a message
  open, users, exit,    \* ca->open, dvbdev->users, ca->exit
  fd, rel,              \* the file of the application; dvb_ca_en50221_release
  rpc, ridx, rconn, got, \* io_read
  wpc, wleft,           \* io_write and the fragments it still has to write
  \* the module
  present, ready,       \* in the slot; ready after its reset
  cur, sent,            \* unfinished message of each connection; messages begun
  events,
  \* history
  damaged,              \* messages that lost a fragment, or were read in part before
                        \* they were stored
  misled,               \* the end of the message that the read relies on was not stored
  lastGot,              \* the last message read from each connection
  stray,                \* fragments of a write since the slot stopped running
  missed                \* the slot started running while the reader slept

slotVars   == <<slot_state, late, ctrl>>
ringVars   == <<rx, half, spoilt>>
threadVars == <<tpc, tlast>>
fileVars   == <<open, users, exit, fd, rel>>
readVars   == <<rpc, ridx, rconn, got, lastGot, misled, missed>>
writeVars  == <<wpc, wleft, stray>>
camVars    == <<present, ready, cur, sent, damaged>>
vars == <<slotVars, ringVars, threadVars, fileVars, readVars, writeVars, camVars, events>>

None == 0 \* no message

Init ==
  /\ slot_state = "NONE" /\ late = FALSE /\ ctrl = "off"
  /\ rx = <<>> /\ half = "no" /\ spoilt = FALSE
  /\ tpc = "idle" /\ tlast = FALSE
  /\ open = FALSE /\ users = 1 /\ exit = FALSE /\ fd = "closed" /\ rel = "no"
  /\ rpc = "idle" /\ ridx = 0 /\ rconn = NoConn /\ got = <<>>
  /\ wpc = "idle" /\ wleft = 0
  /\ present = FALSE /\ ready = FALSE /\ cur = [c \in Conn |-> None] /\ sent = 0
  /\ events = 0
  /\ damaged = {} /\ lastGot = [c \in Conn |-> None] /\ stray = 0
  /\ misled = FALSE /\ missed = FALSE
-----------------------------------------------------------------------------
(* The module.                                                              *)
Event == events < MaxEvent /\ events' = events + 1

(* What it had begun to send is lost.                                       *)
LinkReset ==
  /\ cur' = [c \in Conn |-> None]
  /\ damaged' = damaged \cup {cur[c] : c \in {d \in Conn : cur[d] # None}}
  /\ UNCHANGED sent

CamReset == LinkReset /\ ready' = FALSE /\ UNCHANGED present

(* Taking a module out or putting one in takes longer than the thread needs *)
(* to notice that the slot is empty.                                        *)
Insert ==
  /\ ~present /\ slot_state = "NONE"
  /\ present' = TRUE
  /\ UNCHANGED <<slotVars, ringVars, threadVars, fileVars, readVars, writeVars, events,
                 ready, cur, sent, damaged>>

Remove ==
  /\ present /\ Event
  /\ present' = FALSE /\ ready' = FALSE /\ LinkReset
  /\ UNCHANGED <<slotVars, ringVars, threadVars, fileVars, readVars, writeVars>>

CamReady ==
  /\ present /\ ~ready /\ slot_state = "WAITREADY"
  /\ ready' = TRUE
  /\ UNCHANGED <<slotVars, ringVars, threadVars, fileVars, readVars, writeVars, events,
                 present, cur, sent, damaged>>

TimeUp ==
  /\ slot_state \in {"WAITREADY", "WAITFR"} /\ ~late
  /\ late' = TRUE
  /\ UNCHANGED <<slot_state, ctrl, ringVars, threadVars, fileVars, readVars, writeVars,
                 camVars, events>>

(* The next fragment the module sends: of an unfinished message, or the     *)
(* first one of a new message; a message has one or two fragments.          *)
Fragments ==
  {f \in [conn : Conn, msg : 1 .. MaxMsg, first : BOOLEAN, last : BOOLEAN] :
     \/ cur[f.conn] # None /\ f.msg = cur[f.conn] /\ ~f.first /\ f.last
     \/ cur[f.conn] = None /\ f.msg = sent + 1 /\ f.first}

Sent(f) ==
  /\ cur' = [cur EXCEPT ![f.conn] = IF f.last THEN None ELSE f.msg]
  /\ sent' = IF f.first THEN f.msg ELSE sent
  /\ UNCHANGED <<present, ready>>
-----------------------------------------------------------------------------
(* The operations of ddbridge-ci.c on the slot.                             *)
slot_reset     == ctrl' = "on" /\ CamReset
slot_shutdown  == ctrl' = "off" /\ CamReset
slot_ts_enable == ctrl' = "ts"

(* wake_up_interruptible on ca->wait_queue                                  *)
WakeReader == rpc' = IF rpc = "asleep" THEN "cond" ELSE rpc

(* dvb_ca_en50221_slot_shutdown; what rx_buffer holds stays.                *)
SlotShutdown ==
  /\ slot_shutdown
  /\ slot_state' = "NONE" /\ late' = FALSE
  /\ WakeReader
  /\ UNCHANGED <<ridx, rconn, got, lastGot, misled, missed>>

LockFree == tpc \in {"idle", "stopped"}

(* dvb_ca_en50221_check_camstatus: what has changed in the slot, and the    *)
(* state of a slot in which nothing has.                                    *)
Removed   == ~present /\ slot_state # "NONE"
Inserted  == present /\ slot_state = "NONE"
Unchanged == IF slot_state = "WAITREADY" /\ ready THEN "VALIDATE" ELSE slot_state

\* Mutant: only a module that is gone is noticed, not a new one.
Poll_RemovalOnly ==
  /\ tpc = "idle" /\ tpc' = "switch"
  /\ IF Removed
     THEN SlotShutdown
     ELSE /\ slot_state' = Unchanged
          /\ late' = (late /\ slot_state' = slot_state)
          /\ UNCHANGED <<ctrl, readVars, camVars>>
  /\ UNCHANGED <<ringVars, tlast, fileVars, writeVars, events>>

(* The head of a pass: check_camstatus until nothing changes any more.      *)
Poll ==
  /\ tpc = "idle" /\ tpc' = "switch"
  /\ IF Removed
     THEN SlotShutdown
     ELSE /\ slot_state' = IF Inserted THEN "UNINITIALISED" ELSE Unchanged
          /\ late' = (late /\ slot_state' = slot_state)
          /\ UNCHANGED <<ctrl, readVars, camVars>>
  /\ UNCHANGED <<ringVars, tlast, fileVars, writeVars, events>>

(* One pass of the switch in state s; the states without a line here, and   *)
(* a closed device, have nothing to do.                                     *)
In(s) == tpc = "switch" /\ slot_state = s
Pass  == tpc' = "idle" /\ tlast' = FALSE /\ UNCHANGED <<ringVars, fileVars, writeVars>>

NothingToDo ==
  /\ \/ In("NONE") \/ In("INVALID")
     \/ In("RUNNING") /\ ~open
     \/ In("WAITREADY") /\ ~late
     \/ In("WAITFR") /\ ~late
  /\ Pass /\ UNCHANGED <<slotVars, readVars, camVars, events>>

ResetSlot ==
  /\ In("UNINITIALISED")
  /\ slot_state' = "WAITREADY" /\ late' = FALSE
  /\ slot_reset
  /\ Pass /\ UNCHANGED <<readVars, events>>

NotReady ==
  /\ In("WAITREADY") /\ late
  /\ slot_state' = "INVALID" /\ late' = FALSE
  /\ Pass /\ UNCHANGED <<ctrl, readVars, camVars, events>>

(* parse_attributes fails for a missing module and may fail for one that is *)
(* slow; the latter is tried again.  poll_cam_gone does not shut the slot   *)
(* down.  CMDREG_RS resets the link of the module.                          *)
Validate ==
  /\ In("VALIDATE")
  /\ \/ /\ present /\ slot_state' = "WAITFR" /\ late' = FALSE
        /\ LinkReset /\ UNCHANGED <<present, ready, events>>
     \/ present /\ Event /\ slot_state' \in {"VALIDATE", "INVALID"} /\ UNCHANGED <<late, camVars>>
     \/ ~present /\ slot_state' = "NONE" /\ UNCHANGED <<late, camVars, events>>
  /\ Pass /\ UNCHANGED <<ctrl, readVars>>

(* The module is free, or it never says so.                                 *)
LinkFree ==
  /\ In("WAITFR")
  /\ slot_state' = "LINKINIT" /\ late' = FALSE
  /\ Pass /\ UNCHANGED <<ctrl, readVars, camVars, events>>

(* dvb_ca_en50221_link_init.  Nobody wakes a reader that went to sleep      *)
(* before the slot was running.                                             *)
LinkInit ==
  /\ In("LINKINIT")
  /\ \/ /\ present /\ slot_state' = "RUNNING" /\ slot_ts_enable
        /\ missed' = (missed \/ rpc = "asleep") /\ stray' = 0 /\ UNCHANGED events
     \/ /\ present /\ Event /\ slot_state' \in {"UNINITIALISED", "INVALID"}
        /\ UNCHANGED <<ctrl, missed, stray>>
     \/ ~present /\ slot_state' = "NONE" /\ UNCHANGED <<ctrl, missed, stray, events>>
  /\ tpc' = "idle"
  /\ UNCHANGED <<late, ringVars, tlast, fileVars, rpc, ridx, rconn, got, lastGot, misled, wpc,
                 wleft, camVars>>

BeginFetch ==
  /\ In("RUNNING") /\ open
  /\ tpc' = "fetch"
  /\ UNCHANGED <<slotVars, ringVars, tlast, fileVars, readVars, writeVars, camVars, events>>
-----------------------------------------------------------------------------
(* read_data for the ring                                                   *)
NoPacket ==
  /\ tpc = "fetch"
  /\ Pass /\ UNCHANGED <<slotVars, readVars, camVars, events>>

(* A wrong size or a read error initialises the link again, while the ring  *)
(* keeps what it has; a register that cannot be read only ends the pass.    *)
(* The fragment is lost.                                                    *)
ReadError ==
  /\ tpc = "fetch" /\ Len(rx) < RxSize
  /\ \/ /\ present /\ Event /\ slot_state' \in {slot_state, "LINKINIT"}
        /\ \E f \in Fragments : Sent(f) /\ damaged' = damaged \cup {f.msg}
     \/ ~present /\ slot_state' = "LINKINIT" /\ UNCHANGED <<camVars, events>>
  /\ Pass /\ UNCHANGED <<late, ctrl, readVars>>

Stored(f) ==
  [conn |-> f.conn, msg |-> f.msg, first |-> f.first, last |-> f.last, gone |-> FALSE]

(* dvb_ringbuffer_pkt_write.  If the packet wraps, the part before the wrap *)
(* is published first; with only one byte there the flag is not among it.   *)
(* The first packet of all does not wrap: it lies at the start.             *)
(* In a ring whose pread is anywhere the packet is anywhere too.            *)
Store(f) ==
  IF spoilt
  THEN damaged' = damaged \cup {f.msg} /\ UNCHANGED <<rx, half, events>>
  ELSE /\ rx' = Append(rx, Stored(f)) /\ UNCHANGED damaged
       /\ \/ half' \in {"no", "data"} /\ UNCHANGED events
          \/ half' = "flag" /\ Event
       /\ half' # "no" => sent > 0

\* Mutant: readers are woken by the packets that do not end a message.
Fetch_WakeFirst(f) ==
  /\ tpc = "fetch" /\ Len(rx) < RxSize /\ present
  /\ f \in Fragments /\ Sent(f)
  /\ Store(f)
  /\ tlast' = ~f.last /\ tpc' = IF half' = "no" THEN "wake" ELSE "rest"
  /\ UNCHANGED <<slotVars, spoilt, fileVars, readVars, writeVars>>

(* A packet is read and added to the ring.                                  *)
Fetch(f) ==
  /\ tpc = "fetch" /\ Len(rx) < RxSize /\ present
  /\ f \in Fragments /\ Sent(f)
  /\ Store(f)
  /\ tlast' = f.last /\ tpc' = IF half' = "no" THEN "wake" ELSE "rest"
  /\ UNCHANGED <<slotVars, spoilt, fileVars, readVars, writeVars>>

FetchRest ==
  /\ tpc = "rest"
  /\ half' = "no" /\ tpc' = "wake"
  /\ UNCHANGED <<slotVars, rx, spoilt, tlast, fileVars, readVars, writeVars, camVars, events>>

(* The end of read_data and the tests after it; the limit of packets for    *)
(* one pass may be reached.                                                 *)
FetchDone ==
  /\ tpc = "wake"
  /\ IF tlast THEN WakeReader ELSE UNCHANGED rpc
  /\ tpc' \in IF open /\ present THEN {"fetch", "idle"} ELSE {"idle"}
  /\ tlast' = FALSE
  /\ UNCHANGED <<slotVars, ringVars, fileVars, ridx, rconn, got, lastGot, misled, missed,
                 writeVars, camVars, events>>

Thread ==
  \/ Poll \/ NothingToDo \/ ResetSlot \/ NotReady \/ Validate \/ LinkFree \/ LinkInit
  \/ BeginFetch \/ NoPacket \/ ReadError \/ FetchRest \/ FetchDone
  \/ \E f \in Fragments : Fetch(f)
-----------------------------------------------------------------------------
(* dvb_ringbuffer_pkt_next after packet k: a packet not disposed of, or 0.  *)
Live(k) == {j \in k + 1 .. Len(rx) : ~rx[j].gone}
PktNext(k) == IF Live(k) = {} THEN 0 ELSE CHOOSE j \in Live(k) : \A i \in Live(k) : j <= i

(* Packet k as a reader sees it, who takes no lock.                         *)
IsHalf(k) == half # "no" /\ k = Len(rx)
Seen(k) == IF IsHalf(k) /\ half = "flag" THEN [rx[k] EXCEPT !.last = ~@] ELSE rx[k]

(* io_read_condition: the packets of the connection of the first packet up  *)
(* to one that ends a message.                                              *)
Ends == {j \in Live(0) : rx[j].conn = rx[PktNext(0)].conn /\ Seen(j).last}
Found == slot_state = "RUNNING" /\ Ends # {}

(* The only packet was disposed of while it was half stored: pread is ahead *)
(* of pwrite, and the ring looks full of what was there before.             *)
Overrun == half # "no" /\ rx = <<>>

ReadCall ==
  /\ fd = "open" /\ rpc = "idle"
  /\ rpc' = "cond"
  /\ UNCHANGED <<slotVars, ringVars, threadVars, fileVars, ridx, rconn, got, lastGot,
                 misled, missed, writeVars, camVars, events>>

(* The test and, unless the file is non blocking, the sleep.                *)
ReadCondition ==
  /\ rpc = "cond"
  /\ missed' = FALSE
  /\ IF Found
     THEN /\ rpc' = "read" /\ ridx' = PktNext(0) /\ rconn' = NoConn /\ got' = <<>>
          /\ misled' = ~\E e \in Ends : rx[e].last
     ELSE rpc' \in {"asleep", "idle"} /\ UNCHANGED <<ridx, rconn, got, misled>>
  /\ UNCHANGED <<slotVars, ringVars, threadVars, fileVars, lastGot, writeVars, camVars, events>>

(* It finds what used to be in the ring, ...                                *)
ReadGarbage ==
  /\ rpc = "cond" /\ slot_state = "RUNNING" /\ (Overrun \/ spoilt)
  /\ rpc' = "garbage" /\ spoilt' = TRUE /\ missed' = FALSE
  /\ UNCHANGED <<slotVars, rx, half, threadVars, fileVars, ridx, rconn, got, lastGot, misled,
                 writeVars, camVars, events>>

(* ... and returns some of it, or nothing.                                  *)
ReturnGarbage ==
  /\ rpc = "garbage"
  /\ rpc' = "idle"
  /\ UNCHANGED <<slotVars, ringVars, threadVars, fileVars, ridx, rconn, got, lastGot, misled,
                 missed, writeVars, camVars, events>>

ReadSignal ==
  /\ rpc = "asleep"
  /\ rpc' = "idle" /\ missed' = FALSE
  /\ UNCHANGED <<slotVars, ringVars, threadVars, fileVars, ridx, rconn, got, lastGot, misled,
                 writeVars, camVars, events>>

(* dvb_ringbuffer_pkt_dispose: packet k is marked, and what is disposed of  *)
(* at the head of the ring is removed.                                      *)
Marked(k) == [rx EXCEPT ![k].gone = TRUE]
Freed(k) ==
  LET m == Marked(k)
      L == {j \in 1 .. Len(m) : ~m[j].gone}
  IN IF L = {} THEN Len(m) ELSE (CHOOSE j \in L : \A i \in L : j <= i) - 1
Dispose(k) == rx' = SubSeq(Marked(k), Freed(k) + 1, Len(rx))

\* Mutant: the packets of other connections on the way are disposed of too.
ReadPacket_DisposeAll ==
  /\ rpc = "read" /\ ridx # 0
  /\ LET p == Seen(ridx)
         mine == rconn \in {NoConn, p.conn}
     IN /\ rconn' = IF rconn = NoConn THEN p.conn ELSE rconn
        /\ got' = IF mine THEN Append(got, rx[ridx]) ELSE got
        /\ damaged' = IF mine /\ IsHalf(ridx) THEN damaged \cup {p.msg} ELSE damaged
        /\ Dispose(ridx)
        /\ ridx' = IF PktNext(ridx) = 0 THEN 0 ELSE PktNext(ridx) - Freed(ridx)
        /\ rpc' = IF mine /\ p.last THEN "done" ELSE "read"
  /\ spoilt' \in IF rx' = <<>> /\ half # "no" THEN {FALSE, TRUE} ELSE {spoilt}
  /\ UNCHANGED <<slotVars, half, threadVars, fileVars, lastGot, misled, missed, writeVars,
                 present, ready, cur, sent, events>>

(* The loop of io_read for one packet.  Where the only packet is disposed   *)
(* of half stored, pkt_dispose may find old packets behind it that are      *)
(* disposed of, and go on over them.                                        *)
ReadPacket ==
  /\ rpc = "read" /\ ridx # 0
  /\ LET p == Seen(ridx)
         mine == rconn \in {NoConn, p.conn}
     IN /\ rconn' = IF rconn = NoConn THEN p.conn ELSE rconn
        /\ got' = IF mine THEN Append(got, rx[ridx]) ELSE got
        /\ damaged' = IF mine /\ IsHalf(ridx) THEN damaged \cup {p.msg} ELSE damaged
        /\ IF mine THEN Dispose(ridx) ELSE UNCHANGED rx
        /\ ridx' = IF PktNext(ridx) = 0 THEN 0
                   ELSE IF mine THEN PktNext(ridx) - Freed(ridx) ELSE PktNext(ridx)
        /\ rpc' = IF mine /\ p.last THEN "done" ELSE "read"
  /\ spoilt' \in IF rx' = <<>> /\ half # "no" THEN {FALSE, TRUE} ELSE {spoilt}
  /\ UNCHANGED <<slotVars, half, threadVars, fileVars, lastGot, misled, missed, writeVars,
                 present, ready, cur, sent, events>>

(* The read fails: the fragments it has are gone.                           *)
ReadFails ==
  /\ rpc' = "idle" /\ got' = <<>> /\ ridx' = 0 /\ rconn' = NoConn /\ misled' = FALSE
  /\ damaged' = damaged \cup {got[k].msg : k \in 1 .. Len(got)}
  /\ UNCHANGED <<slotVars, ringVars, threadVars, fileVars, lastGot, missed, writeVars,
                 present, ready, cur, sent>>

(* The buffer of the application cannot be written, ...                     *)
ReadFault ==
  /\ \/ rpc = "read" /\ ridx # 0 /\ rconn \in {NoConn, rx[ridx].conn}
     \/ rpc = "done"
  /\ Event
  /\ ReadFails

(* ... or no packet is left and the message has not ended.                  *)
ReadEnded ==
  /\ rpc = "read" /\ ridx = 0
  /\ ReadFails /\ UNCHANGED events

ReadReturn ==
  /\ rpc = "done"
  /\ lastGot' = [lastGot EXCEPT ![rconn] = got[Len(got)].msg]
  /\ rpc' = "idle" /\ got' = <<>> /\ ridx' = 0 /\ rconn' = NoConn /\ misled' = FALSE
  /\ UNCHANGED <<slotVars, ringVars, threadVars, fileVars, missed, writeVars, camVars, events>>

Reader ==
  \/ ReadCondition \/ ReadGarbage \/ ReturnGarbage
  \/ ReadPacket \/ ReadEnded \/ ReadReturn
-----------------------------------------------------------------------------
(* io_write of n fragments to a slot that is running.                       *)
WriteCall(n) ==
  /\ fd = "open" /\ wpc = "idle" /\ slot_state = "RUNNING" /\ Event
  /\ wpc' = "test" /\ wleft' = n /\ stray' = 0
  /\ UNCHANGED <<slotVars, ringVars, threadVars, fileVars, readVars, camVars>>

WriteFails == wpc' = "idle" /\ wleft' = 0 /\ stray' = 0

\* Mutant: the slot is looked at once, before the first fragment.
WriteTest_Once ==
  /\ wpc = "test"
  /\ wpc' = "lock"
  /\ UNCHANGED <<slotVars, ringVars, threadVars, fileVars, readVars, wleft, stray, camVars,
                 events>>

(* The test before each attempt, without the lock.                          *)
WriteTest ==
  /\ wpc = "test"
  /\ IF slot_state = "RUNNING" THEN wpc' = "lock" /\ UNCHANGED <<wleft, stray>> ELSE WriteFails
  /\ UNCHANGED <<slotVars, ringVars, threadVars, fileVars, readVars, camVars, events>>

(* Half a second has passed without success.                                *)
WriteTimeout ==
  /\ wpc = "test" /\ WriteFails
  /\ UNCHANGED <<slotVars, ringVars, threadVars, fileVars, readVars, camVars, events>>

(* write_data under the lock: the module takes the fragment, ...            *)
WriteData ==
  /\ wpc = "lock" /\ LockFree
  /\ present /\ ctrl # "off"
  /\ wleft' = wleft - 1
  /\ stray' = IF slot_state = "RUNNING" THEN 0 ELSE stray + 1
  /\ wpc' = IF wleft = 1 THEN "idle" ELSE "test"
  /\ UNCHANGED <<slotVars, ringVars, threadVars, fileVars, readVars, camVars, events>>

(* ... it has data to be read first or is not free, ...                     *)
WriteAgain ==
  /\ wpc = "lock" /\ LockFree
  /\ wpc' = "test"
  /\ UNCHANGED <<slotVars, ringVars, threadVars, fileVars, readVars, wleft, stray, camVars,
                 events>>

(* ... it reports a write error, or cannot be reached.                      *)
WriteError ==
  /\ wpc = "lock" /\ LockFree /\ WriteFails
  /\ \/ present /\ ctrl # "off" /\ Event /\ slot_state' = "LINKINIT"
     \/ (~present \/ ctrl = "off") /\ UNCHANGED <<slot_state, events>>
  /\ UNCHANGED <<late, ctrl, ringVars, threadVars, fileVars, readVars, camVars>>

Write == WriteTest \/ WriteData \/ WriteAgain \/ WriteError
-----------------------------------------------------------------------------
(* CA_RESET; the thread finds the module again in its next pass.            *)
ResetIoctl ==
  /\ fd = "open" /\ LockFree /\ slot_state # "NONE" /\ Event
  /\ SlotShutdown
  /\ UNCHANGED <<ringVars, threadVars, fileVars, writeVars>>

(* Under remove_mutex.  rx_buffer is flushed only if it has no memory, that *)
(* is, never with anything in it.                                           *)
Open ==
  /\ fd = "closed" /\ ~exit /\ users = 1
  /\ fd' = "open" /\ open' = TRUE /\ users' = 0
  /\ UNCHANGED <<slotVars, ringVars, threadVars, exit, rel, readVars, writeVars, camVars, events>>

(* release: remove_mutex is held from here ...                              *)
Close ==
  /\ fd = "open" /\ rpc = "idle" /\ wpc = "idle"
  /\ fd' = "closing" /\ open' = FALSE /\ users' = 1
  /\ UNCHANGED <<slotVars, ringVars, threadVars, exit, rel, readVars, writeVars, camVars, events>>

(* ... to here.                                                             *)
CloseEnd ==
  /\ fd = "closing"
  /\ fd' = "closed"
  /\ UNCHANGED <<slotVars, ringVars, threadVars, open, users, exit, rel, readVars, writeVars,
                 camVars, events>>

(* dvb_ca_en50221_release                                                   *)
Release ==
  /\ rel = "no" /\ fd # "closing"
  /\ exit' = TRUE /\ rel' = "wait"
  /\ UNCHANGED <<slotVars, ringVars, threadVars, open, users, fd, readVars, writeVars, camVars,
                 events>>

(* kthread_stop, when the last user is gone and the thread ends its pass.   *)
StopThread ==
  /\ rel = "wait" /\ users = 1 /\ tpc = "idle"
  /\ tpc' = "stopped" /\ rel' = "stopped"
  /\ UNCHANGED <<slotVars, ringVars, tlast, open, users, exit, fd, readVars, writeVars, camVars,
                 events>>

ReleaseSlot ==
  /\ rel = "stopped"
  /\ rel' = "gone"
  /\ SlotShutdown
  /\ UNCHANGED <<ringVars, threadVars, open, users, exit, fd, writeVars, events>>

Next ==
  \/ Insert \/ Remove \/ CamReady \/ TimeUp
  \/ Thread
  \/ ReadCall \/ ReadSignal \/ ReadFault \/ Reader
  \/ \E n \in 1 .. MaxFrag : WriteCall(n)
  \/ WriteTimeout \/ Write
  \/ ResetIoctl \/ Open \/ Close \/ CloseEnd
  \/ Release \/ StopThread \/ ReleaseSlot

Spec == Init /\ [][Next]_vars

(* The thread goes on with its passes, time passes, and a read() that is    *)
(* not asleep goes on; nobody has to call anything.                         *)
FairSpec == Spec /\ WF_vars(Thread) /\ WF_vars(TimeUp) /\ WF_vars(Reader)
-----------------------------------------------------------------------------
Packet == [conn : Conn, msg : 1 .. MaxMsg, first : BOOLEAN, last : BOOLEAN, gone : BOOLEAN]
States == {"NONE", "UNINITIALISED", "WAITREADY", "VALIDATE", "WAITFR", "LINKINIT", "RUNNING",
           "INVALID"}

TypeOK ==
  /\ slot_state \in States /\ late \in BOOLEAN /\ ctrl \in {"off", "on", "ts"}
  /\ rx \in Seq(Packet) /\ Len(rx) <= RxSize
  /\ half \in {"no", "data", "flag"} /\ spoilt \in BOOLEAN
  /\ tpc \in {"idle", "switch", "fetch", "rest", "wake", "stopped"} /\ tlast \in BOOLEAN
  /\ open \in BOOLEAN /\ users \in {0, 1} /\ exit \in BOOLEAN
  /\ fd \in {"closed", "open", "closing"} /\ rel \in {"no", "wait", "stopped", "gone"}
  /\ rpc \in {"idle", "cond", "asleep", "read", "done", "garbage"}
  /\ ridx \in 0 .. RxSize /\ rconn \in Conn \cup {NoConn} /\ got \in Seq(Packet)
  /\ wpc \in {"idle", "test", "lock"} /\ wleft \in 0 .. MaxFrag
  /\ present \in BOOLEAN /\ ready \in BOOLEAN
  /\ cur \in [Conn -> 0 .. MaxMsg] /\ sent \in 0 .. MaxMsg
  /\ events \in 0 .. MaxEvent /\ damaged \subseteq 1 .. MaxMsg
  /\ lastGot \in [Conn -> 0 .. MaxMsg] /\ stray \in Nat
  /\ misled \in BOOLEAN /\ missed \in BOOLEAN

(* Fragments that make up one message.                                      *)
OneMessage(s) ==
  /\ s[1].first /\ s[Len(s)].last
  /\ \A k \in 1 .. Len(s) : s[k].msg = s[1].msg /\ (s[k].last => k = Len(s))

(* read() runs without slot_lock while the thread adds packets, errors make *)
(* the link start again and the slot is reset, yet it never finds the end   *)
(* of its message gone, and returns each message of a connection whole,     *)
(* once and in order.  Exempt is a read that relied on a flag not stored    *)
(* yet, a message of which it copied what was not stored yet, what comes    *)
(* from a ring spoilt by that (it is no message), and what begins with the  *)
(* rest of a message that lost a fragment: the ring is not flushed then.    *)
ReadsWhole ==
  /\ rpc = "read" /\ ~misled => ridx # 0
  /\ rpc = "done" =>
       \/ OneMessage(got) /\ got[1].msg > lastGot[rconn]
       \/ got[1].msg \in damaged

(* What io_read takes for impossible and reports as a bug: it has seen the  *)
(* end of a message and does not find it (dvb_ca_en50221.c:1677).           *)
EndReached == rpc = "read" => ridx # 0

(* A slot whose module was put in, taken out, reset or failed comes to rest *)
(* in the state that fits: running with the stream led through the module,  *)
(* empty, or given up.                                                      *)
Settles ==
  <>[](\/ tpc = "stopped"
       \/ present /\ slot_state = "RUNNING" /\ ctrl = "ts"
       \/ present /\ slot_state = "INVALID"
       \/ ~present /\ slot_state = "NONE")

(* A reader that sleeps while a message is complete is woken, unless the    *)
(* slot was not running when it went to sleep.                              *)
ReaderServed ==
  rpc = "asleep" /\ Found /\ ~missed ~> rpc # "asleep" \/ missed \/ ~Found

(* io_write looks at the slot without the lock, so it may write to a module *)
(* that is being reset; it notices before the next fragment.                *)
OneStray == stray <= 1

(* Nothing of the application is under way when the thread has stopped and  *)
(* the slot is taken apart.                                                 *)
StoppedAlone == tpc = "stopped" => fd # "open" /\ rpc = "idle" /\ wpc = "idle"

(* The application reaches the module only while it may.                    *)
ModuleLeftAlone == OneStray /\ StoppedAlone
=============================================================================
