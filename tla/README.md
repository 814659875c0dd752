# TLA+ models of the dddvb driver

This directory is a verification development for the Digital Devices DVB driver package. It models
the driver's data paths (capture, playback, redirection, demux buffers), the parts in which
several users share hardware (the MAX SX8 resource manager, the LNB inputs of the MAX cards, the
MCI command port and the I2C masters, the redirection table), and the two kernel threads of the
DVB core that a card keeps running (the frontend thread and the thread of a CI slot). TLC checks
the models on small instances and TLAPS checks theorems about all of them for every value of the
constants.

* `X.tla` models a component; `MCX.tla` with its `.cfg` files is an instance for TLC;
  `X_proofs.tla` holds the theorems about `X`; `Redirect_proofs` also those about `RedirectPipe`,
  `InputWork` and `TsRead`, the three ways a captured cell can go.
* `PROJECT.json` lists the components, the runs, the hazards each property is for, the
  source lines of every definition, and one mutant per property: a plausible bug, kept next
  to the definition it replaces (`Name_Bug`), that makes the property fail.

Run `tlc -config MCX.cfg MCX.tla` for a model and `tlapm X_proofs.tla` for the proofs.

## 1. The system

The package is a set of kernel modules for PCIe tuner cards: `ddbridge` (the bridge driver,
`src/ddbridge`), a patched copy of the Linux DVB core (`src/dvb-core`), drivers for demods and
tuners (`src/frontends`), and user space libraries and tools (`src/lib`, `src/apps`).

```
 tuner input --DMA--> ring --irq--> input_handler --work--> input_work
                       |                                      |  redi set
    redo set: the ring |                                      v
    is that of a CI    |                             dvb_dmx_swfilter_packets
    output             v                                      |
              output DMA --> CAM --> input[0]                 v
                                              dvb_dmxdev_ts_callback
 ts_read <-- ring of an input (ci/sec device)          |
 ts_write --> ring of an output --DMA--> CAM           v
                                              dvr/demux buffer --> read()
```

### Components

| component | state | operations | what is hard |
|---|---|---|---|
| TS capture, ci/sec device (`ddbridge-core.c`) | `dma->cbuf, coff, stat, running`, the engine's registers | `ts_open`, `ts_read`, `ts_poll`, `ts_release`, interrupt | `stat` is read without the lock; overflow acknowledged by the reader |
| TS playback (`ddbridge-core.c`) | the same, of an output | `ts_write`, interrupt | full and empty ring look alike; positions rounded to 128 bytes |
| Demux capture (`ddbridge-core.c`) | ring, `users`, `packet_loss`, queued work | `start_feed`, `stop_feed`, `input_handler`, `input_work` | work left over from a stop, overflow recovery, 16 bit counter |
| Redirected capture (`ddbridge-core.c`) | two engines over one ring | both interrupt handlers, start and stop | each engine acknowledges to the other |
| Redirection table (`ddbridge-core.c`) | `redi`, `redo`, DMA tables | `redirect_store`, `start_feed`, `stop_feed`, `ts_open` | lock dropped between two halves; rewiring in the middle of a chain |
| Demux device buffer (`dmxdev.c`, `dvb_ringbuffer.c`) | `pread`, `pwrite`, `error` | callback, `read()` | writer and reader share no lock |
| MAX SX8 (`ddbridge-sx8.c`) | use counts, demods in use, LDPC budget, `iq_mode` | start, stop, IQ capture, set_input | short critical sections with device commands between |
| MAX S8/S4 LNB inputs (`ddbridge-max.c`) | users and voltage of each input | set_voltage, set_tone, set_input | a stale copy of the power mask; inputs shared |
| MCI port (`ddbridge-mci.c`), I2C masters (`ddbridge-i2c.c`) | mailbox, start bit, completion | command, interrupt, timeout | the completion is never reset |
| CI slot (`dvb_ca_en50221.c`, `ddbridge-ci.c`) | `slot_state`, `rx_buffer`, `open`, power and bypass of the slot | thread, read, write, `CA_RESET`, open, release, unregister | read and write look at the slot without its lock |
| Frontend core (`dvb_frontend.c`) | `state`, `status`, `exit`, `thread`, `sem`, events, zigzag | thread, ioctls, open, release, unregister | the thread ends by itself; requests overwrite each other's `state` |
| M4, netstream, modulator, lifecycle, flash, the rest of the DVB core, frontends, library, tools | | | see section 10 |

### How they interact

* A feed of the demux (`start_feed`) starts a whole redirected chain (`ddb_input_start_all`),
  outermost output first; the last feed stops it. So `InputWork` covers an input without
  redirection, `RedirectPipe` the data through one wired hop, and `Redirect` which hops are
  wired.
* The interrupt handler runs `input_work` inline or through a workqueue; it hands packets to
  the software demux, which calls `dvb_dmxdev_ts_callback`. `DmxBuffer` starts at that call.
* `ddbridge-sx8.c` sends its commands through the MCI port. `Sx8` takes a command as a step;
  `Mci` shows when the reply a command gets is its own (as long as nothing has timed out).
* `ddbridge-max.c` holds one mutex per link over the slow LNB commands.
* The frontend thread and the ioctls call the drivers (`set_frontend`, `tune`, `set_voltage`)
  under `fepriv->sem`; these calls are the operations of `Sx8` and `MaxLnb`, whose frontends
  are therefore processes that do one thing at a time.
* The CA device of a port moves messages through registers, the CI ci/sec device
  (`TsRead`, `TsWrite`) and the redirection move the stream through the same module.

## 2. Capture, playback and redirection of data

**InputEngine** is the input DMA engine as the driver uses it. It is not in the repository, so it
is the part of the models marked external: it stores into a ring of `Num` buffers of `Size` cells
up to the acknowledged position, stops there with the overflow bit set, and goes on after an
acknowledge. Whether the engine keeps one cell free cannot be read from the driver, so `gap` is
chosen in `Init` and both engines are checked. Cells are numbered as they arrive, which makes
loss, repetition and reordering visible.

**TsRead** is `ts_read` with `ddb_input_avail` and `ddb_input_read`, `ts_poll` of a second thread,
`ts_open`/`ts_release` and the interrupt worker. Each step lies between two points at which
another thread can get in: `LoadStat`, `CheckAvail` and `ReadAck` are the three accesses of
`ddb_input_avail` (`PollBegin`, `PollEnd` and `PollAck` those of a poll, whose acknowledge may
reach a device that was opened again meanwhile), `Enqueue`, `WaitCheck`, `WakeUp`, `Signal` are
`wait_event_interruptible`, and `ReadBegin`, `Copy` and `ReadEnd` are the loop of
`ddb_input_read`. An acknowledge counts in units of 128 bytes, rounded down; the model
acknowledges the exact position, that is never less than the code does, so what it keeps from the
engine the code keeps too.

| property | meaning |
|---|---|
| `InOrder` | until the ring overflows, every cell is read once and in order; overflow or not, a read never goes back in the stream (until an overflow is acknowledged), nor behind the open |
| `NoOverwriteDuringCopy` | the engine does not store into what is being copied |
| `NoLostWakeup` | a sleeping reader is woken, and an overflowed ring is released while somebody waits |

Run `ts_read` (3 buffers of 2 cells, 8 cells, counts up to 2; 1.1 million states). Eight cells
fill the six-cell ring, overflow it and store two into a buffer that is being read; with seven an
acknowledge that is ahead of the reader does no harm yet.

**TsWrite** is `ts_write` with `ddb_output_free` and `ddb_output_write`, and the playing engine. A
position register counts in units of 128 bytes, a packet has 188: `Gran` = 2 and `Packet` = 3 keep
a packet at one and a half units, so that rounding matters as it does in the code. Run `ts_write`
(3 buffers of 12, counts 5 and 13; 1.4 million states): `RingConsistent` (the ring is never filled
so far that it looks empty, and the driver's and the engine's positions agree on what is queued),
`NoBusyLoop` (when the test `ts_write` loops on lets it go on, at least one byte can be copied),
`WriterProgress`.

**InputWork** is the capture of a tuner input: `start_feed`/`stop_feed` with the users count,
`input_handler`, `input_work`, `input_write_dvb`, `update_loss`; the worker reads position,
overflow bit and loss counter one after the other. Run `input_work` (3 buffers of 2 cells, 13
cells, 2 feeds, a counter of `Width` = 4 values for 65536; 0.8 million states): order and
completeness of the buffers the demux gets (`BuffersInOrder`), no store into a buffer being
filtered (`NoOverwriteDuringFilter`), the extended loss counter is exact if fewer than `Width`
packets were lost since the last reading (`LossExact`), and each ready buffer is delivered and
each stalled ring released (`BufferDelivered`).

**RedirectPipe** is one redirected hop: the tuner's engine stores into the buffers of a CI output
and the two interrupt handlers only pass positions. `Init` assumes the engine that keeps a cell
free: with the other one an input that catches up with the output leaves both engines waiting for
each other, because equal positions mean an empty ring to the output. Run `redirect_pipe` (0.3
million states): `InOrder` (each cell arrives once and in order), `NoOverwriteUnsent` (the input
never stores into what the output has still to send) and `Drained` (what was captured is sent).

## 3. The redirection table

**Redirect** models `redirect_store` in its two lock sections (`StoreUnlink` is `ddb_unredirect`,
`StoreLink` the rest of `ddb_redirect`), the starting and stopping of chains by feeds, and CI
devices that are opened meanwhile. A port has one output and one input that matters, `input[0]`;
both go by the port's name. `table` says whose buffers the DMA table of an input points to.

The history variable `described` says that up to now the ports were used as `src/docs/redirect`
describes (`SetupNext`): redirect before the devices are used, from the tuner outwards. That use
allows feeds at any time, since nothing in the driver prevents them.

Run `redirect` takes 2 tuner inputs; while the use is the described one, 3 ports, the fewest with
a middle of a chain that is not its end, and 2 feeds for each input; otherwise 2 ports, one of
them opened and closed as a CI device, linked in any order:

| property | meaning |
|---|---|
| `LinksPaired` | the output at the end of a link points back at the input it starts from, so no two inputs fill one output; an input fills the ring of the output it is linked to, its own otherwise |
| `ChainsEnd` | the loops over a chain that starts at a tuner input end |
| `DescribedComplete` | used as described, the stream ends at the demux of its tuner, and with the last feed everything has stopped |
| `DescribedChainKept` | used as described, a chain that runs is neither rewired nor stopped |

The run has 1.2 million states. `DescribedComplete` is made of `Delivered` (exactly one input on
the way of the stream delivers to the tuner's demux, and no other input does), `EndsAtDemux` (an
input that delivers is the last of its way, and the demux exists) and `AllStopped`.

Used otherwise the table allows more than the document describes. When two ports are linked to
each other before a tuner input is led into the first of them, `input[0]` of that port is handed
the tuner's demux and keeps its link: `input_proc` then delivers the stream to the demux and pipes
it on as well. `input[0]` of the later port is given the input of the first port as its
destination (lines 291-299), whose demux `dvb_input_attach` never sets up, since only tuner ports
call it (2272-2279). Taking a port out of the middle of a chain loses the stream behind it. No
property is about either.

All runs have one process writing the attribute. With two, the lock dropped at
`ddbridge-core.c:276` lets both link the same port, and `ChainsEnd` and the first half of
`LinksPaired` can fail; its second half, `TableMatches`, is proved for any number.

## 4. The demux device buffer

**DmxBuffer** puts `dvb_dmxdev_ts_callback` (the writer, under `dev->lock`) and
`dvb_dmxdev_buffer_read` (the reader, under no lock the writer takes) on the ring buffer. A copy
takes time: while `wpc` or `rpc` is `"copy"` the cells in `Writing` or `Reading` are in use, and a
copy across the end of the buffer is two steps, each of which publishes its pointer. **Fifo** is
what the pair promises, a queue of at most `Size - 1` bytes with drops and flushes; `IsQueue` says
that `DmxBuffer` implements it, with the stored bytes as the queue.

Run `dmx_buffer` (4 bytes, packets of 1 and 2, reads of 1 and 4 bytes, 9 bytes; 0.2 million
states): `NoOverwriteDuringCopy`, `IsQueue`, `GapReported` (bytes are missing only after a read
that the overflow ended) and `NoLostWakeup`. What the model shows besides: a non-blocking read
that meets an overflow in the middle returns the bytes it has, so the overflow is visible only as
a short read.

## 5. Shared hardware

**Sx8** is the resource manager of the MAX SX8. `state->lock` serialises the calls of one
frontend, so a frontend is a process that runs one operation at a time; a step is one section
under `tuner_lock`, or the commands between two. Run `sx8` (2 frontends, 2 inputs, 2 demods of
which one takes high rates, 2 symbol rates, a budget that two searches exhaust; 0.5 million
states):

| property | meaning |
|---|---|
| `NothingShared` | a demod has one owner; an IQ capture has the card for itself |
| `NothingLeaked` | `tuner_use_count` is the number of users, an input is powered exactly while it has one, and when everybody sleeps nothing is held, powered or running |
| `NoForeignStop` | a STOP never reaches a demod that another frontend has been given |
| `GrantWithinBudget` | at each start what is granted fits into the LDPC budget |
| `TsConfigMatches` | the TS interface is in the mode `iq_mode` says (until a START_IQ fails: its error path leaves the interface in IQ mode) |

**MaxLnb** is the sharing of the four LNB inputs in `ddbridge-max.c`: `fmode` 0 (each frontend has
an input of its own choice), 3 (all use input 0) and 4, and the quattro modes 1 and 2, with both
wirings of `old_quattro`. A request is one step under `lnb.lock`, except that `max_set_voltage`
copies the power mask before it takes the lock (`ReadVoltages`); `supply` is what each input is
fed with. Run `lnb` (2 frontends at one input that may be moved between 2 inputs, `fmode` 0 to 3,
both wirings; 1.2 million states):

| property | meaning |
|---|---|
| `PowerFitsNeed` | a frontend that asked for a voltage has it, outside the quattro modes if it was not moved since (`Powered`), and an input nobody needs is off, unless it was left by a frontend that was moved (`NoIdlePower`) |
| `QuattroMatches` | in a quattro mode, tone and voltage of the input a frontend is on are what it asked for, if it was not moved since |
| `NobodysPowerTaken` | no request takes the power from an input another frontend needs |

`max_set_input` does not look at `fmode`: `DTV_INPUT` (`dvb_frontend.c:2086-2090`) moves a
frontend in the quattro modes too, to an input whose tone and voltage need not be those it asked
for. It comes back with its next tone or voltage request; until then it is in `moved`, and
`QuattroMatches` leaves it out.

In the other modes moving a frontend switches nothing: its new input may stay off until the next
`set_voltage` and its old one stays on. That is why `Powered` leaves out frontends that have been
moved and `NoIdlePower` the inputs in `left`, a history of the inputs a frontend was moved away
from that have not been switched off since.

**Mci** is a command on the MCI port: mutex, mailbox, start bit, interrupt, completion. The device
executes a command at any time or never, so a wait can end before it has. The completion is not
reset before a command, so one that comes after a timeout answers the next command. An I2C master
is the same with three differences, which `port` chooses in `Init`: it is not asked whether it is
still busy, what is sent and what is received share a buffer (`SharedBuffer`), and a timeout or an
error on the bus (`BusError`) ends the call. Run `mci` (2 callers, 4 commands: enough for a
timeout, a command that takes its completion, and one that takes the completion of that one; 0.4
million states):

* `OwnResult`: until the first timeout a caller reads the result of its own command;
* `LateBounded`: each timeout leaves at most one completion, so n timeouts mislead at most n
  commands at a time.

That the mailbox of an MCI port is not written while the device works on it, also after timeouts,
is a theorem (`MailboxKept`); an I2C master has no such test, and after a timeout the next
transfer may overwrite the buffer of the one before. Deadlock is not checked in this run because
the number of commands is bounded.

## 6. The CI slot

**CaInterface** is one CAM slot in poll mode, as `ddb_ci_attach` registers it. `Poll` is the head
of a pass of the thread (`check_camstatus` and what follows from it), the actions from `ResetSlot`
to `BeginFetch` are the cases of `thread_state_machine`, one step each because they hold
`slot_lock`; reading packets (`Fetch`) takes several. The thread may begin a pass at any time:
`thread_update_delay` only decides how long it waits at most. The application opens, reads,
writes, resets and closes; the driver is unregistered (`Release`). A message has one or two
fragments, a fragment is a packet of `rx_buffer`, and the buffer holds `RxSize` packets.

Storing a packet that wraps publishes `pwrite = 0` before the rest of it is there. Until
`FetchRest` the variable `half` says what the last packet of the ring lacks: its data, or, if a
single byte fits before the wrap, also its flag. The reader takes no lock, so it goes on with what
it sees: it copies data that is not stored yet (the message is then in `damaged`), or takes the
old byte behind the wrap for the flag, here always the wrong one (`Seen`), and finds the end of a
message where there is none (`misled`) or misses one. If it disposes of the only packet while that
is half stored, `pread` passes `pwrite`, and the ring, seemingly full of what was there before, is
`spoilt`: what is read from then on is old bytes (`ReadGarbage`) or nothing.

Run `ca` (2 connections, 3 packets, 2 messages, writes of two fragments, 2 events among removal,
`CA_RESET`, bad fragment, link error, a fault of the reader's buffer, write, and a packet stored
up to the flag; 0.6 million states):

| property | meaning |
|---|---|
| `ReadsWhole` | a read returns whole messages of a connection, each once and in order, and never finds the rest of its message gone; exempt are what begins with a fragment of a damaged message, a read misled by a flag not stored yet, and what comes from a spoilt ring |
| `ModuleLeftAlone` | at most one fragment reaches the module after the slot stopped running, and none after the thread was stopped |
| `Settles` | after faults at any step, as many as `MaxEvent` allows, the slot comes to rest running, empty or given up; when it runs the stream is led through the module |
| `ReaderServed` | a reader that sleeps while a message is complete is woken; exempt is one that went to sleep before the slot ran |

**What `ca_ring` shows.** `EndReached` is what `io_read` takes for granted: once
`io_read_condition` has found the end of a message, the loop meets it before the packets run out.
Where it does not, the code reports "BUG: read packet ended before last_fragment encountered"
(`dvb_ca_en50221.c:1677`). The run (2 packets, 2 messages, one event) finds a packet that wraps
behind its first data byte: the reader sees "last fragment" in the old byte, the thread stores the
rest with the flag "more", and the read ends with -EIO and without its packets. `ReadsWhole` says
that this is the only way to get there.

The other exemptions are behaviour of the code as well. Nothing flushes the ring after a fragment
was lost: `io_open` would do it if there were no buffer (`!rx_buffer.data`, line 1769), the only
case in which there is nothing to flush. So the first fragment of a message can be followed by
those of another one. Making the slot `RUNNING` wakes nobody. And `poll_cam_gone` sets the slot to
empty without `slot_shutdown`, so a module pulled out while its link is brought up leaves the
power of the slot on until the next module is reset; `Settles` does not ask for more.

## 7. The frontend

**Frontend** is `dvb_frontend.c` for one device: the thread (`ThreadInit` to `ThreadExit`) with a
driver that tunes by itself (`HwPass`, `DVBFE_ALGO_HW`) or the zigzag of the core (`SwPass`), the
ioctls of one file open for writing and of monitors, `open` with `dvb_frontend_start`, `release`,
and `dvb_unregister_frontend` with `dvb_frontend_stop`. An ioctl holds the semaphore from `Call`
to `Return`, except `FE_GET_EVENT`, which gives it up while it waits. What the hardware is tuned
to is `hw`: nothing, a former request or the last one. `signal` is a carrier that needs one drift
and one inversion. Deciding to do a pass (`ThreadGo`) and taking the semaphore for it
(`ThreadDown`) are two steps.

The zigzag (`scan`) belongs to a request: `Zigzag` holds the steps and maximal drifts that
`prepare_tuning_algo_parameters` may find, no zigzag at all (both 0) among them. What inversions a
search tries depends on the cached `c->inversion`: both only while it is `INVERSION_AUTO`.
`FE_SET_FRONTEND` gives an inversion; `DTV_TUNE` takes the cache as it is, and after a lock that
is the inversion that locked (`Found`), so the next scan tries this one only. `DTV_INVERSION` and
`DTV_CLEAR` write the cache at any time (`IoctlInversion`), a failing `set_frontend` leaves its
own try there (`Failed`). `StepRange` stands for the 2^32 values of `auto_step`: with a step of 0
the drift never exceeds its maximum, and only the wrap of the counter brings the scan back to
where it began, which in the code is practically never. Drivers are assumed to have
`FE_CAN_RECOVER` and not `FE_CAN_INVERSION_AUTO`: with the former a lost lock without drifts to
try is left to the driver (`LeftAlone`), without the latter the core looks for the inversion
itself.

The histories say what a property exempts: `wanted` ends when a request is overwritten by DiSEqC
or fails, `orphan` that an open took a thread that was ending, `reinit` that the semaphore was
initialised while held, `overlap` that a removal met an open or an ending thread.

Run `frontend` (a writer and a monitor, one step to both sides or no zigzag, 2 events in the
queue, both algorithms; 0.3 million states):

| property | meaning |
|---|---|
| `SemExclusive` | thread, ioctls and open never work at the same time, across restarts of the thread |
| `ThreadLifetime` | a file open for writing has a thread that is not about to end, and a freed frontend has neither thread nor file |
| `StatusFresh` | `FE_READ_STATUS` never returns the lock of an earlier tuning |
| `ScanComplete` | a fast scan that began with a request ends only after every drift was tried, each with every inversion the request left open (the inversions are not promised once the cache was written meanwhile) |
| `Settles` | in the end the hardware is tuned to the last request, the last event tells whether it is locked, and it is if there is a carrier at a drift and inversion the search covers |

The exemptions are behaviour of the code, found by TLC when the property was stated without them:

* an open between the thread's decision to end (`dvb_frontend.c:701`) and `fe->exit` (706) is given that
  thread (`dvb_frontend_start:884`), and the file is left without one;
* `dvb_frontend_stop`, called by an open that meets an ending thread, initialises the semaphore (843)
  although a monitor's ioctl may hold it;
* a removal that meets such a thread or an open finds no thread to stop, or one that has not been
  started yet;
* a DiSEqC, tone or voltage request after `FE_SET_FRONTEND` and before the thread's next pass sets the
  state from `RETUNE` to `DISEQC`: the request is lost and the status read is that of the
  previous tuning, which the comment at line 2573 wants to prevent. An application that tunes as
  usual sends DiSEqC first.

`ScanComplete` is about a scan that ends. With a step of 0 the fast scan of the code goes on as if
for ever; it then tries drift 0 with each inversion again and again, so a carrier there is found
all the same (`Settles`).

Not in the model: one file has one ioctl at a time; the properties of `FE_SET_PROPERTY` other than
the request and the inversion; the frequency a failing `set_frontend` leaves in the property
cache. The removal is checked with the hardware algorithm only: it does not touch the zigzag.

## 8. Bounds and fairness

| run | why the bounds are enough |
|---|---|
| data paths | three buffers are the fewest in which the buffers "being filled", "finished" and "being released" differ; two cells give a middle and an end of a buffer; the number of cells lets the ring wrap and overflow, and be restarted with old data in memory |
| `redirect` | two tuner inputs compete for a port, two ports can be linked into a circle, three have a middle of a chain that is not its end. All four properties are proved for any number of ports |
| `dmx_buffer` | four cells with packets of two let both copies be split at the end at the same time |
| `sx8`, `lnb` | two frontends compete for one high rate demod, one decoding budget, one LNB input. A third one that comes in while two others change places is left to the proofs, which hold for any number |
| `mci` | see above |
| `ca` | three packets hold a message of each connection with a fragment in between, and fill up; two events are a fault and one while the slot recovers from it. In `ca_ring` one packet precedes the one that wraps |
| `frontend` | two opens are a thread that ends and its successor; two inputs are two requests, or one and a fault, a change of the carrier or another ioctl that comes in between. With the zigzag, whose scan multiplies the states, one open; the interleavings of opens do not depend on the algorithm. `StepRange` = 3 lets `auto_step` both exceed the drift and wrap without it |

Symmetry is used only in runs without liveness properties, over frontends, tuners and ports.

| run | fairness | why |
|---|---|---|
| `ts_read` | weak, of the worker and of the reader | interrupts are delivered, a runnable thread runs; nobody has to send, poll or signal |
| `ts_write` | weak, of the engine, the worker and the writer | the output engine sends what it is given |
| `input_work`, `redirect_pipe` | weak, of the worker, and of the handlers and the output engine | as above; nothing obliges the source to send |
| `dmx_buffer` | weak, of the callback once begun and of a read once begun | neither holds a lock over a wait for the other |
| `ca` | weak, of the thread, of a read that is not asleep, and of the timeouts | the thread wakes up at least every few seconds; nobody has to call anything |
| `frontend` | weak, of the thread, of an ioctl and an open once begun; strong, of the steps that take the semaphore | the thread wakes up by its delay; the semaphore is given to those who wait in the order they came |

## 9. What is proved

The theorems hold for every value of the constants that satisfies the `ASSUME` of the module.

**Sx8_proofs.** `IInv` is the type invariant with four parts: `PcConsistent` (what is stopped
before an operation reaches its start), `DemodConsistent` (who holds a demod, and that
`demod_in_use` says so), `IqConsistent` (`iq_mode` is set while there is an IQ owner, and then
nobody else holds anything) and `HwConsistent` (a demod works for its holder). They are needed
because exclusivity alone is not inductive: a start looks at `demod_in_use` only, and a stop sends
its command after its section. From it follow `DemodsExclusive`, `IqCaptureExclusive`, together
`DemodsNotShared`, and `CommandsStayHome`. `TunersCounted` adds a lemma on the cardinality of the
users of an input. `CardReleased` adds `SleepConsistent` and `ShareConsistent` (a frontend reaches
the end of `sleep` with nothing started, and nobody but a search has a share of the budget),
`TsConfigFollows` adds `TsConsistent`, which follows the mode through the steps in which it has
been announced and not yet sent. `BudgetKept` is about a sum over the frontends that decode. What
a fold over a set computes is a matter of induction over the set; the proof takes a smallest
subset for which the sum is wrong instead, which exists because `<` on `Nat` is well-founded.

**Redirect_proofs.** `TablesMatch` is inductive as it stands. `BothEndsAgree` needs that between
the two sections of `ddb_redirect` the port stays free (`PortFree`), which is true with one writer
of the attribute only (`OneWriter`); the two together are `LinksStayPaired`. `StartAllEnds`
follows from the pairing: going backwards along `outRedi` is a function, and nothing leads back to
a tuner input, so no port on the way is met twice. `DescribedUseWorks` and
`DescribedUseKeepsChains` rest on `UseInv`: as long as the use is the described one, only the last
port of a chain carries the mark `redi` (`EndsMarked`, `LastMarked`), a port outside every chain
is clear (`LooseClear`, `BackLinkUsed`), a link under way leads from the end of a chain to such a
port (`RequestAtEnd`), and what runs are exactly the chains with a feed (`ChainsRun`,
`OnlyChainsRun`). `ChainStays`, `ChainsApart`, `ChainGrows` and `ChainShrinks` say how a step
changes the chains, which are least sets closed under `redo`.

The second half of the module instantiates `RedirectPipe` (`Pipe!`), `InputWork` (`Work!`) and
`TsRead` (`Read!`), for rings of any number and size of buffers. `Ahead(a, b)` is the number of
cells from *a* to *b* going round the ring; `AheadSum`, `HeadOn` and `TailOn` are what is needed
of it, and `BufferCells`, `ChunkEnd` relate it to the (buffer, offset) pairs of the registers.
`Stock` is what the engine has stored and the driver has not released (all cells for an engine
that fills its ring up, whose positions are equal then). `StockRight` says that the stock is newer
than what was taken, lies in order and, while nothing was dropped, is all that arrived;
`StockStore`, `StockDrop`, `StockRelease` and `StockEmpty` carry it through the four things that
happen to a ring. What differs is why a copy that is taken lies within the stock. `PipeBetween`:
input, output and what the output may send follow each other. `WorkSeen`: the worker's old copy of
the position is not ahead of the engine, so a buffer that is finished by it is finished.
`ReadSeen`: the reader holds a copy of a copy, each behind the next, or the newer one stands for a
full ring. Once a poll acknowledges an overflow over the reader's head none of this holds any
more; that even then no cell from before the open is read follows from `ReadFresh`: in the
engine's first turn everybody follows everybody from the first buffer on, afterwards every cell is
newer than the open. `ExtendedCount` is the lemma about `update_loss`, an exact count as long as
less than one turn of the 16 bits was missed. The sizes of the rings are hypotheses of the
theorems (`Sizes`, `WorkSizes`, `ReadSizes`): the assumptions of the instantiated modules.

**DmxBuffer_proofs.** `WriterFits` and `ReaderFits` say that what is left of a copy fits into what
is free or available *now*, although the other side moved its pointer since this was tested: each
side can only make room for the other. With the lemma `RingArithmetic` it follows that the two
regions are disjoint (`WriterAvoidsReader`). `BufferIsQueue` maps the cells from `pread` to
`pwrite` to the queue of `Fifo`: a copy that publishes `pwrite` appends (`WriteAppends`), one that
publishes `pread` takes from the front (`ReadTakes`), everything else stutters or is a flush.
`GapsAreReported` needs that the stored bytes are consecutive, that without an error the next one
to arrive follows them, and that they follow what was read unless an overflow was told
(`InOrder`); `ErrorKnown` says that nothing is stored after an error and nothing flushed without
one.

**TsWrite_proofs.** A position is a buffer and an offset; `Place` numbers them all, and
`Behind(s)` is how far the process is ahead of a position *s* going round the ring. `Exact` says
that what is queued is the lead over the engine; `Acked` that the engine was told the position of
the process, rounded down. `Lags` is the reason why it works without a common lock: what the
process knows of the engine (`stat`), and what it took for its copies (`snap`), is old, so the
lead over them is at least what is queued. `RoomFits` says that a copy leaves the lead over `snap`
below the size of the ring, `FreeHasRoom` and `FreeStays` that the test of `ts_write` admits a
copy and keeps doing so when the engine goes on. `%` by a constant that is not a number is unknown
to the solver; the lemmas at the head of the module (`Quotient`, `RemainderUnique`, ...) supply
what is needed of it.

**MaxLnb_proofs.** The heart of `IInv` is `OwnBitCurrent`: the copy of the power mask taken before
the lock may be wrong about others, but not about the frontend's own bit, which nobody else
changes. So the comparison `nv != ov` goes wrong only where acting is not needed. `RailsFed`,
`UsersFed` and `RightInput` then tie the power and the routing of the inputs to the users; the
inputs in `left` are the exception `UsersFed` needs, the frontends in `moved` that of
`RightInput`: a frontend that `DTV_INPUT` moves in a quattro mode is where its tone and voltage
lead only after its next request. `PowerMatches` is what `RequestsPowered` and `IdleInputsOff` say
together.

**Mci_proofs.** `MutexHeld` and `PortReserved` say that a caller past the test of the start bit
has the idle port for itself, `AnswerCurrent` where the answer of the current command is while
nothing has timed out. `LateBounded` is part of the invariant. All of it holds for an MCI port and
for an I2C master.

**Frontend_proofs.** The semaphore alone is easy: `SemHeld` says that the count and the holders
agree, and the history variable `reinit` marks the one step that breaks it. Why there is never a
second thread is not: `OneThread` and `ThreadKnown` say in which steps of an open, a stop or an
end of its own a thread can exist, and that `fepriv->thread`, `fe->exit` and `kthread_should_stop`
tell the one who looks at them. `RemovedAlone` and `RefsCounted` (with the cardinality of the open
files) give that the frontend outlives them. `CallsKnown` is there for the queue: the event that a
waiting file has seen is still there when it takes it. `Tuning` with the lemma `SearchPasses` (a
new request begins a zigzag that is not complete, so something is set) gives `StatusOfLastTuning`.
`ScanIsComplete` follows the set of tried settings step by step (`Reached`): at drift *k*
everything smaller was tried on both sides, and with every inversion that was asked for and not
given up by a write to the cache. It holds for any step and any drift: a step of 0 is the case in
which every value of `auto_step` is a step of drift 0.

**CaInterface_proofs.** `ModuleAlone` needs little: `Stopping` (a file that is open counts as a
user, and the thread ends after the last user) and `Straying` (after a fragment too many the slot
is not running, and only `LinkInit` lets it run again). `MessagesWhole` needs to know the ring.
`DisposeMoves` is the lemma about `dvb_ringbuffer_pkt_dispose`: what it leaves moves down by the
number of freed packets, and so does the reader's index. `EndAhead` says that, unless the read is
misled, an end of its message whose flag is stored stays ahead of the reader, and that nothing of
its connection is behind him. `RingHead` says that only the thread's last packet is half stored
and that a spoilt ring holds no packet. `InOrder` orders what is held of a connection, in the ring
and in what was read, `StockWhole` says that no fragment of an undamaged message is missing from
it, and `Numbered` that what comes next is newer. `StockCases` reduces the steps to four by what
they do to the packets held: keep them, add one, return a message, or lose what was read of one.
`LeastElement` (every nonempty set of numbers has a least one) rests on the library's theorem that
`<` on `Nat` is well-founded.

The type invariants of all eleven modules are part of their inductive invariants.

Checked by TLC only:

* that `EndReached` fails (run `ca_ring`);
* all liveness properties, which are out of the reach of the installed provers.

That two writers of the redirect attribute can break `ChainsEnd` was seen in a variant of run
`redirect` that is not kept.

## 10. What is not modelled

* *SX8*: status and signal reads, and `direct_mode`, a module parameter that switches the sharing
  off. *LNB*: `no_voltage`, `max_enable_high_lnb_voltage` (it writes a raw register value whose
  effect cannot be read from the driver and leaves the remembered voltage stale), a change of
  `fmode` at run time, DiSEqC messages on the wire. *MCI*: the reset loop at attach. *I2C*: where
  a transfer lies in the memory of the board.
  *Demux device*: section framing, resizing of the buffer, mmap. *CI slot*: the tuples in the
  module's attribute memory, the size negotiation beyond its success or failure, the CXD2099.
  *Frontend*: suspend and resume, `mfe_shared`, `ts_bus_ctrl`, the custom algorithm, poll.
* *M4*: a demod and a tuner of its own for each frontend, so its frontends share nothing but the MCI
  port.
  *Network streaming*: its ioctls run under one mutex. *Modulator*: arithmetic over registers; its
  playback is `TsWrite`. *Lifecycle, sysfs, flash*: sequential code on one thread.
* *Memory ordering*: the models take accesses to single fields as atomic and in program order;
  the driver's flags are protected by locks or, in the ring buffer, by acquire and release.
* *Tuner and demod drivers*: register sequences for third party chips.
* *Hardware tables, register access, interrupt dispatch*: no control of their own.
* *Tools and library*: sequential programs around ioctls.

## 11. Plan

1. (done) capture, playback, demux capture, SX8 with proofs; redirection table and pipe; demux
   buffer; LNB control; MCI port and I2C masters; CI slot; frontend thread.
2. Next modules: section framing and filter set-up of `dmxdev.c` with the resizing of its buffer; the
   network streaming device with its share of `dvb->users`; the feeds of `dvb_demux.c`; the
   probe ladder and flash access; modulator arithmetic as operators.
3. Abstract specifications: a lossy FIFO that `TsRead` and `InputWork` implement; a composition of `Sx8`
   with the timeouts of `Mci`; `Frontend` over `Sx8` as its driver.
4. Proofs: every safety property of the runs is stated by a theorem; next the abstract
   specifications of 3 and the modules of 2.
