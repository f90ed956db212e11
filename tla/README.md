# A TLA+ development for the TBS DVB receivers

This directory specifies and verifies the part of `tbs_synology` that turns the
hardware of a TBS receiver card into what a user opens under `/dev/dvb/adapterN/`: the
demux and dvr devices with their ring buffers, the feeds and section reassembly of the
software demux, the frontend thread that tunes, the common-interface slot, and the
TBSECP3 PCIe bridge driver with its DMA and I2C. Paths below are relative to
`src/linux/drivers/media/`.

## 1. Inventory

The repository is the *media_build* tree: some 1.5 million lines of the Linux media
subsystem packaged so that they compile out of tree, plus TBS's own drivers. Most of
it is mainline code for other hardware. What a TBS card runs is small:

```
 user      open / ioctl / read            ioctl / read / write (CAM)      ioctl (tune)
             |                                   |                            |
        dmxdev.c  ---- ring ----.          dvb_ca_en50221.c            dvb_frontend.c
        filters, timers         |          slot thread, rings          tuning thread
             | feeds            | callbacks      |                            |
        dvb_demux.c  <----------'                |                        demod, tuner
             | start_feed/stop_feed    ^         |                            |
 TBSECP3: tbsecp3-dvb.c           packets   tbsecp3-ca.c                tbsecp3-i2c.c
             | DMA on/off              |         |                            |
          tbsecp3-dma.c (tasklet) -----'         `------- tbsecp3-core.c -----'
                                                          (interrupt handler)
```

| Component | State | Operations | What is hard |
|---|---|---|---|
| ring buffer, `dvb-core/dvb_ringbuffer.c` | `data`, `size`, `pread`, `pwrite`, `error` | write, read_user, flush, reset, packets | writer and reader share no lock; only the order of the pointer stores protects the bytes |
| demux device, `dvb-core/dmxdev.c` | `filter[]` with state, parameters, feed, timer, ring | open, close, `DMX_START`, `DMX_STOP`, `DMX_SET_FILTER`, `DMX_SET_PES_FILTER`, `DMX_ADD_PID`, `DMX_REMOVE_PID`, `DMX_SET_BUFFER_SIZE`, read, poll | process context, section/TS callbacks (softirq) and timers interleave; filters on a PID share a feed |
| software demux, `dvb-core/dvb_demux.c` | `feed[]`, `filter[]`, `cnt_storage`, section buffers | allocate, set, start, stop, release; swfilter | finite pools; a section arrives in pieces, with losses |
| DVB glue, `pci/tbsecp3/tbsecp3-dvb.c` | `adapter->feeds` | start_feed, stop_feed | the counter must match the feeds exactly, or the DMA stays on or off |
| DMA, `pci/tbsecp3/tbsecp3-dma.c` | `next_buffer`, `cnt`, `offset`, 16 buffers | enable, disable, tasklet | the hardware overwrites what the tasklet has not read |
| I2C, `pci/tbsecp3/tbsecp3-i2c.c` | `bus->done`, the registers | i2c_xfer | interrupt against wait; timeout against a late answer |
| interrupt and PCI, `pci/tbsecp3/tbsecp3-core.c` | `INT_STAT`, `INT_EN` | handler, probe, remove | one status word for all sources, cleared before it is served |
| CI, `dvb-core/dvb_ca_en50221.c`, `pci/tbsecp3/tbsecp3-ca.c` | slot state, link buffer, rx ring of packets | thread, CAM interrupts, read, write, reset | four parties change `slot_state`, not all under a lock |
| dvr device, `dvb-core/dmxdev.c` | its ring and user counts | open, read, write, resize | resize exchanges the memory under a lock the read does not take |
| frontend core, `dvb-core/dvb_frontend.c` | state, semaphore, event queue, reference count | thread, ioctls, open, release | thread start and stop against open, release and disconnect |
| device registry, `dvb-core/dvbdev.c` | minors, users, readers, writers | register, open, release | counts against unregistering |

A correct system: the reader gets the stream without gaps he is not told of; a
started filter receives and a stopped or closed one does not; nothing taken from a
pool stays behind; the hardware works exactly while somebody needs it; an I2C result
belongs to the command it is read for; nobody waits for ever.

`PROJECT.json` lists all components, including those not modelled with the reason,
and the hazards of the code with the properties that cover each.

## 2. Modules

| Module | Models |
|---|---|
| `ByteStream` | what a ring buffer promises: a numbered stream, of which a stretch is in transit, and losses the reader can know of |
| `DvbRingBuffer` | `dvb_ringbuffer.c` with its two users in `dmxdev.c`, `dvb_dmxdev_ts_callback` and `dvb_dmxdev_buffer_read` |
| `DmxDev` | the filters of `dmxdev.c` composed with the feeds of `dvb_demux.c` and the feed counter and DMA switch of `tbsecp3-dvb.c` |
| `SectionFeed` | how a section feed of `dvb_demux.c` puts sections together from packets |
| `DvrDevice` | the ring of the dvr device and the memory behind it: open, close, resize, read, callback |
| `DmxdevExit` | `dvb_dmxdev_release` against open, read and close of demux and dvr files |
| `CaMessages` | what `read(2)` on a ca device promises: whole messages, the oldest first |
| `CaRxBuffer` | the packet ring (`dvb_ringbuffer_pkt_*`) between the CAM and `read(2)`; implements `CaMessages` |
| `CaSlot` | the slot thread of `dvb_ca_en50221.c` with interrupts, `io_open`, `io_read`, `io_write`, `CA_RESET`, and `tbsecp3-ca.c` as it is polled |
| `Swzigzag` | the software zigzag of `dvb_frontend.c`: one iteration of the thread, and the calls that change its state |
| `FeEvents` | the event queue of the frontend |
| `DvbFrontend` | the life of the frontend: thread, open, release, ioctl, stop, unregister, detach, with `dvbdev.c`'s registry |
| `Tbsecp3I2c` | `i2c_xfer`, the I2C half of `tbsecp3_irq_handler`, `tbsecp3_remove`'s order |
| `Tbsecp3Dma` | the DMA ring, the DMA half of `tbsecp3_irq_handler`, the tasklet, enable and disable |
| `*_proofs` | the theorems about the module of that name; `DvrDevice_proofs` has those about `DmxdevExit` as well, `FrontendThread_proofs` those about `Swzigzag` and `FeEvents`, `CommonInterface_proofs` those about `CaRxBuffer` and `CaSlot` |
| `MC*` | the instances TLC checks |

Three modules look at the same ring code from three sides. `DvbRingBuffer` follows the
bytes of one fixed ring; `DvrDevice` leaves the bytes out and follows the memory, which
open, close and resize exchange; `CaRxBuffer` has packets instead of bytes. In the same
way `Swzigzag`, `FeEvents` and `DvbFrontend` are three cuts through the frontend thread:
what an iteration does, what it reports, and when there is a thread at all. Where one
module of proofs extends two components, the names of one of them carry its own
(`ExitSpec`, `EventsSpec`, `RxSpec`).

**History variables.** Where the code goes wrong in a known way, the model records that
it has happened in a variable no step depends on, and the properties have its absence as
their hypothesis: `zombie` and `refused` (`DmxDev`, together `Sound`), `odd`
(`SectionFeed`, `DvrDevice`), `early` (`CaRxBuffer`), `late` and `leftover`
(`Tbsecp3Dma`, together `Undisturbed`), `failed` (`Swzigzag`), `torn` (`FeEvents`),
`raced` (`DvbFrontend`, `DmxdevExit`). So each property says exactly outside of which
situations it holds, and section 4 lists those situations. Except in `DmxDev` (below) and for
a reader of `CaRxBuffer` that has gone wrong, the model goes on afterwards.

**Types.** A module's `TypeOK` is a theorem, alone or as a conjunct of the module's
central invariant, wherever there is a `_proofs` module. In the others that invariant
contains it, so every run checks it.

### DvbRingBuffer

The bytes are numbered in the order in which the demux offers them, so a byte in the
buffer *is* its number and every misplaced, repeated or lost byte shows. `wstamp` is
the number the writer handles next, `rnext` the one the reader is entitled to next.
Each memcpy is made byte by byte and each `smp_store_release` of `pread` or `pwrite`
is an action of its own, because the two sides hold different locks (`dmxdev->lock`
and the filter's mutex). The release/acquire pairs of the code are what makes a
sequentially consistent model right; the orders they enforce are the order of the
actions.

* writer: `TsCallback`, `BufferWrite`, `CopyIn`, `PublishWrite`, `WakeUp`;
* reader: `ReadCall`, `ReadLoop`, `ReadWait`, `ReadSignal`, `ReadTestError`,
  `ReadAvail`, `CopyOut`, `CopyFault`, `PublishRead`, `FlushPointer`, `FlushError`;
* ioctls that touch the ring: `FilterStop`, `FilterStart`, `SetBufferSize`. They take
  the filter's mutex, so they happen between reads, and they stop the callbacks.

A TS callback of the software demux has one part (`buffer2_len` is 0).

### DmxDev

Every ioctl holds `dmxdev->mutex` from beginning to end, so it is one action, written
as a composition of functions on the whole state (`sys`) in the order of the code's
calls: `FilterStart` is `FilterStop` followed by `SecStart` or `TsStart`, and so on,
each named after the C function it stands for. What interleaves with the ioctls are
the section callback and the timeout handler; the handler is two actions, because it
sets the buffer's error without the lock and the state with it (`TimerExpires`,
`TimerMarks`), and `del_timer` does not wait for it. From the ring only the error mark
is kept; `ReadError` is the read that clears it.

The order in which a feed keeps its section filters plays no part, so `feed.filters` is a
set. A TS filter takes its feeds one after the other, each time the first that is free
(`StartFeed`): the k-th PID gets the k-th of the free feeds and of the free section
filters, as long as none before it was refused. Its feeds are stopped and released one
after the other as well (`TsStopFiltering`, `ReleaseTsFeed` of a set); nobody else can see
the demux in between, and `start_feed(s, n)` and `stop_feed(s, n)` are n calls, in which
the DMA is switched when the counter passes 0. `Ascending` and `Keep` say this without
recursion, which the proofs need.

An ioctl as a single action hides a callback that falls between two of its inner
steps. The callback takes `dmxdev->lock` and does nothing unless the filter's state is
`GO`; the feed callbacks and the demux's own stop and release exclude each other
through `demux->lock`. So such a callback has the effect of one that came before or
after the ioctl. The same is not quite true of the second half of the timeout handler:
when it falls inside a `DMX_START` its `TIMEDOUT` is overwritten by `GO`, an outcome
the model does not have (it has the two around it, of which one is a finding).

`zombie` records that a late handler has marked a filter that was not started, `refused`
that a TS feed was refused, `oops` that a NULL feed was dereferenced (nothing runs after
that).

### SectionFeed

`DmxDev` has the arrival of a section as one action; `SectionFeed` is what happens
below it in one section feed. A byte is its place in its section (section number,
offset, length of the section), so what the callback is given is either exactly one
section or it is torn. `buf` is `secbuf_base[0 .. tsfeedp - 1]`; `secbuf` is always
`secbuf_base + secbufp`, and `seclen` is never read before it is set.

The multiplexer is external (ISO 13818-1): sections of the lengths `Lens` are packed
one after the other, up to two start in a packet, the pointer leads to the first of
them, and what follows the last is stuffing, whose length field shows more than the
largest section. Bytes from the middle of a section show the length `misread`, the
smallest or the largest there is. A packet arrives (`First`, `Middle`), perhaps with the
discontinuity indicator, is `Lost`, has a bit error (`Damaged`) or no payload
(`NoPayload`); `Restart` is stop and start of the feed, by `dvb_dmxdev_feed_restart` or by
a new user. A packet with the transport error indicator is not dropped:
`dvb_demux_feed_err_pkts` is 1 by default (`dvb_demux.c:45`), so
`dvb_dmx_swfilter_packet` only marks the buffer flags and feeds the packet on. `Damage` is
what the error may have hit: a byte of the data (a length, too), the counter (also so that
it hides a loss), the pointer, PUSI; not the length of the adaptation field. The continuity
counter has its 16 values, and fewer than 16 packets are sent: 16 losses in a row are none
to the code, and `NeverTorn` says nothing of them. `cc` and `pusi_seen` begin with
anything, as `vmalloc` leaves them.

`intact` and `received` record which sections were received whole, `errors` and `odd` which
unusual things have happened; but for the bound on `errors` they influence no step. A
packet with a bit error can have a torn section handed out, so `NeverTorn` and
`OnceInOrder` are about streams without one; `Lossless` and the bounds of the buffer are
not: what is received whole after an error is handed out. The section filter accepts everything and
`DMX_CHECK_CRC` is off; with it on, the code discards torn sections that claim to carry
a CRC, and no others.

### DvrDevice

A block of memory is its length and the set of positions written since it was allocated;
a copy in progress is an access (block, from, length) that is there between two actions,
so the memory can be exchanged or freed under it. Open, close and resize hold
`dmxdev->mutex` and take several steps (`OpenReader`, `OpenData`, `OpenSize`; `Resize`,
`ResizeFrees`), the callback holds `dmxdev->lock`, and `dvb_dvr_read` holds nothing: the
actions `ReadCall` to `ReadRestDone` are its loads, copies and pointer stores. `InitRing`
is the end of `dvb_dmxdev_init`, after the device can already be opened.

### DmxdevExit

Files go through open (two steps under `dmxdev->mutex`, the read and the write of the
word that holds `may_do_mmap` and `exit`), perhaps a blocking read, and close, whose
wake-up is a step of its own. `dvb_dmxdev_release` sets `exit`, waits for the demux, then
for the dvr, and unregisters both.

### CaRxBuffer

The fragments that the CAM sends are appended byte by byte as `dvb_ringbuffer_pkt_write`
does, three bytes of header first; `pkt_next`, `pkt_read` and `pkt_dispose` walk the
ring as the code does, with the unsigned distance of `pkt_next` (`Wrap` is what the wrap
of `size_t` adds modulo the size: 2^64 is 1 modulo the code's 65535). `pkt_next` may look
at bytes that are no header, so the payload has values: the bytes of the n-th packet are
`Payload + n` modulo 256, and among them are those of a length and of both states. The reader is `dvb_ca_en50221_io_read` with its wait
condition; it may be interrupted and its copies may fault. The thread holds `slot_lock`,
the reader nothing. The refinement to `CaMessages` counts a fragment as waiting until the
read that has disposed of it returns.

### CaSlot

Three processes: the slot thread, the bridge's interrupts and a user. Thread and user
take `slot_lock`; the interrupts and several tests of `slot_state` do not. `open` and
`wakeup` are bit fields of one word, so a store is a load and a store (`Stores`,
`Store`). `IrqMode`, chosen at the beginning, is whether the bridge reports changes or is
polled, as `tbsecp3-ca.c` is. CAM accesses work or fail; with no CAM in the slot they
fail. CAMs are numbered, `linked` is the one the link was initialised with.

### Swzigzag

`Iteration` is `dvb_frontend_swzigzag` in one piece, since the thread holds `fepriv->sem`
throughout; its cases are named after what they come to (`GetsLock`, `LosesLock`,
`Retune`, `SearchFast`, `SearchSlow`, ...). `Place` is where the next attempt is: the loop
of `dvb_frontend_swzigzag_autotune` over steps, sub-steps and inversion. `tried` and
`twice` record what the fast scan has set so far. The carrier is external: it is at one
offset and inversion or nowhere, and moves. `fe` is the kind of frontend.

### FeEvents

The thread takes the semaphore, finds the status changed or not, adds an event in two
steps (`AddEvent` decides about the overflow, `AddStore` fills the slot and moves
`eventw`) and gives it up; the reader's wait in `dvb_frontend_get_event` gives the
semaphore away and takes it again around each test of the queue, as
`dvb_frontend_test_event` does. An event is its number, so order, gaps and repetitions
show.

### DvbFrontend

Threads, files and the driver. `dvbdev_mutex` and `minor_rwsem` make opens exclude each
other and the removal; `fepriv->sem` is a counting semaphore, because
`dvb_frontend_stop` initialises it again. The thread's end is five steps in the order of
the code: it decides (`ThreadWakes`), takes the semaphore and sets `fe->exit`
(`ThreadQuits`), suspends the hardware and clears `fepriv->thread` (`ThreadSleeps`), gives the
semaphore up (`ThreadUps`), wakes and ends (`ThreadEnds`). An open may fail for a signal
or want of a thread. `refcount` counts the references of files and driver.

### Tbsecp3I2c

`i2c_xfer` holds `bus->lock`, so one process is enough. Each command has a number; the
bus is abstracted to whether it is between START and STOP and how many bytes have
moved. The controller (`Complete`) is external: it finishes the commands it was given
in any order, late or never, with or without a nack. The handler is three actions: it
reads the status, writes it back, and sets `done`.

### Tbsecp3Dma

What the FPGA writes to one buffer is a numbered item, so the demux's view of the stream
is a sequence of numbers. The FPGA (`Advance`, `DMA_STAT`) is external: the status shows
the buffer being written, which the tasklet's distance of `TBSECP3_DMA_PRE_BUFFERS`
presupposes. Handler and tasklet are three steps each; a trigger that finds its flag or
the tasklet already set is merged. `Enable` and `Disable` are what `start_feed` and
`stop_feed` of `DmxDev` call; they stop neither the handler nor a scheduled tasklet.

## 3. Runs

| Run | Shows | Bounds | States |
|---|---|---|---|
| `ring` | `UnreadIntact`, `ReadIsContiguous`, `StreamSpec`, `SleeperIsWoken` | sizes 3 and 4, packets up to 3, reads up to 4, 6 bytes in all | 98 thousand |
| `dmxdev` | `ActiveHasFeed`, `NoOrphan`, `DmaFollowsFeeds`, `NoOops` | 2 filters, 2 feeds, 2 demux filters; PIDs 1, 2 and the whole stream (8192), section and TS filters, one-shot or timeout, up to 2 PIDs per TS filter | 168 thousand |
| `sections` | `NeverTorn`, `Lossless`, `OnceInOrder` | packets of 6 bytes with 3, 4 or 6 of payload, sections of 3, 5 and 8 (the largest), 4 packets, 1 of them with a bit error | 1.8 million |
| `dvr` | `AccessesAreSound`, `RingHasReader` | rings of 2 to 5 bytes, 3 blocks of memory, packets and reads up to 2, 3 calls | 4.5 million |
| `exit` | `OpenKeepsDevice`, `ReleaseReturns` | 3 demux files, 1 dvr file | 6 thousand |
| `ca_rx` | `PacketsIntact`, `MessageWhole`, `CopiesWhatWasSent`, `ReadsAreMessages`, `ReaderIsWoken` | a ring of 20 bytes, a link buffer of 4, fragments of 2 and 4 (all of it), 2 connections, reads that cut, payload from 255, 4 packets | 975 thousand |
| `ca_slot` | `FollowsCam`, `Settles` | with interrupts and polled; 3 events (insertions, failures, fragments, calls) | 373 thousand |
| `zigzag` | `FastScanIsOnce`, `FastScanIsComplete`, `FindsCarrier` | a frontend with 5 offsets and 2 inversions, one that recovers; 3 calls, 2 moves of the carrier, 1 refusal | 189 thousand |
| `fe_events` | `QueueInOrder`, `SleepsOnEmpty`, `StatusIsReported` | a ring of 3 slots, 5 changes of status, 4 calls | 387 thousand |
| `frontend` | `MutualExclusion`, `OneThread`, `FreedIsUnused`, `AwakeWhileOpen`, `SleepsWhenClosed`, `RequestIsTuned` | 2 writers, 1 reader, 2 threads, 3 opens, 1 request | 330 thousand |
| `i2c` | `OwnResult`, `NoLostCompletion`, `Framed`, `XferEnds` | 1 byte per read command, 2 per write command, messages of up to 3 bytes, 2 messages, 4 commands | 368 thousand |
| `dma` | `DeliversStream`, `Drains` | 4 buffers, 9 items | 201 thousand |

All pass. What they show:

* *ring*: no byte the reader has not passed is overwritten, at any point of either
  side's copy; a read is one stretch of the stream; the whole implements `ByteStream`,
  in which bytes are only lost with `overrun` set; a sleeping reader is woken.
* *dmxdev*: a started section filter has a running feed on its PID, the only one of that
  PID, whatever the filters that share it do; no feed stays behind; the bridge's counter
  is the number of running feeds and its DMA on exactly while there is one.
* *sections*: a section received whole is handed out, whatever came before it; without bit
  errors once, in order, and nothing torn is.
* *dvr*: reads copy bytes that were written into memory still allocated, writes stay in
  the ring's memory, and there is a ring exactly while there is a reader.
* *exit*: files opened before the release keep their device, and the release ends when
  they are closed.
* *ca_rx*: a packet survives until it is disposed of, although others around it are; each
  read takes exactly the oldest message; no read sleeps on a complete one.
* *ca_slot*: a running slot talks to the CAM that is in it, however often it was
  exchanged meanwhile; the slot comes to rest when nothing more happens.
* *zigzag*: the fast scan tries everything once; a carrier that stays is found.
* *fe_events*: a reader gets the events in order, his own, or is told of a loss; a change
  of the status becomes an event.
* *frontend*: one thread at a time and one holder of the semaphore; nothing is freed in
  use; the hardware sleeps after the last close and not before; a request is carried out.
* *i2c*: a transfer reads its own command's result; no completion is lost; each message
  is one frame; each transfer ends.
* *dma*: the demux gets whole buffers, in order; what was filled is handed over.

Why the bounds are enough. *Ring*: with a size of 3 or 4 and 6 bytes every packet
length up to a full ring occurs at every position, so both sides split, wrap, meet
full and empty rings and overflow, and the size changes in both directions. *DmxDev*:
two filters are the least that share a feed; a TS filter of two PIDs takes all feeds, so
that the next start is refused. The pool of section filters does not run dry while a feed is
left. *Sections*: the lengths give the shortest section (a header and nothing else), the
largest, which needs two or three packets, sections that end with their packet, one byte
after it began, or together with another; four packets are enough for a loss between two
sections, one inside a section, and what comes after; of bit errors there is one, since it
is the packets after it that have to recover. The payload is as long as the
packet, which leaves less room in `secbuf` than the code's 184 of 188. *Dvr*: a resize to
a smaller and to a larger ring than the default, each before or after a close; a block is
reused after it was freed. *Exit*: two files for the two waits and a third that overlaps.
*CaRx*: three packets fill the ring to its last byte or nearly, the fourth goes round; the
payload is 255, 0, 1 and 2, so it looks like lengths, states and connections. A fragment can
be as long as the link buffer, as all but the last of a message usually are. *CaSlot*: an insertion, an
exchange and one more event of any kind meet every state. *Zigzag*: a scan of ten
settings, started in its middle after a lost lock. *Events*: the ring overflows twice.
*Frontend*: a close and an open while the first thread ends, and a third, which finds
what they left. Four opens without the temporal properties are a million states and pass
too; they are the fewest that reach the second thread behind `"sem"` in section 4, which
the properties except. *I2C*: a read of three commands, a write that fills its last command
exactly and one that does not, an empty message, and four commands so that two late
answers can meet a later transfer. *DMA*: the ring is gone round twice.

The `dmxdev` run has `CONSTRAINT Sound`: after a late handler has revived a closed filter
or a TS feed was refused the state space is that of the findings below, and is not
followed. Refusals of *section* feeds and filters are handled properly by the code and
are inside.

Deadlock is checked in `zigzag` and `frontend`, which can always go on (`frontend` has a
step `Done` for the end of its bounds). Elsewhere users may stop calling, and the bounds
end a behaviour; in `fe_events` a reader may also sleep with the semaphore for ever.

Fairness.

* *Ring*, *CaRx*: the callback's (the thread's) own steps and the reader's, once begun.
  The demux owes no packet, the CAM no fragment, no user a read.
* *I2C*: `i2c_xfer`'s own steps and its timeout, since `wait_event_timeout` always
  returns; none for the controller or the interrupt. `XferEnds` so holds with dead
  hardware and after the interrupt was freed. It says "or the bound on commands is
  reached", which is the only way the model itself stops a transfer.
* *DMA*: interrupts are served and a scheduled tasklet runs. The FPGA owes nothing.
* *CaSlot*: the thread's steps, since every sleep has a timeout; strong fairness for
  taking `slot_lock`, a mutex that is handed over in turn, and for looking at a waiting
  state when its time is over; interrupts and calls that have begun are finished.
* *Zigzag*: the thread iterates, its waits have timeouts.
* *Events*, *Frontend*: the same, and strong fairness for the thread's `down` and, in
  `DvbFrontend`, for its wake-up after the timeout, because others take the semaphore in
  between; system calls that can go on do. Nobody owes a call or a close.
* *Exit*: the release's steps, the rest of an open or close that has begun, and the
  close of an open file (strong, for the mutex): programs close what is gone. Nothing is
  owed to a read that waits for data.

## 4. Findings

Disagreements between the code and what its comments and headers say, met while
modelling. Each is in the model: the formula given is violated by the module's own
specification, or the history variable named is set by it.

Demux and dvr (`dvb-core/dmxdev.c`, `dvb_demux.c`)

* **The overflow error can vanish** (`dmxdev.c:109`). A blocking read that has copied
  bytes and meets `buffer->error` in a later round of its loop flushes and clears it,
  then returns the byte count. No read ever returns that error, although
  `dvb_ringbuffer.h:36` has it "to indicate that an error happened".
* **A one-shot filter delivers again** (`dmxdev.c:514`). `dvb_dmxdev_feed_restart`
  calls `dvb_dmxdev_feed_start` for the first active filter on the PID, which sets it
  to `GO` even if it was `DONE`. `dmx.h:168`: "disable the section filter after one
  section has been delivered".
* **A late timeout handler revives a closed filter** (`dmxdev.c:369`). `del_timer` does
  not wait for a running handler, and the handler does not look at the state. The slot
  is then neither free nor owned, and cannot be opened any more
  (`f \notin fds => filter[f].state = FREE`; `zombie`).
* **A failed start of several TS feeds leaks the first ones** (`dmxdev.c:776`). The
  clean-up goes through `dvb_dmxdev_filter_stop`, which returns at once below `GO`: the
  feeds go on after the close and call back into the freed filter (`refused`).
* **A refused `DMX_ADD_PID` plants a NULL feed** (`dmxdev.c:501`, list entry made at
  line 891), dereferenced by the next stop (`~oops`; `refused`).
* **A feed can start with `pusi_seen` set** (`dvb_demux.c:970`). Neither the start nor
  the allocation of a section feed resets it, although the comment at line 236 counts on
  it; if the continuity counter of the first packet fits, the end of a section is handed
  out as a section (`odd` has `"stale"`).
* **Sections are delivered again** (`dvb_demux.c:402`). A packet without payload resets
  `secbufp` but not `tsfeedp`, so the next packet makes the demux go through the whole
  buffer again (`OnceInOrder` without its hypothesis).
* **A resize pulls the memory from under a read** (`dmxdev.c:310`). `dvb_dvr_read` takes
  no lock; it goes on with the length it computed and copies bytes nobody wrote, or freed
  ones (`odd` has `"read"`). `dmxdev.h:171` says of the mutex: "protects the usage of this
  structure."
* **An open with the size of the last ring** (`dmxdev.c:181`). `dvb_ringbuffer_init`
  stores `data` before `size`, without `dmxdev->lock`: after a ring that had been
  enlarged, a callback in between writes behind the new memory (`"grown"`).
* **An open before the ring is initialised** (`dmxdev.c:1440`). The dvr device is
  registered first; the ring of a reader who comes in between is set to NULL (`"early"`).
* **A ring for a write-only file** (`dmxdev.c:303`). `DMX_SET_BUFFER_SIZE` allocates one,
  which close leaves alone and the next open overwrites (`"write only"`). The comment at
  line 150: "It is not needed, however, on two situations: - Write devices".
* **An open after the release has counted** (`dmxdev.c:803`). `dvb_demux_open` does not
  look at `exit`; the file is left with a device that is freed (`OpenKeepsDevice` without
  `~raced`).
* **An open takes `exit` back** (`dmxdev.c:1449`). `exit` and `may_do_mmap` share a word:
  an open that has read it writes the old `exit` back, the last close does not wake the
  release, and it sleeps for ever (`ReleaseReturns` without `raced`).
* **A blocked read keeps the release waiting** (`dmxdev.c:1451`). Nobody wakes it, and its
  wait condition does not contain `exit` (`ReleaseReturns` without its last case).
* **The last wake-up can come too late** (`dmxdev.c:1257`). The close lowers `users`,
  unlocks and then wakes a queue that the release, which has seen the count, may have
  freed (`fpc[f] = "wakes" => Device(f) \notin freed`).

Common interface (`dvb-core/dvb_ca_en50221.c`)

* **A packet is visible before it is complete** (`dvb_ringbuffer.c:198`). A packet that
  runs over the end of the buffer has `pwrite = 0` stored between its two copies, and
  `pkt_next` returns it: `io_read` copies what was in the ring before (`early`). Line 192
  says that the store is "to ensure that written data is visible on other cpu cores
  before the pointer update".
* **A full ring has no end** (`dvb_ringbuffer.c:338`). `consumed = (idx -
  rbuf->pread) % rbuf->size` is computed in `size_t`, and 2^64 is 1 modulo 65535: behind the
  end of the buffer it is one too large, which for the place just before `pread` is 0.
  `read_data` asks for `link_buf_size + 3` free bytes (line 652 of `dvb_ca_en50221.c`) and
  takes a fragment that has all `link_buf_size` (line 697 refuses longer ones only), so the
  ring can be filled to its last byte, and `pwrite` is then this place. Called behind the last
  packet, `pkt_next` does not see the end, goes through the ring once more, starting at the
  unused byte, and takes payload for headers. The wait condition can find a last fragment
  that is none; `io_read` then consumes the fragments of a message that is not complete and
  returns -EIO: line 1640, "BUG: read packet ended before last_fragment encountered"
  (`EndIsFound` for `MCCaRxBuffer.cfg` when `Blank` does not set `early`: 55 states; found when
  a proof of `PacketsIntact` had to say where `pkt_next` stops). `Blank` is the first step of
  this: a look of `pkt_next` at the end that takes it for a packet. It sets `early`, unless
  the read already has its last fragment and does not use what is found.
* **A polled CAM that is pulled is not shut down** (`:1103`). `poll_cam_gone` sets the
  state to NONE itself; a CAM that had been RUNNING and was pulled while its link was
  initialised again leaves the stream routed through the empty slot
  (`slot_state = "NONE" => ~ts` without `IrqMode`). Line 900: "A CAM has been removed =>
  shut it down."
* **The open flag can be lost** (`:1313`). The thread's store of `wakeup` writes back the
  `open` it had loaded before `io_open`; the device is open and no data is read
  (`pc.user = "ready" => flags.open`).
* **A wake-up can be missed** (`:1307`). The thread tests `wakeup` before it sets its task
  state, and sleeps its whole delay with `wakeup` set.
* **A write to a CAM that is not running** (`:1501`). `io_write` tests the state before it
  waits for the lock (`pc.user = "write" => slot_state = "RUNNING"`), although line 1498
  has it "check the CAM hasn't been removed/reset in the meantime".
* **Fragments of another session** (`:1722`). `io_open` flushes the receive buffer only if
  there is none, and no change of the CAM does: an unfinished message is joined to the
  first one of the next session.

Frontend (`dvb-core/dvb_frontend.c`)

* **No zigzag, no end** (`:399`). With `step_size` 0, which line 2304 sets for "no
  zigzag", `auto_step` never wraps and the fast scan never ends (`FastScanIsOnce` for a
  frontend with `step_size |-> 0`). Line 584: "if we've run out of trials at the fast
  speed. Drop back to slow".
* **A refused setting stays in the cache** (`:465`). `dvb_frontend_swzigzag_autotune`
  returns before it restores frequency and inversion (`failed`).
* **Blocking for an event stops the thread** (`:300`). `FE_GET_EVENT` sleeps with the
  semaphore, which `dvb_frontend_test_event` took again: the thread can neither tune nor
  add the event that would wake the reader (`StatusIsReported` without its last case, or
  TLC's deadlock check).
* **An open empties the queue under the thread** (`:2880`). Without a lock, while the
  thread of the last user is inside `dvb_frontend_add_event`, whose store of `eventw`
  brings old events back (`torn`). `overflow` is not cleared either, so a new user can be
  told of a loss he did not have.
* **Suspended while open** (`:680`). The thread decides to end at line 676 and says so at
  line 680; an open in between relies on it and succeeds, its requests are not carried
  out (`raced` has `"decided"`). Line 48: "wait <shutdown_timeout> seconds after close()
  before suspending hardware".
* **The semaphore is initialised while it is held** (`:816`), by an ioctl of a reader that
  got it when the thread ended: the ioctl runs together with the next thread, and the
  count is 2 from then on (`"sem"`). A later open then gets the semaphore beside a thread
  that is ending, makes a second one, and the first suspends the hardware under the open
  file (`OneThread` and `AwakeWhileOpen` without `"sem"`; four opens are needed, and the
  attempt to prove `OneThread` without it is what showed the way).
* **A thread after the unregistering** (`:3080`). An open that overlaps it sets `fe->exit`
  back and starts a thread that nobody stops (`"open"`). `dvb_frontend.h:736`: "Stops the
  frontend kthread, ... and frees the private frontend data".
* **An ending thread is not waited for** (`:788`). It clears `fepriv->thread` before its
  last uses of `fe`; the driver can free the frontend under it (`"ending"`).

Bridge (`pci/tbsecp3/tbsecp3-dma.c`)

* **Two old triggers** (`:36`). The first two triggers after enable are not believed, which
  makes up for one that is left from before, not for two: a scheduled tasklet and a
  handler between reading the status and scheduling (`leftover`).

## 5. Proofs

**DvbRingBuffer_proofs** (646 obligations). For every set of sizes, packet and read
length and number of bytes: `TypeCorrect`, `UnreadIsIntact`, `ReadsAreContiguous`,
`LossIsMarked`, and `RingIsStream`: the specification implements `ByteStream`. Assumed
is only that sizes are positive and bounded by `MaxSize` and the bounds are natural
numbers.

The properties are not inductive alone. `IInv` adds: in `WriterInv`, what the writer
has checked stays true while it copies (the free space can only grow, since the reader
alone moves `pread` and the writer alone `pwrite`), and its split ends at the end of the
buffer; in `WrittenInv`, the bytes copied so far and not yet published lie behind
`pwrite` and are the stream's next; in `ReaderInv`, the reader's length was available
when it looked and still is, and a flush happens only with an error pending. Arithmetic
modulo `size` is confined to lemmas (`ModWrap`, `WriteAdvances`, `ReadAdvances`): one
store of a pointer moves the distance by exactly the segment. There is one lemma per
action. The refinement maps `lo` to `rnext`, `hi` to `rnext + avail`, `next` to
`wstamp` and `overrun` to `error # 0`.

**Tbsecp3I2c_proofs** (412 obligations). For every command size, message length and
number of commands: `TypeCorrect`, `ResultIsOwn`, `CompletionIsSeen`,
`MessagesAreFramed`. `IInv` adds `OneCommand` (if nothing was outstanding when `done`
was reset, then the only command that runs, is signalled or has been seen is the last;
exactly one of "running" and "signalled" is true), `HandlerSaw`, `Frame` (how much of
the message has moved at each point of the loop) and `RetIsNone`. Assumed: the command
sizes are not 0.

**Tbsecp3Dma_proofs** (648 obligations). For rings of 4, 8 and 16 buffers (the code's
is 16; the mask makes it a power of two) and a stream of any length: `TypeCorrect`,
`DeliveryIsStream`. The tasklet knows places in the ring, the
properties speak of items in the stream; `Inv` ties them together: `Stored` (the items
since enable are in the ring as far as they fit), `Triggers` (before the first item is
full only triggers from before enable can have come), `Placed` (`next_buffer` is the place
of the item to be read next, which is filled and not yet overwritten), `Ahead` (in its
loop the tasklet heads for a place less than a round away, at which the FPGA is past the item
after the one being read), `Copied` (the rest of the last packet is behind the ring when
it is needed), `Given` (what was handed over last is the item before the next). The
arithmetic is in lemmas about places (`PlaceIsUnique`, `NextPlace`, `LimitPlace`), by
cases on the ring's size.

**DmxDev_proofs** (5372 obligations, about ten minutes). For any number of filters, feeds
and section filters, all PIDs and every order of ioctls, callbacks and timers:
`StartedFiltersReceive` (`ActiveHasFeed`), `NothingIsOrphaned` (`NoOrphan`),
`CounterIsExact` (`DmaFollowsFeeds`) and `NoNullFeed` (`NoOops`, which has `TypeOK`).
Assumed is `PoolsAssumption`: the pools are not empty, PIDs are natural numbers.

None of the four is inductive, and none can be proved without the others: that
`dvb_dmxdev_feed_stop` lowers the counter by one needs that the feed ran, which needs that
a started filter has it; that a released feed has no section filter left needs that
nobody else had one on it. The inductive invariant `IInv` says of the state between two
steps that the variables have their types and, if `Sound`, that `Good(sys, NULL)` holds.
In the middle of an ioctl more can be the case: a section feed that several filters use is
halted, and they are still started. `Good(s, h)` allows it for one feed `h`:

* `Sections`: a started section filter has a section feed of its PID, which runs or is
  `h`, and a section filter on it that points back; `Shares`: two of them with the same PID
  have the same feed;
* `Streams`: the feeds in the list of a started TS filter run, are its own, have a section
  filter, and each is there once; `Quiet`: the list of a stopped one names none;
* `Owners`: a feed in use is `h`, or runs and is the feed of a started section filter or in
  the list of the started TS filter it points to; `Hooks`: a section filter of the demux is
  in use exactly if its feed lists it, and on a section feed it belongs to a filter that is
  started;
* `Halted`: `h` is a section feed that is ready; `Kinds`: what is started has a type;
* `Counted`: the counter is the number of the feeds that run, the DMA follows it.

For each function of the model there is a lemma about what it returns and one that takes
`Good(s, h)` to `Good(t, h')`: `SectionStopFiltering` makes a feed `h` (`HaltGood`),
`ReleaseFilter` unhooks from `h` (`UnhookGood`), `FeedRestart` runs `h` again if a started
filter has its PID, and releases it otherwise (`RestartGood`), so `FilterStop` leads from
`Good(s, NULL)` back to it, and so on up to the ioctls. `Shares` is why the search by PID
in `dvb_dmxdev_feed_restart` finds just the filters of this feed. A set of feeds is
attached to a TS filter, or detached, in one step (`AttachGood`, `DetachGood`), with the
counter by cardinality; that the free feeds can be put in order at all (`SortExists`) is an
induction over the size of a set, written as one over a well-founded order.

**DvrDevice_proofs** (919 obligations). For every size of the ring and of a resize, any
packet and read length, number of memory blocks and of calls: `RingAccessesAreSound`
(`AccessesAreSound`, with `TypeOK`) and `NothingLeaks` (`RingHasReader`). Assumed: sizes
are positive, and the ring that `dvb_dmxdev_init` describes is not larger than the one an
open allocates (8192 and 10 * 188 * 1024 bytes). `IInv` has one conjunct for each thing
the parties rely on without a common lock: `Pointers` (they are positions of the ring),
`Bounded` (the ring has the memory its `size` says, at each step of an open or resize, and
the callback does not write into what a resize is about to free), `Owned` (whose memory it
is between two steps), `Filled` (what lies between `pread` and `pwrite` was written),
`Writing` and `Reading` (what each side computed from a pointer it does not own still
holds: the other side only makes more room). Each has its own hypothesis on `odd`, so
that the theorem excepts, for each claim, only the oddities that break it.

**DvrDevice_proofs, the release** (241 obligations, about `DmxdevExit`). For any number of demux and dvr files:
`DeviceOutlivesFiles` (`OpenKeepsDevice`). Assumed: the set of files is finite. The count
`users` is tied to the files by cardinality (`Counted`); `Waited` says that, without a
race, a release that is past a device's wait has no file of it left and finds none coming.

**FrontendThread_proofs, the zigzag** (769 obligations, about `Swzigzag`). For every
`step_size` and `max_drift`, with and without inversions to try, and any number of calls,
moves of the carrier and refusals: `ScanIsOnce` (`FastScanIsOnce`, with `TypeOK`) for a
frontend with a `step_size`, and `ScanIsComplete` (the action property
`FastScanIsComplete`). Without a `step_size` the first is false (section 4), and the fast
scan never ends, so that the second holds. Assumed: steps and drifts are natural numbers.
The code keeps its place in the scan in three variables, `auto_step`, `auto_sub_step` and
`inversion`, and nothing of what it has tried. `Visited` says for each place which pairs of
offset and inversion lie before it: everything nearer than the present step, and of the two
offsets of this step what the sub-steps up to now have set. `IInv` is that `tried` is
*exactly* this set (`Scanning`): not less, for completeness, and not more, for "once". It also
has `InDrift` (a step that would leave the drift ends the scan), `Fresh` (a request begins
with nothing tried) and `Kept` (attempts leave the frequency of the request in the cache).
`Multiple` is the arithmetic: no multiple of the step lies between two steps.

**FrontendThread_proofs, the events** (381 obligations, about `FeEvents`). For every size of the ring from 2 and any number of
events: `EventsAreInOrder` (`QueueInOrder`, with `TypeOK`) and `SleepersHaveNothing`
(`SleepsOnEmpty`). The place of an event is kept without the modulus (`Age`, `Fill`), and
two lemmas lead back to the code's `%`. What makes it inductive is `Storing` (between the
two halves of `dvb_frontend_add_event` the slot it took is still free) and `Tested` (a test
of the queue that found nothing is right when it is used, or the task was woken since).

**DvbFrontend_proofs** (877 obligations). For any number of writers, readers, threads,
opens and ioctls: `SemaphoreExcludes` (`MutualExclusion`), `AtMostOneThread`
(`OneThread`), `NoUseAfterFree` (`FreedIsUnused`, with `TypeOK`) and `HardwareStaysAwake`
(the action property `AwakeWhileOpen`). Assumed: finitely many files, and `NULL` is none of
them. `IInv`: `Holder`, `OneWriter` and `Counts` tie `dvbdev_mutex`, `writers` and
`refcount` to the files; `Semaphore` says who may hold `sem` when; `Known` that the one
active thread is the one in `fepriv->thread`, or the open that made it is about to store
it there, or it has just cleared it; `Makes` what an open knows at each of its steps (at
`"create"`, with the semaphore, there is no active thread); `Stops` and `Ended` what
`kthread_stop` leaves behind; `Served` that a file open for writing has a thread that goes
on, from which no thread that suspends the hardware can meet it.

**CommonInterface_proofs, the ring** (4749 obligations, about `CaRxBuffer`). For every size of
the ring and of the link buffer, any lengths, connections and payload: `PacketsAreIntact`
(`PacketsIntact`, with `RxTypeOK`), `MessagesAreWhole` (`MessageWhole`), `ReadsCopyWhatWasSent`
(`CopiesWhatWasSent`) and the refinement `ReadsTakeMessages` (`ReadsAreMessages`). Assumed are the named assumptions of the module and nothing
else: a link buffer of 2 to 65535 bytes (the code's `HOST_LINK_BUF_SIZE` is 512; a length has
two bytes), a ring larger than the largest packet, fragments of 2 bytes up to the whole link
buffer, and a wrap of `size_t` that adds 0 or 1. The ring may be full to its last byte. Reads
that look past the end of such a ring, and those that meet a packet half published, are the
two cases of `early` (section 4); what they use is not claimed to be right, but
`PacketsIntact` holds in their presence too, up to the disposal the model leaves out. What
`pkt_next` may
return is not a matter of the bytes at one place but of all the packets in front of it, so
the invariant starts from the first packet `f` that is still in the ring. `Line`: the packets
from `f` on lie one behind the other from `pread` to `pwrite`, the last one as far as it is
published, and at least one byte behind its end is free. `Contents`: every
published byte of each of them is there, with its status. `Gone`: what lies before `f` was
disposed of. `Looking`: where `pkt_next` looks is where a packet begins, or will begin, and
`consumed` is not less than the true distance, so a header it goes by is a header; the
exception is the end of a full ring, where `BlankIs` says that the look is `Blank`. `Adrift` is
where the place may be anything: the read has gone wrong, or has its last fragment. `Holding`
and `Using`: the packet a read has is in the ring and not disposed of, the one it will
dispose of lies before it and is complete (or `early`). Distances are measured from `pread`
(`Off`), in which the ring has no seam; `Farther`, `Nearer` and `SamePlace` say what they do
when `pread` or a place moves.

The other three theorems add what a read knows (`Reading`). `Queue` is what waits in
`CaMessages`: the packets not disposed of, and those the read has taken. `Members`: what it
has taken is in order and disposed of, except the last one for a while. `Passed`: of the
packets before the place where `pkt_next` is, exactly those of the read's connection are
taken, so the set it has taken depends on the place alone; `Way` and `Stands` say it while the
place is looked for and when a packet is found there (`Way` also that `consumed` is too large
by the wrap at most, so that `pkt_next` does not stop before a packet whose flag is
published). `Joins`: the read's connection is that of the first packet of the queue, and once
it has the last fragment, what it has taken is the message. `Ahead`: until then the packet
that ends the message is in front of it, flag and all; the wait condition saw it, and the
reader alone disposes. `Blind` keeps a read that went early out of all this. In the step to
`CaMessages` a fragment that is announced to the ring is a `Put`, the return of a read that has
the last fragment a `Get` (`MessageIsGot`), a copy that faults a `Spoil` up to the packet it was
at (`BeginningIsSpoilt`), and every other step of thread and reader leaves the queue alone:
also a disposal, and giving space back.

**CommonInterface_proofs, the slot** (801 obligations, about `CaSlot`). With interrupts and polled, for any bound on the
packets of an iteration and any number of events: `CaSlotFollows` (`FollowsCam`, with
`TypeOK`). Assumed is `BoundsAssumption`: an iteration takes at least one packet. The claim
is about a moment at which `slot_state`, `camchange_count` and the CAM are seen together,
and each is changed by another party without a common lock. `IInv` has `Linked`, the claim
itself; `Handling`: the thread takes the slot out of RUNNING before it lowers the count of a
change, so the count cannot be 0 with the old link in use; `Counted`: a change that is being
handled is counted as long as that takes, and changes are bounded by the events, since two
come from one insertion; `Untouched`: nothing runs before anything has happened; and for
the types `Places` (in the middle of a store of a flag, the step that comes after it is one
of the same party), `Received`, `Limited` and `Written`. All of it holds polled as well but
`Linked`, which the code then breaks (section 4).

Only model-checked: liveness (`SleeperIsWoken`, `XferEnds`, `Drains`, `ReaderIsWoken`,
`Settles`, `FindsCarrier`, `StatusIsReported`, `SleepsWhenClosed`, `RequestIsTuned`,
`ReleaseReturns`), which needs fairness and is out of the prover's reach; and the safety
properties of `SectionFeed`.
`SectionFeed`'s step from a packet to the sections in it is a recursive function on the
section buffer, and what it computes needs an induction over data. For the same reason
`CopiesWhatWasSent` says of each step what is put behind the bytes of a read, and not of all
its steps that the bytes are the concatenation of the payloads.

## 6. Not modelled

See the components of `PROJECT.json`. Almost all of the 1.5 million lines are drivers for
chips and cards, most of them mainline's: register sequences whose meaning is in data
sheets, and tables. The models cover the code all TBS cards run in common. In it:

* *demux*: recording outputs other than the dvr, poll, the header that
  `dvb_dmxdev_read_sec` reads first, mmap streaming (`CONFIG_DVB_MMAP`), signals that
  interrupt a mutex inside an ioctl, the mutexes themselves (a read that blocks with the
  filter's mutex makes an ioctl hold `dmxdev->mutex`, line 1047), the frontend list,
  `DMX_OUT_DECODER`, the memory that `DMX_SET_FILTER` leaks after a TS filter;
* *packets*: section filter masks, the CRC, duplicated packets, PES payload, the search for
  0x47 in `dvb_dmx_swfilter`, the statistics of `dvb_demux_tscheck`;
* *dvr*: `dvb_dvr_write`, the frontend it connects, poll, `O_RDWR`;
* *common interface*: several slots, CIS parsing, the delays, `link_buf_size` as a number,
  a failing `vmalloc`, `da_irq_supported`, `dvb_ca_en50221_release`;
* *frontend*: property ioctls and the conversion of parameters, hardware and custom
  algorithms beyond taking a request, `mfe_shared`, `ts_bus_ctrl`, suspend in
  `DvbFrontend`, delays and quality in `Swzigzag`, the parameters in an event, whether
  `kthread_stop` still finds the task structure of an ended thread;
* *bridge*: probe, board tables, ASI, the register sequences of the CI.

## 7. Plan

1. `SectionFeed`: section filter masks with several filters on a feed, and an abstract
   specification "a subset of the sections sent, in order, none torn".
2. The locks of `dmxdev.c` as a module of their own, for the wait of an ioctl on a
   blocked read.
3. `dvb_net.c`: the reassembly of ULE, after the pattern of `SectionFeed`.
