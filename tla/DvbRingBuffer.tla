--------------------------- MODULE DvbRingBuffer ---------------------------
(***************************************************************************)
(* The ring buffer of the DVB core (dvb_ringbuffer.c) as the demux device  *)
(* uses it for a TS filter with output DMX_OUT_TAP (dmxdev.c): one writer, *)
(* the demux callback, which holds dmxdev->lock, and one reader, read(2),  *)
(* which holds the filter's mutex.  They share no lock: every memory copy  *)
(* is made byte by byte and every pointer is published in a step of its    *)
(* own, so that the two run interleaved.                                   *)
(*                                                                         *)
(* A byte of the stream is its number in the order the demux offers them:  *)
(* wstamp is the number of the next byte the writer handles.  rnext is the *)
(* number of the byte the reader is entitled to next.                      *)
(***************************************************************************)
EXTENDS Integers

CONSTANTS
    Sizes,          \* buffer sizes DMX_SET_BUFFER_SIZE is called with
    MaxSize,        \* the largest of them
    MaxPacket,      \* bound on the bytes of one callback
    MaxCount,       \* bound on the count of one read
    MaxBytes        \* bound on the bytes the demux offers in a behaviour

ASSUME SizesAssumption == MaxSize \in Nat /\ Sizes \subseteq 1 .. MaxSize
ASSUME BoundsAssumption == MaxPacket \in Nat /\ MaxCount \in Nat /\ MaxBytes \in Nat

VARIABLES
    running,        \* the filter is started (state >= DMXDEV_STATE_GO)
    size, data, pread, pwrite, error,           \* struct dvb_ringbuffer
    wpc, wtodo, wsplit, wk, wstamp,             \* the callback
    rpc, nonblock, rtodo, rlen, rsplit, rk, rdone, rcopied, ubuf, rret, rnext
                                                \* the read

ring   == <<size, data, pread, pwrite, error>>
writer == <<wpc, wtodo, wsplit, wk, wstamp>>
reader == <<rpc, nonblock, rtodo, rlen, rsplit, rk, rdone, rcopied, ubuf, rret, rnext>>
(* The variables of one call; they end with it, and so does ubuf, which    *)
(* the user has then taken.                                                *)
call   == <<nonblock, rtodo, rlen, rsplit, rk, rdone, rcopied, ubuf>>
vars   == <<running, ring, writer, reader>>

EOVERFLOW   == -75
EWOULDBLOCK == -11
EFAULT      == -14
ERESTARTSYS == -512

---------------------------------------------------------------------------
(* The pointer arithmetic.                                                 *)

dvb_ringbuffer_empty == pread = pwrite

dvb_ringbuffer_free ==
    LET free == pread - pwrite
    IN  (IF free <= 0 THEN free + size ELSE free) - 1

dvb_ringbuffer_avail ==
    LET avail == pwrite - pread
    IN  IF avail < 0 THEN avail + size ELSE avail

(* The bytes before the end of the memory, when a copy of len bytes from   *)
(* position p runs over it.                                                *)
Split(p, len) == IF p + len > size THEN size - p ELSE 0

(* The bytes the current memcpy moves.                                     *)
wseg == IF wsplit > 0 THEN wsplit ELSE wtodo
rseg == IF rsplit > 0 THEN rsplit ELSE rlen

(* The pointer after the current memcpy.                                   *)
Advance(p, split, seg) == IF split > 0 THEN 0 ELSE (p + seg) % size

---------------------------------------------------------------------------
Init ==
    /\ running = TRUE
    /\ size \in Sizes
    /\ data = [i \in 0 .. MaxSize - 1 |-> 0]
    /\ pread = 0 /\ pwrite = 0 /\ error = 0
    /\ wpc = "idle" /\ wtodo = 0 /\ wsplit = 0 /\ wk = 0 /\ wstamp = 0
    /\ rpc = "idle" /\ nonblock = FALSE
    /\ rtodo = 0 /\ rlen = 0 /\ rsplit = 0 /\ rk = 0 /\ rdone = 0 /\ rcopied = 0
    /\ ubuf = [i \in 0 .. MaxCount - 1 |-> 0]
    /\ rret = 0 /\ rnext = 0

---------------------------------------------------------------------------
(* The writer: dvb_dmxdev_ts_callback                                      *)

(* A packet of n bytes arrives.  After an error it is dropped.             *)
TsCallback(n) ==
    /\ wpc = "idle" /\ running
    /\ wstamp + n <= MaxBytes
    /\ IF error # 0
         THEN wstamp' = wstamp + n /\ wpc' = "wake" /\ wtodo' = 0
         ELSE wpc' = "check" /\ wtodo' = n /\ wstamp' = wstamp
    /\ UNCHANGED <<running, ring, wsplit, wk, reader>>

(* A bug: the packet that does not fit is dropped and no error is set.     *)
OverflowUnmarked ==
    /\ wpc = "check"
    /\ \/ /\ wtodo > dvb_ringbuffer_free
          /\ error' = error
          /\ wstamp' = wstamp + wtodo
          /\ wpc' = "wake" /\ wtodo' = 0
          /\ UNCHANGED wsplit
       \/ /\ wtodo <= dvb_ringbuffer_free
          /\ wpc' = "copy" /\ wsplit' = Split(pwrite, wtodo)
          /\ UNCHANGED <<error, wtodo, wstamp>>
    /\ UNCHANGED <<running, size, data, pread, pwrite, wk, reader>>

(* A bug: the overflow is marked and the reader is left asleep.            *)
OverflowWithoutWake ==
    /\ wpc = "check"
    /\ \/ /\ wtodo > dvb_ringbuffer_free
          /\ error' = EOVERFLOW
          /\ wstamp' = wstamp + wtodo
          /\ wpc' = "idle" /\ wtodo' = 0
          /\ UNCHANGED wsplit
       \/ /\ wtodo <= dvb_ringbuffer_free
          /\ wpc' = "copy" /\ wsplit' = Split(pwrite, wtodo)
          /\ UNCHANGED <<error, wtodo, wstamp>>
    /\ UNCHANGED <<running, size, data, pread, pwrite, wk, reader>>

(* dvb_dmxdev_buffer_write: a packet that does not fit is an error.        *)
BufferWrite ==
    /\ wpc = "check"
    /\ \/ /\ wtodo > dvb_ringbuffer_free
          /\ error' = EOVERFLOW
          /\ wstamp' = wstamp + wtodo
          /\ wpc' = "wake" /\ wtodo' = 0
          /\ UNCHANGED wsplit
       \/ /\ wtodo <= dvb_ringbuffer_free
          /\ wpc' = "copy" /\ wsplit' = Split(pwrite, wtodo)
          /\ UNCHANGED <<error, wtodo, wstamp>>
    /\ UNCHANGED <<running, size, data, pread, pwrite, wk, reader>>

(* dvb_ringbuffer_write: one byte of a memcpy ...                          *)
CopyIn ==
    /\ wpc = "copy" /\ wk < wseg
    /\ data' = [data EXCEPT ![pwrite + wk] = wstamp + wk]
    /\ wk' = wk + 1
    /\ UNCHANGED <<running, size, pread, pwrite, error, wpc, wtodo, wsplit, wstamp, reader>>

(* A bug: the pointer is published before the bytes are there.             *)
PublishEarly ==
    /\ wpc = "copy" /\ wk <= wseg
    /\ pwrite' = Advance(pwrite, wsplit, wseg)
    /\ wstamp' = wstamp + wseg
    /\ wtodo' = wtodo - wseg /\ wsplit' = 0 /\ wk' = 0
    /\ wpc' = IF wsplit > 0 THEN "copy" ELSE "wake"
    /\ UNCHANGED <<running, size, data, pread, error, reader>>

(* ... and the smp_store_release of pwrite that follows it.                *)
PublishWrite ==
    /\ wpc = "copy" /\ wk = wseg
    /\ pwrite' = Advance(pwrite, wsplit, wseg)
    /\ wstamp' = wstamp + wseg
    /\ wtodo' = wtodo - wseg /\ wsplit' = 0 /\ wk' = 0
    /\ wpc' = IF wsplit > 0 THEN "copy" ELSE "wake"
    /\ UNCHANGED <<running, size, data, pread, error, reader>>

(* The wake_up(&buffer->queue) with which every callback ends.             *)
WakeUp ==
    /\ wpc = "wake"
    /\ wpc' = "idle"
    /\ rpc' = IF rpc = "asleep" THEN "wait" ELSE rpc
    /\ UNCHANGED <<running, ring, wtodo, wsplit, wk, wstamp, call, rret, rnext>>

---------------------------------------------------------------------------
(* The reader: dvb_dmxdev_buffer_read                                      *)

EndCall ==
    /\ nonblock' = FALSE
    /\ rtodo' = 0 /\ rlen' = 0 /\ rsplit' = 0 /\ rk' = 0 /\ rdone' = 0 /\ rcopied' = 0
    /\ ubuf' = [i \in 0 .. MaxCount - 1 |-> 0]

(* return (count - todo) ? (count - todo) : ret                            *)
Return(got, ret) ==
    /\ rpc' = "idle"
    /\ rret' = IF got > 0 THEN got ELSE ret
    /\ EndCall

(* The read begins; an error is served before anything else.               *)
ReadCall(count, nb) ==
    /\ rpc = "idle"
    /\ rpc' = IF error # 0 THEN "flush" ELSE "loop"
    /\ rtodo' = count /\ nonblock' = nb /\ rret' = 0
    /\ UNCHANGED <<running, ring, writer, rlen, rsplit, rk, rdone, rcopied, ubuf, rnext>>

(* The head of the loop: O_NONBLOCK on an empty buffer ends the read.      *)
ReadLoop ==
    /\ rpc = "loop"
    /\ IF nonblock /\ dvb_ringbuffer_empty
         THEN Return(rdone, EWOULDBLOCK)
         ELSE rpc' = "wait" /\ UNCHANGED <<rret, call>>
    /\ UNCHANGED <<running, ring, writer, rnext>>

(* wait_event_interruptible: the condition is tested, and the reader goes  *)
(* to sleep, without missing a wake_up in between.                         *)
ReadWait ==
    /\ rpc = "wait"
    /\ rpc' = IF ~dvb_ringbuffer_empty \/ error # 0 THEN "woken" ELSE "asleep"
    /\ UNCHANGED <<running, ring, writer, call, rret, rnext>>

(* A signal ends the sleep.                                                *)
ReadSignal ==
    /\ rpc = "asleep"
    /\ Return(rdone, ERESTARTSYS)
    /\ UNCHANGED <<running, ring, writer, rnext>>

ReadTestError ==
    /\ rpc = "woken"
    /\ rpc' = IF error # 0 THEN "flush" ELSE "avail"
    /\ UNCHANGED <<running, ring, writer, call, rret, rnext>>

(* avail = min(dvb_ringbuffer_avail(src), todo), then                      *)
(* dvb_ringbuffer_read_user is entered.                                    *)
ReadAvail ==
    /\ rpc = "avail"
    /\ LET len == IF dvb_ringbuffer_avail > rtodo THEN rtodo ELSE dvb_ringbuffer_avail
       IN  /\ rlen' = len
           /\ rsplit' = Split(pread, len)
    /\ rk' = 0 /\ rpc' = "copy"
    /\ UNCHANGED <<running, ring, writer, nonblock, rtodo, rdone, rcopied,
                   ubuf, rret, rnext>>

(* A bug: the second copy of a split read does not move on (buf += split). *)
CopyOutInPlace ==
    /\ rpc = "copy" /\ rk < rseg
    /\ ubuf' = [ubuf EXCEPT ![rdone + rk] = data[pread + rk]]
    /\ rk' = rk + 1
    /\ UNCHANGED <<running, ring, writer, rpc, nonblock, rtodo, rlen, rsplit,
                   rdone, rcopied, rret, rnext>>

(* One byte of a copy_to_user.  rcopied counts the bytes of this read that *)
(* left the ring, rdone those it will report.                              *)
CopyOut ==
    /\ rpc = "copy" /\ rk < rseg
    /\ ubuf' = [ubuf EXCEPT ![rcopied + rk] = data[pread + rk]]
    /\ rk' = rk + 1
    /\ UNCHANGED <<running, ring, writer, rpc, nonblock, rtodo, rlen, rsplit,
                   rdone, rcopied, rret, rnext>>

(* copy_to_user fails: the read ends and the current memcpy's bytes stay.  *)
CopyFault ==
    /\ rpc = "copy"
    /\ Return(rdone, EFAULT)
    /\ UNCHANGED <<running, ring, writer, rnext>>

(* The smp_store_release of pread after a copy; after the last copy of     *)
(* dvb_ringbuffer_read_user the read is over or goes round its loop.       *)
PublishRead ==
    /\ rpc = "copy" /\ rk = rseg
    /\ pread' = Advance(pread, rsplit, rseg)
    /\ rnext' = rnext + rseg
    /\ \/ /\ rsplit > 0
          /\ rlen' = rlen - rseg /\ rsplit' = 0 /\ rk' = 0 /\ rcopied' = rcopied + rseg
          /\ UNCHANGED <<rpc, rret, nonblock, rtodo, rdone, ubuf>>
       \/ /\ rsplit = 0 /\ rcopied + rseg < rdone + rtodo
          /\ rlen' = 0 /\ rk' = 0 /\ rcopied' = rcopied + rseg
          /\ rdone' = rcopied + rseg
          /\ rtodo' = rtodo - (rcopied + rseg - rdone)
          /\ rpc' = "loop"
          /\ UNCHANGED <<rret, nonblock, rsplit, ubuf>>
       \/ /\ rsplit = 0 /\ rcopied + rseg = rdone + rtodo
          /\ Return(rdone + rtodo, 0)
    /\ UNCHANGED <<running, size, data, pwrite, error, writer>>

(* dvb_ringbuffer_flush: the pointer first ...                             *)
FlushPointer ==
    /\ rpc = "flush"
    /\ pread' = pwrite
    /\ rnext' = rnext + dvb_ringbuffer_avail
    /\ rpc' = "clear"
    /\ UNCHANGED <<running, size, data, pwrite, error, writer, call, rret>>

(* ... then the error.  The stream goes on with the next byte offered.     *)
FlushError ==
    /\ rpc = "clear"
    /\ error' = 0
    /\ rnext' = wstamp
    /\ Return(rdone, error)
    /\ UNCHANGED <<running, size, data, pread, pwrite, writer>>

---------------------------------------------------------------------------
(* The ioctls that touch the buffer.  They hold the filter's mutex, so no  *)
(* read is in progress, and the feed is stopped, so no callback runs.      *)

(* DMX_STOP: dvb_dmxdev_filter_stop ends with dvb_ringbuffer_flush.        *)
FilterStop ==
    /\ running /\ rpc = "idle" /\ wpc = "idle"
    /\ running' = FALSE
    /\ pread' = pwrite /\ error' = 0
    /\ rnext' = wstamp
    /\ UNCHANGED <<size, data, pwrite, writer, rpc, call, rret>>

(* DMX_START: dvb_dmxdev_filter_start flushes the buffer as well.          *)
FilterStart ==
    /\ ~running /\ rpc = "idle"
    /\ running' = TRUE
    /\ pread' = pwrite /\ error' = 0
    /\ rnext' = wstamp
    /\ UNCHANGED <<size, data, pwrite, writer, rpc, call, rret>>

(* DMX_SET_BUFFER_SIZE: new memory, and dvb_ringbuffer_reset.              *)
SetBufferSize(s) ==
    /\ ~running /\ rpc = "idle" /\ size # s
    /\ size' = s
    /\ data' = [i \in 0 .. MaxSize - 1 |-> 0]
    /\ pread' = 0 /\ pwrite' = 0 /\ error' = 0
    /\ rnext' = wstamp
    /\ UNCHANGED <<running, writer, rpc, call, rret>>

---------------------------------------------------------------------------
WriterStep == BufferWrite \/ CopyIn \/ PublishWrite \/ WakeUp

ReaderStep ==
    \/ ReadLoop \/ ReadWait \/ ReadTestError \/ ReadAvail
    \/ CopyOut \/ PublishRead \/ FlushPointer \/ FlushError

Next ==
    \/ \E n \in 1 .. MaxPacket : TsCallback(n)
    \/ WriterStep
    \/ \E count \in 1 .. MaxCount, nb \in BOOLEAN : ReadCall(count, nb)
    \/ ReaderStep
    \/ ReadSignal
    \/ CopyFault
    \/ FilterStop
    \/ FilterStart
    \/ \E s \in Sizes : SetBufferSize(s)

(* A callback that has begun runs to its end (it holds a spinlock), and a  *)
(* read that is not asleep is scheduled.  New packets, new reads, ioctls,  *)
(* signals and faults may never come.                                      *)
Fairness == WF_vars(WriterStep) /\ WF_vars(ReaderStep)

Spec == Init /\ [][Next]_vars /\ Fairness

---------------------------------------------------------------------------
(* Properties                                                              *)

(* How far position i lies ahead of position p in the ring.                *)
Dist(p, i) == IF i >= p THEN i - p ELSE i - p + size

(* The ring's variables keep their ranges: positions lie inside the        *)
(* buffer whatever its size becomes, copies stay inside the memory.        *)
TypeOK ==
    /\ running \in BOOLEAN
    /\ size \in Sizes
    /\ data \in [0 .. MaxSize - 1 -> Nat]
    /\ pread \in 0 .. size - 1 /\ pwrite \in 0 .. size - 1
    /\ error \in {0, EOVERFLOW}
    /\ wpc \in {"idle", "check", "copy", "wake"}
    /\ wtodo \in Nat /\ wsplit \in Nat /\ wk \in Nat /\ wstamp \in Nat
    /\ rpc \in {"idle", "loop", "wait", "asleep", "woken", "avail", "copy", "flush", "clear"}
    /\ nonblock \in BOOLEAN
    /\ rtodo \in Nat /\ rlen \in Nat /\ rsplit \in Nat /\ rk \in Nat
    /\ rdone \in Nat /\ rcopied \in Nat
    /\ ubuf \in [0 .. MaxCount - 1 -> Nat]
    /\ rret \in Int /\ rnext \in Nat

(* The unread bytes are the stream, in order and without a gap, whatever   *)
(* the writer is in the middle of (dvb_ringbuffer_write never overwrites a *)
(* byte that dvb_ringbuffer_read_user has not passed).                     *)
UnreadIntact ==
    \A i \in 0 .. size - 1 :
        Dist(pread, i) < dvb_ringbuffer_avail => data[i] = rnext + Dist(pread, i)

(* What a read has put in the user's buffer is one stretch of the stream   *)
(* that ends where the ring continues, across split copies, several rounds *)
(* of dvb_dmxdev_buffer_read's loop and packets written meanwhile.         *)
ReadIsContiguous ==
    rpc \notin {"idle", "flush", "clear"} =>
        \A j \in 0 .. MaxCount - 1 :
            j < rcopied + (IF rpc = "copy" THEN rk ELSE 0) => ubuf[j] = rnext - rcopied + j

(* Without an error pending no byte the demux offered is missing between   *)
(* the reader and the writer: every loss leaves buffer->error set until    *)
(* the reader flushes.                                                     *)
NoSilentLoss ==
    error = 0 => wstamp = rnext + dvb_ringbuffer_avail

(* The blocking read is never lost: asleep with bytes or an error to see,  *)
(* it is woken (every return path of the callback ends in wake_up).        *)
SleeperIsWoken ==
    (rpc = "asleep" /\ (~dvb_ringbuffer_empty \/ error # 0)) ~> (rpc # "asleep")

(* The ring buffer is a byte stream: publishing is Put, the pread store is *)
(* Take, a dropped packet is Lose, the flush is Drop and Resync.           *)
Stream == INSTANCE ByteStream WITH
    Capacity <- MaxSize - 1,
    lo <- rnext, hi <- rnext + dvb_ringbuffer_avail,
    next <- wstamp, overrun <- (error # 0)

StreamSpec == Stream!Spec
===========================================================================
