----------------------------- MODULE DvrDevice -----------------------------
(***************************************************************************)
(* The memory behind the dvr device: the ring that is shared by the TS     *)
(* filters of a demux (the callback, under dmxdev->lock), by read(2) on    *)
(* the dvr device, which takes no lock at all, and by open, close and      *)
(* DMX_SET_BUFFER_SIZE, which hold dmxdev->mutex and exchange the memory.  *)
(*                                                                         *)
(* A block of memory is its length (0 when it is not allocated) and the    *)
(* positions that were written since.  Whose bytes they are is the subject *)
(* of DvbRingBuffer.  The build has no CONFIG_DVB_MMAP.                    *)
(***************************************************************************)
EXTENDS Integers

CONSTANTS
    DVR_BUFFER_SIZE,    \* size of the ring a reader gets
    InitialSize,        \* size without a reader, 8192 in the source
    Sizes,              \* sizes DMX_SET_BUFFER_SIZE is called with
    Blocks,             \* blocks of memory, positive numbers; 0 is NULL
    MaxPacket,          \* bound on the bytes of one callback
    MaxCount,           \* bound on the bytes of one read
    MaxCalls            \* bound on the calls of open and DMX_SET_BUFFER_SIZE

ASSUME DvrAssumption ==
    /\ {DVR_BUFFER_SIZE, InitialSize} \cup Sizes \cup Blocks \subseteq Nat \ {0}
    /\ {MaxPacket, MaxCount, MaxCalls} \subseteq Nat
    /\ InitialSize <= DVR_BUFFER_SIZE

VARIABLES
    data, size, pread, pwrite, error,   \* dmxdev->dvr_buffer
    len, written,       \* the blocks
    initialised,        \* dvb_dmxdev_init has come to its end
    wfile,              \* a file is open for writing
    mpc, mem,           \* the call that holds dmxdev->mutex and its local
    rpc, rlen, racc,    \* the reader's file, his read, what it copies from
    wpc, wlen, wacc,    \* the callback, what it copies to
    odd,                \* what has happened that the code does not provide for
    calls

ring   == <<data, size, pread, pwrite, error>>
memory == <<len, written>>
reader == <<rpc, rlen, racc>>
writer == <<wpc, wlen, wacc>>
vars   == <<ring, memory, initialised, wfile, mpc, mem, reader, writer, odd, calls>>

(* "early": a reader opened the device before dvb_dmxdev_init was through; *)
(* "grown": he found the size of a larger ring; "read": the memory was     *)
(* exchanged during a read; "write only": there was no reader at all.      *)
Oddities == {"early", "grown", "read", "write only"}
Odd(o, happens) == odd' = IF happens THEN odd \cup {o} ELSE odd

Least(m, n) == IF m < n THEN m ELSE n

(* n bytes of block b from position p on                                   *)
Stretch(b, p, n) == [block |-> b, from |-> p, n |-> n]
Nothing == Stretch(0, 0, 0)
Positions(a) == a.from .. a.from + a.n - 1

(* dvb_ringbuffer_free and dvb_ringbuffer_avail                            *)
Free  == (IF pread - pwrite <= 0 THEN pread - pwrite + size ELSE pread - pwrite) - 1
Avail == IF pwrite - pread < 0 THEN pwrite - pread + size ELSE pwrite - pread

(* The part of a copy of n bytes from p that lies before the end.          *)
Split(p, n) == IF p + n > size THEN size - p ELSE 0

Init ==
    /\ data = 0 /\ size = 0 /\ pread = 0 /\ pwrite = 0 /\ error = FALSE
    /\ len = [b \in Blocks |-> 0] /\ written = [b \in Blocks |-> {}]
    /\ initialised = FALSE /\ wfile = FALSE
    /\ mpc = "none" /\ mem = 0
    /\ rpc = "closed" /\ rlen = 0 /\ racc = Nothing
    /\ wpc = "idle" /\ wlen = 0 /\ wacc = Nothing
    /\ odd = {} /\ calls = 0

(* dvb_dmxdev_init, after it has registered the devices                    *)
InitRing ==
    /\ ~initialised /\ initialised' = TRUE
    /\ data' = 0 /\ size' = InitialSize /\ pread' = 0 /\ pwrite' = 0 /\ error' = FALSE
    /\ UNCHANGED <<memory, wfile, mpc, mem, reader, writer, odd, calls>>

---------------------------------------------------------------------------
(* Open, close and DMX_SET_BUFFER_SIZE, under dmxdev->mutex                *)

Lock == mpc = "none"
Call == calls < MaxCalls /\ calls' = calls + 1

(* vmalloc and vfree                                                       *)
Allocate(b, n) ==
    /\ len[b] = 0
    /\ len' = [len EXCEPT ![b] = n] /\ written' = [written EXCEPT ![b] = {}]

Released(b) ==
    /\ len' = [c \in Blocks |-> IF c = b THEN 0 ELSE len[c]]
    /\ written' = [c \in Blocks |-> IF c = b THEN {} ELSE written[c]]

(* dvb_dvr_open for reading: the memory; dvb_ringbuffer_init, the pointers *)
OpenReader ==
    /\ Lock /\ Call /\ rpc = "closed"
    /\ \E b \in Blocks : Allocate(b, DVR_BUFFER_SIZE) /\ mem' = b
    /\ pread' = 0 /\ pwrite' = 0 /\ mpc' = "data"
    /\ odd' = odd \cup (IF initialised THEN {} ELSE {"early"})
                  \cup (IF size > DVR_BUFFER_SIZE THEN {"grown"} ELSE {})
    /\ UNCHANGED <<data, size, error, initialised, wfile, reader, writer>>

OpenData ==
    /\ mpc = "data" /\ mpc' = "size"
    /\ data' = mem
    /\ UNCHANGED <<size, pread, pwrite, error, memory, initialised, wfile, mem, reader, writer, odd, calls>>

OpenSize ==
    /\ mpc = "size" /\ mpc' = "none" /\ mem' = 0
    /\ size' = DVR_BUFFER_SIZE /\ error' = FALSE
    /\ rpc' = "idle"
    /\ UNCHANGED <<data, pread, pwrite, memory, initialised, wfile, rlen, racc, writer, odd, calls>>

(* dvb_dvr_release of the reader's file: not while one of its calls runs   *)
CloseReader ==
    /\ Lock /\ rpc = "idle" /\ rpc' = "closed"
    /\ data # 0 => wpc = "idle"
    /\ Released(data) /\ data' = 0
    /\ UNCHANGED <<size, pread, pwrite, error, initialised, wfile, mpc, mem, rlen, racc, writer, odd, calls>>

(* The same of a file for writing: it has no ring.                         *)
OpenWriter ==
    /\ Lock /\ Call /\ ~wfile /\ wfile' = TRUE
    /\ UNCHANGED <<ring, memory, initialised, mpc, mem, reader, writer, odd>>

CloseWriter ==
    /\ Lock /\ wfile /\ wfile' = FALSE
    /\ UNCHANGED <<ring, memory, initialised, mpc, mem, reader, writer, odd, calls>>

(* On either file, also by a second thread of the reader.                  *)
ResizeCalled ==
    /\ wfile \/ rpc # "closed"
    /\ Odd(IF rpc = "closed" THEN "write only" ELSE "read", rpc # "idle")

(* A bug: the pointers are kept, as dvb_ringbuffer_flush would.            *)
ResizeFlushes ==
    /\ Lock /\ Call /\ ResizeCalled
    /\ wpc = "idle"
    /\ \E s \in Sizes \ {size}, b \in Blocks :
          Allocate(b, s) /\ data' = b /\ size' = s
    /\ pread' = pwrite /\ error' = FALSE /\ UNCHANGED pwrite
    /\ mem' = data /\ mpc' = "free"
    /\ UNCHANGED <<initialised, wfile, reader, writer>>

(* dvb_dvr_set_buffer_size exchanges the memory under dmxdev->lock ...     *)
Resize ==
    /\ Lock /\ Call /\ ResizeCalled
    /\ wpc = "idle"
    /\ \E s \in Sizes \ {size}, b \in Blocks :
          Allocate(b, s) /\ data' = b /\ size' = s
    /\ pread' = 0 /\ pwrite' = 0 /\ error' = FALSE
    /\ mem' = data /\ mpc' = "free"
    /\ UNCHANGED <<initialised, wfile, reader, writer>>

(* A bug: the old memory is not freed.                                     *)
ResizeLeaks ==
    /\ mpc = "free" /\ mpc' = "none" /\ mem' = 0
    /\ UNCHANGED <<ring, memory, initialised, wfile, reader, writer, odd, calls>>

(* ... and frees the old one.                                              *)
ResizeFrees ==
    /\ mpc = "free" /\ mpc' = "none" /\ mem' = 0
    /\ Released(mem)
    /\ UNCHANGED <<ring, initialised, wfile, reader, writer, odd, calls>>

---------------------------------------------------------------------------
(* dvb_dvr_read, that is dvb_dmxdev_buffer_read on the dvr ring            *)

Flush == pread' = pwrite /\ error' = FALSE

(* The tests at the beginning: no memory, an error                         *)
ReadCall ==
    /\ rpc = "idle" /\ data # 0
    /\ IF error THEN Flush /\ UNCHANGED rpc
                ELSE rpc' = "wait" /\ UNCHANGED <<pread, error>>
    /\ UNCHANGED <<data, size, pwrite, memory, initialised, wfile, mpc, mem, rlen, racc, writer, odd, calls>>

(* O_NONBLOCK, or a signal                                                 *)
ReadLeaves ==
    /\ rpc = "wait" /\ rpc' = "idle"
    /\ UNCHANGED <<ring, memory, initialised, wfile, mpc, mem, rlen, racc, writer, odd, calls>>

(* The ring is not empty, or has an error: the loop goes on or ends.       *)
ReadWakes ==
    /\ rpc = "wait" /\ (pread # pwrite \/ error)
    /\ IF error THEN Flush /\ rpc' = "idle" /\ UNCHANGED rlen
                ELSE /\ \E count \in 1 .. MaxCount : rlen' = Least(Avail, count)
                     /\ rpc' = "split" /\ UNCHANGED <<pread, error>>
    /\ UNCHANGED <<data, size, pwrite, memory, initialised, wfile, mpc, mem, racc, writer, odd, calls>>

(* dvb_ringbuffer_read_user: up to the end of the memory, then the rest    *)
ReadSplit ==
    /\ rpc = "split"
    /\ LET n == Split(pread, rlen)
       IN  IF n > 0 THEN racc' = Stretch(data, pread, n) /\ rpc' = "copy1"
                    ELSE rpc' = "rest" /\ UNCHANGED racc
    /\ UNCHANGED <<ring, memory, initialised, wfile, mpc, mem, rlen, writer, odd, calls>>

ReadSplitDone ==
    /\ rpc = "copy1" /\ rpc' = "rest"
    /\ pread' = 0 /\ rlen' = rlen - racc.n /\ racc' = Nothing
    /\ UNCHANGED <<data, size, pwrite, error, memory, initialised, wfile, mpc, mem, writer, odd, calls>>

ReadRest ==
    /\ rpc = "rest" /\ rpc' = "copy2"
    /\ racc' = Stretch(data, pread, rlen)
    /\ UNCHANGED <<ring, memory, initialised, wfile, mpc, mem, rlen, writer, odd, calls>>

ReadRestDone ==
    /\ rpc = "copy2" /\ rpc' \in {"wait", "idle"}
    /\ pread' = (pread + rlen) % size /\ rlen' = 0 /\ racc' = Nothing
    /\ UNCHANGED <<data, size, pwrite, error, memory, initialised, wfile, mpc, mem, writer, odd, calls>>

(* copy_to_user fails: -EFAULT                                             *)
ReadFaults ==
    /\ rpc \in {"copy1", "copy2"} /\ rpc' = "idle"
    /\ rlen' = 0 /\ racc' = Nothing
    /\ UNCHANGED <<ring, memory, initialised, wfile, mpc, mem, writer, odd, calls>>

---------------------------------------------------------------------------
(* dvb_dmxdev_ts_callback of a filter whose output is the dvr ring         *)

(* dvb_dmxdev_buffer_write: no room                                        *)
Overflow ==
    /\ wpc = "idle" /\ data # 0 /\ ~error
    /\ MaxPacket > Free
    /\ error' = TRUE
    /\ UNCHANGED <<data, size, pread, pwrite, memory, initialised, wfile, mpc, mem, reader, writer, odd, calls>>

(* dvb_ringbuffer_write                                                    *)
Write ==
    /\ wpc = "idle" /\ data # 0 /\ ~error
    /\ \E n \in 1 .. Least(MaxPacket, Free) :
          LET s == Split(pwrite, n)
          IN  /\ wlen' = n
              /\ IF s > 0 THEN wacc' = Stretch(data, pwrite, s) /\ wpc' = "copy1"
                          ELSE wacc' = Stretch(data, pwrite, n) /\ wpc' = "copy2"
    /\ UNCHANGED <<ring, memory, initialised, wfile, mpc, mem, reader, odd, calls>>

(* The bytes of the present copy are there.                                *)
Copied ==
    written' = [b \in Blocks |->
        IF b = wacc.block THEN written[b] \cup Positions(wacc) ELSE written[b]]

WriteRest ==
    /\ wpc = "copy1" /\ wpc' = "copy2"
    /\ Copied
    /\ pwrite' = 0 /\ wlen' = wlen - wacc.n
    /\ wacc' = Stretch(data, 0, wlen - wacc.n)
    /\ UNCHANGED <<data, size, pread, error, len, initialised, wfile, mpc, mem, reader, odd, calls>>

WriteDone ==
    /\ wpc = "copy2" /\ wpc' = "idle"
    /\ Copied
    /\ pwrite' = (pwrite + wlen) % size /\ wlen' = 0 /\ wacc' = Nothing
    /\ UNCHANGED <<data, size, pread, error, len, initialised, wfile, mpc, mem, reader, odd, calls>>

---------------------------------------------------------------------------
Next ==
    \/ InitRing
    \/ OpenReader \/ OpenData \/ OpenSize \/ CloseReader
    \/ OpenWriter \/ CloseWriter \/ Resize \/ ResizeFrees
    \/ ReadCall \/ ReadLeaves \/ ReadWakes
    \/ ReadSplit \/ ReadSplitDone \/ ReadRest \/ ReadRestDone
    \/ ReadFaults
    \/ Overflow \/ Write \/ WriteRest \/ WriteDone

Spec == Init /\ [][Next]_vars

---------------------------------------------------------------------------
(* Properties                                                              *)

TypeOK ==
    /\ {data, mem} \subseteq Blocks \cup {0}
    /\ size > 0 /\ "grown" \notin odd => pread < size /\ pwrite < size
    /\ rpc = "copy1" => rlen > racc.n
    /\ wpc = "copy1" => wlen > wacc.n
    /\ odd \subseteq Oddities

(* dvb_dvr_read gives the user only bytes that were written into memory    *)
(* which is still allocated, although it takes no lock, when               *)
(* dvb_dvr_set_buffer_size never exchanged the memory during a read or     *)
(* without a reader.  The callback writes inside the memory of the ring,   *)
(* whoever opens, closes or resizes the dvr device meanwhile, unless a     *)
(* reader opens it after a ring that was larger than the one he gets.      *)
AccessesAreSound ==
    /\ TypeOK
    /\ odd = {} /\ rpc \in {"copy1", "copy2"} /\ racc.n > 0 =>
         racc.block # 0 /\ Positions(racc) \subseteq written[racc.block]
    /\ odd \cap {"early", "grown"} = {} /\ wpc \in {"copy1", "copy2"} =>
         wacc.from + wacc.n <= len[wacc.block]

(* Between the calls of open, close and DMX_SET_BUFFER_SIZE there is a     *)
(* ring exactly while there is a reader, and no other memory, unless a     *)
(* file for writing was given a ring ("It is not needed, however, on two   *)
(* situations: - Write devices").                                          *)
RingHasReader ==
    odd \cap {"early", "write only"} = {} /\ mpc = "none" /\ initialised =>
        /\ data # 0 <=> rpc # "closed"
        /\ {b \in Blocks : len[b] > 0} = {data} \ {0}
=============================================================================
