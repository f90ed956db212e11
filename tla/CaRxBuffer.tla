---------------------------- MODULE CaRxBuffer ----------------------------
(***************************************************************************)
(* The receive buffer of a CI slot: a ring of packets (dvb_ringbuffer_pkt_ *)
(* functions) between the slot's thread, which appends the fragments the   *)
(* CAM sends (dvb_ca_en50221_read_data), and read(2) on the ca device,     *)
(* which puts a message together from the fragments of one connection and  *)
(* disposes of them, also in the middle of the ring.  The thread holds     *)
(* slot_lock, the reader nothing.                                          *)
(*                                                                         *)
(* A packet in the ring is a header of three bytes (length, status) and    *)
(* the fragment: connection, more flag, payload.  The payload bytes of the *)
(* n-th packet all have the value Payload + n, which may look like the     *)
(* bytes of a header.                                                      *)
(***************************************************************************)
EXTENDS Integers, SequencesExt, FiniteSetsExt

CONSTANTS
    Size,           \* RX_BUFFER_SIZE (65535)
    Wrap,           \* 2^64 % Size, what the wrap of size_t adds (1)
    LinkBufSize,    \* link_buf_size, at most HOST_LINK_BUF_SIZE (0x200)
    Lens,           \* the lengths of the fragments the CAM sends
    Conns,          \* connection ids
    Counts,         \* the sizes of the buffers read(2) is given
    Payload,        \* what the CAM's payload bytes count from
    MaxPackets      \* bound on the packets of a behaviour

ASSUME SizeAssumption ==
    /\ LinkBufSize \in 2 .. 65535 /\ Size \in Nat /\ Size > LinkBufSize + 3
    /\ Wrap \in {0, 1}
ASSUME LensAssumption == Lens \subseteq 2 .. LinkBufSize
ASSUME ConnsAssumption == Conns \subseteq 1 .. 127 /\ Counts \subseteq Nat /\ MaxPackets \in Nat
ASSUME PayloadAssumption == Payload \in 0 .. 255

PKTHDRSIZE   == 3
PKT_READY    == 0
PKT_DISPOSED == 1
MORE         == 128
NONE         == -1

VARIABLES
    data, pread, pwrite,        \* struct dvb_ringbuffer
    sent,                       \* the packets so far: conn, more, len, at
    wpc, wk,                    \* the thread, and its place in the packet
    rpc, r,                     \* the read and its local variables
    woken,                      \* a wake_up since wait_event last looked
    ubuf, got,                  \* bytes in the user's buffer, of which packets
    disposed,                   \* packets that were disposed of
    early                       \* the reader has used bytes of no packet, or
                                \* of one that is not all there, or has gone
                                \* past the end of a ring that is full

ring   == <<data, pread, pwrite>>
writer == <<sent, wpc, wk>>
user   == <<ubuf, got>>
reader == <<rpc, r, woken, user, disposed, early>>
rxvars == <<ring, writer, reader>>

(* count; idx and consumed of pkt_next; the packet to dispose of;          *)
(* connection_id, pktlen and last_fragment.                                *)
NoRead == [count |-> 0, idx |-> NONE, consumed |-> 0, dispose |-> NONE,
           conn |-> NONE, pktlen |-> 2, last |-> FALSE]

RxInit ==
    /\ data = [i \in 0 .. Size - 1 |-> 0] /\ pread = 0 /\ pwrite = 0
    /\ sent = <<>> /\ wpc = "idle" /\ wk = 0
    /\ rpc = "idle" /\ r = NoRead /\ woken = FALSE
    /\ ubuf = <<>> /\ got = <<>> /\ disposed = {} /\ early = FALSE

---------------------------------------------------------------------------
(* dvb_ringbuffer.c                                                        *)

avail == IF pwrite - pread < 0 THEN pwrite - pread + Size ELSE pwrite - pread

free == (IF pread - pwrite <= 0 THEN pread - pwrite + Size ELSE pread - pwrite) - 1

LenAt(i)    == data[i] * 256 + data[(i + 1) % Size]
StatusAt(i) == data[(i + 2) % Size]

(* Byte off of the packet at i.                                            *)
ByteAt(i, off) == data[(i + PKTHDRSIZE + off) % Size]

(* The index behind the packet at i.                                       *)
After(i) == (i + LenAt(i) + PKTHDRSIZE) % Size

(* A bug: the ring's size is such that the wrap of size_t adds one more.   *)
DistanceWrapsTwice(i) == IF i >= pread THEN i - pread ELSE (i - pread + Size + Wrap + 1) % Size

(* consumed = (idx - rbuf->pread) % rbuf->size, in size_t: Wrap too much   *)
(* when idx has passed the end of the buffer and pread has not.            *)
Distance(i) == IF i >= pread THEN i - pread ELSE (i - pread + Size + Wrap) % Size

(* How far the place i really is from the place p.                         *)
From(p, i) == IF i >= p THEN i - p ELSE i - p + Size

(* A read that enters dvb_ringbuffer_pkt_next, which starts at i.          *)
PktNext(rd, i) == [rd EXCEPT !.idx = i, !.consumed = Distance(i)]

(* The condition of pkt_next's loop, and how a round of it ends: the       *)
(* packet is found, or it is disposed of and passed.                       *)
AnyMore == avail - r.consumed > PKTHDRSIZE
Found   == AnyMore /\ StatusAt(r.idx) = PKT_READY

(* The end of a ring that is full to its last byte is Size - 1 from pread; *)
(* with Wrap its distance is 0, as if all packets were yet to come.        *)
Blank   == AnyMore /\ From(pread, r.idx) >= avail

Pass    ==
    /\ AnyMore /\ StatusAt(r.idx) # PKT_READY
    /\ r' = [r EXCEPT !.idx = After(@), !.consumed = @ + LenAt(r.idx) + PKTHDRSIZE]

---------------------------------------------------------------------------
(* The thread: dvb_ca_en50221_read_data                                    *)

Packet == sent[Len(sent)]

(* The payload bytes of the n-th packet.                                   *)
PayloadByte(n) == (Payload + n) % 256

(* The bytes of the packet the thread is writing, header included.         *)
PacketByte(k) ==
    CASE k = 0 -> Packet.len \div 256
      [] k = 1 -> Packet.len % 256
      [] k = 2 -> PKT_READY
      [] k = 3 -> Packet.conn
      [] k = 4 -> IF Packet.more THEN MORE ELSE 0
      [] OTHER -> PayloadByte(Len(sent))

(* buf_free < link_buf_size + DVB_RINGBUFFER_PKTHDRSIZE is -EAGAIN.        *)
Room == free >= LinkBufSize + PKTHDRSIZE

(* The CAM has a fragment of len bytes and there is room for the largest.  *)
ReadFragment(c, more, len) ==
    /\ wpc = "idle" /\ Len(sent) < MaxPackets
    /\ Room
    /\ sent' = Append(sent, [conn |-> c, more |-> more, len |-> len, at |-> pwrite])
    /\ wpc' = "header" /\ wk' = 0
    /\ UNCHANGED <<ring, reader>>

(* dvb_ringbuffer_pkt_write: DVB_RINGBUFFER_WRITE_BYTE, three times.       *)
WriteByte ==
    /\ wpc = "header"
    /\ data' = [data EXCEPT ![pwrite] = PacketByte(wk)]
    /\ pwrite' = (pwrite + 1) % Size
    /\ wk' = wk + 1
    /\ wpc' = IF wk + 1 = PKTHDRSIZE THEN "copy" ELSE "header"
    /\ UNCHANGED <<pread, sent, reader>>

(* dvb_ringbuffer_write: a memcpy and the store of pwrite, twice if the    *)
(* packet runs over the end of the buffer.                                 *)
PktWrite ==
    /\ wpc = "copy"
    /\ LET todo == Packet.len + PKTHDRSIZE - wk
           seg  == IF pwrite + todo > Size THEN Size - pwrite ELSE todo
       IN  /\ data' = [i \in DOMAIN data |->
                          IF i \in pwrite .. pwrite + seg - 1 THEN PacketByte(wk + i - pwrite) ELSE data[i]]
           /\ pwrite' = (pwrite + seg) % Size
           /\ wk' = wk + seg
           /\ wpc' = IF seg = todo THEN "wake" ELSE "copy"
    /\ UNCHANGED <<pread, sent, reader>>

(* Readers are woken when a last fragment is received.                     *)
WakeUp ==
    /\ wpc = "wake"
    /\ wpc' = "idle" /\ wk' = 0
    /\ woken' = (woken \/ (~Packet.more /\ rpc = "cond"))
    /\ rpc' = IF ~Packet.more /\ rpc = "asleep" THEN "wait" ELSE rpc
    /\ UNCHANGED <<ring, sent, r, user, disposed, early>>

---------------------------------------------------------------------------
(* The reader: dvb_ca_en50221_io_read                                      *)

(* The number of the packet at i.                                          *)
PacketAt(i) == CHOOSE n \in 1 .. Len(sent) :
                 /\ sent[n].at = i
                 /\ \A m \in n + 1 .. Len(sent) : sent[m].at # i

(* The thread has not yet written so many bytes of the packet at i.        *)
Short(i, bytes) == wpc \in {"header", "copy"} /\ Packet.at = i /\ wk < PKTHDRSIZE + bytes

Return == rpc' = "idle" /\ r' = NoRead /\ woken' = FALSE /\ ubuf' = <<>> /\ got' = <<>>

(* With count < 2 it returns -EINVAL at once.                              *)
ReadCall(n) ==
    /\ rpc = "idle" /\ ~early /\ n >= 2
    /\ rpc' = "cond"
    /\ r' = PktNext([NoRead EXCEPT !.count = n], pread)
    /\ UNCHANGED <<ring, writer, woken, user, disposed, early>>

(* dvb_ca_en50221_io_read_condition: a last fragment of the connection to  *)
(* which the first packet belongs is looked for.                           *)
Condition ==
    /\ rpc = "cond"
    /\ early' = (early \/ Blank \/ (Found /\ Short(r.idx, 2)))
    /\ \/ Pass /\ UNCHANGED rpc
       \/ /\ Found
          /\ LET c == IF r.conn = NONE THEN ByteAt(r.idx, 0) ELSE r.conn
             IN  IF ByteAt(r.idx, 0) = c /\ ByteAt(r.idx, 1) < MORE
                   THEN rpc' = "walk" /\ r' = PktNext([r EXCEPT !.conn = NONE], pread)
                   ELSE rpc' = rpc /\ r' = PktNext([r EXCEPT !.conn = c], After(r.idx))
    /\ UNCHANGED <<ring, writer, woken, user, disposed>>

(* There is none: -EWOULDBLOCK with O_NONBLOCK, which is chosen here;      *)
(* otherwise wait_event_interruptible looks again if a wake_up came while  *)
(* it looked, and sleeps if none did.                                      *)
ConditionFails ==
    /\ rpc = "cond" /\ ~AnyMore
    /\ \/ Return
       \/ /\ rpc' = IF woken THEN "wait" ELSE "asleep"
          /\ r' = [r EXCEPT !.conn = NONE]
          /\ UNCHANGED <<woken, user>>
    /\ UNCHANGED <<ring, writer, disposed, early>>

Wait ==
    /\ rpc = "wait"
    /\ rpc' = "cond" /\ woken' = FALSE
    /\ r' = PktNext(r, pread)
    /\ UNCHANGED <<ring, writer, user, disposed, early>>

(* A signal ends the sleep: -ERESTARTSYS.                                  *)
Signal ==
    /\ rpc = "asleep"
    /\ Return
    /\ UNCHANGED <<ring, writer, disposed, early>>

(* The first packet is taken ("walk"), or the one behind the packet that   *)
(* was used; NONE if there is none.  Behind the last fragment of a message *)
(* what is found does not matter.                                          *)
Walk ==
    /\ rpc \in {"walk", "next"}
    /\ early' = (early \/ (Blank /\ ~r.last))
    /\ \/ Pass /\ UNCHANGED rpc
       \/ /\ Found \/ ~AnyMore
          /\ rpc' = IF rpc = "walk" THEN "frag" ELSE "dispose"
          /\ r' = IF Found THEN r ELSE [r EXCEPT !.idx = NONE]
    /\ UNCHANGED <<ring, writer, woken, user, disposed>>

(* A bug: the two header bytes of the user's buffer are not counted.       *)
FitTooMuch ==
    LET frag == LenAt(r.idx) - 2
    IN  IF r.pktlen >= r.count THEN 0
        ELSE IF r.pktlen + frag > r.count + 1 THEN r.count - r.pktlen ELSE frag

(* How many bytes of the packet at idx go to the user's buffer.            *)
Fit ==
    LET frag == LenAt(r.idx) - 2
    IN  IF r.pktlen >= r.count THEN 0
        ELSE IF r.pktlen + frag > r.count THEN r.count - r.pktlen ELSE frag

(* A bug: fragments of every connection are joined.                        *)
AnyConnection == TRUE

(* hdr[0] == connection_id, where the first packet gives the connection.   *)
SameConnection == r.conn \in {NONE, ByteAt(r.idx, 0)}

(* The packet at idx: copied if it is of this connection.                  *)
UseFragment ==
    /\ early' = (early \/ Short(r.idx, LenAt(r.idx)))
    /\ LET rd == IF SameConnection
                   THEN [r EXCEPT !.pktlen = @ + Fit, !.dispose = r.idx,
                                  !.last = @ \/ ByteAt(r.idx, 1) < MORE]
                   ELSE r
       IN  r' = PktNext([rd EXCEPT !.conn = IF @ = NONE THEN ByteAt(r.idx, 0) ELSE @], After(r.idx))
    /\ IF SameConnection
         THEN /\ ubuf' = ubuf \o [k \in 1 .. Fit |-> ByteAt(r.idx, 1 + k)]
              /\ got' = Append(got, PacketAt(r.idx))
         ELSE UNCHANGED user
    /\ rpc' = "next"
    /\ UNCHANGED woken

(* The "BUG:" of io_read is that there is none: -EIO.                      *)
Fragment ==
    /\ rpc = "frag"
    /\ IF r.idx = NONE THEN Return /\ UNCHANGED early ELSE UseFragment
    /\ UNCHANGED <<ring, writer, disposed>>

(* copy_to_user fails in dvb_ringbuffer_pkt_read_user: this fragment is    *)
(* kept, those before it are gone.                                         *)
CopyFault ==
    /\ rpc = "frag" /\ r.idx # NONE
    /\ r.pktlen < r.count /\ SameConnection
    /\ Return
    /\ UNCHANGED <<ring, writer, disposed, early>>

(* dvb_ringbuffer_pkt_dispose marks the packet.  What becomes of a read    *)
(* that has gone wrong (early) is not modelled.                            *)
Dispose ==
    /\ rpc = "dispose" /\ ~early
    /\ IF r.dispose = NONE
         THEN rpc' = "loop" /\ UNCHANGED <<data, disposed>>
         ELSE /\ data' = [data EXCEPT ![(r.dispose + 2) % Size] = PKT_DISPOSED]
              /\ disposed' = disposed \cup {PacketAt(r.dispose)}
              /\ rpc' = "clean"
    /\ r' = [r EXCEPT !.dispose = NONE]
    /\ UNCHANGED <<pread, pwrite, writer, woken, user, early>>

(* A bug: whatever is in front of the next packet is given back.           *)
CanCleanAll == avail > PKTHDRSIZE /\ pread # r.idx

(* The first packet is disposed of: its space can be given back.           *)
CanClean == avail > PKTHDRSIZE /\ StatusAt(pread) = PKT_DISPOSED

Clean ==
    /\ rpc = "clean"
    /\ IF CanClean
         THEN pread' = After(pread) /\ UNCHANGED rpc
         ELSE rpc' = "loop" /\ UNCHANGED pread
    /\ UNCHANGED <<data, pwrite, writer, r, woken, user, disposed, early>>

(* while (!last_fragment); at the end the two header bytes are copied.     *)
Loop ==
    /\ rpc = "loop"
    /\ \/ r.last /\ Return
       \/ ~r.last /\ rpc' = "frag" /\ UNCHANGED <<r, woken, user>>
    /\ UNCHANGED <<ring, writer, disposed, early>>

---------------------------------------------------------------------------
WriterStep == WriteByte \/ PktWrite \/ WakeUp

ReaderStep ==
    Condition \/ ConditionFails \/ Wait \/ Walk \/ Fragment \/ Dispose \/ Clean \/ Loop

RxNext ==
    \/ \E c \in Conns, more \in BOOLEAN, len \in Lens : ReadFragment(c, more, len)
    \/ WriterStep
    \/ \E n \in Counts : ReadCall(n)
    \/ ReaderStep \/ Signal \/ CopyFault

(* The thread finishes the packet it has begun; a read that is not asleep  *)
(* goes on.                                                                *)
RxFairness == WF_rxvars(WriterStep) /\ WF_rxvars(ReaderStep)

RxSpec == RxInit /\ [][RxNext]_rxvars /\ RxFairness

---------------------------------------------------------------------------
(* Properties                                                              *)

(* Positions stay inside the buffer.                                       *)
RxTypeOK ==
    /\ data \in [0 .. Size - 1 -> Nat]
    /\ pread \in 0 .. Size - 1 /\ pwrite \in 0 .. Size - 1
    /\ wpc \in {"idle", "header", "copy", "wake"} /\ wk \in Nat
    /\ rpc \in {"idle", "cond", "wait", "asleep", "walk", "frag", "next", "dispose", "clean", "loop"}
    /\ r.idx \in -1 .. Size - 1 /\ r.dispose \in -1 .. Size - 1
    /\ r.pktlen = 2 + Len(ubuf)
    /\ disposed \subseteq 1 .. Len(sent)

(* The packets that are complete in the ring and not disposed of.          *)
Live == {n \in 1 .. Len(sent) : n \notin disposed /\ (n = Len(sent) => wpc \in {"wake", "idle"})}

(* Nothing the thread writes and nothing a read gives back destroys a      *)
(* packet that nobody has disposed of: header, connection, flag and every  *)
(* payload byte are in the ring until it is disposed of (read_data's room, *)
(* pkt_dispose's clean-up), and no position leaves it.                     *)
PacketsIntact ==
    /\ RxTypeOK
    /\ \A n \in Live :
        LET i == sent[n].at
        IN  /\ LenAt(i) = sent[n].len /\ StatusAt(i) = PKT_READY
            /\ ByteAt(i, 0) = sent[n].conn
            /\ ByteAt(i, 1) = IF sent[n].more THEN MORE ELSE 0
            /\ \A k \in 2 .. sent[n].len - 1 : ByteAt(i, k) = PayloadByte(n)

(* Having seen the end of a message, a read finds it again: the "BUG:" of  *)
(* io_read does not happen.                                                *)
EndIsFound == ~early => ~(rpc = "frag" /\ r.idx = NONE)

(* A read never goes wrong in the middle: it finds the message, and what   *)
(* it returns is made of fragments of one connection, all but the last     *)
(* with more after them.  Left out (~early) are the thread's store of      *)
(* pwrite in the middle of a packet and the look of pkt_next past the end  *)
(* of a ring that is full to its last byte.                                *)
MessageWhole ==
    ~early =>
        /\ EndIsFound
        /\ rpc = "loop" /\ r.last =>
             \A k \in DOMAIN got : /\ sent[got[k]].conn = r.conn
                                   /\ sent[got[k]].more <=> k < Len(got)

(* The payload of the n-th packet, cut at what is left of a buffer.        *)
Cut(n, left) == [k \in 1 .. Min({sent[n].len - 2, left}) |-> PayloadByte(n)]

(* A read puts its message together from what the CAM has sent: with each  *)
(* fragment it uses, that packet's own bytes and no others come behind     *)
(* those in the user's buffer, which is cut at its size (~early).          *)
CopiesWhatWasSent ==
    [][~early' =>
         \/ UNCHANGED user \/ user' = <<<<>>, <<>>>>
         \/ \E n \in 1 .. Len(sent) : /\ got' = Append(got, n)
                                      /\ ubuf' = ubuf \o Cut(n, r.count - 2 - Len(ubuf))]_rxvars

(* The queue that the ring stands for: what was not disposed of, and what  *)
(* the read in progress has disposed of and not yet returned.              *)
Messages == INSTANCE CaMessages WITH
    arrived <- Len(sent),
    waiting <- {[n |-> n, conn |-> sent[n].conn, more |-> sent[n].more] :
                   n \in {m \in 1 .. Len(sent) : m \notin disposed \/ m \in ToSet(got)}}

(* Every read takes exactly the first message, fragments of other          *)
(* connections that lie between its own stay where they are, and none is   *)
(* read twice or lost (except by a copy that faults).                      *)
ReadsAreMessages == Messages!Spec

(* The first message is complete in the ring.                              *)
Ready ==
    /\ wpc = "idle" /\ Live # {}
    /\ \E n \in Live : ~sent[n].more /\ sent[n].conn = sent[Min(Live)].conn

(* A blocked read does not sleep on a complete message: the wake-up comes  *)
(* after the packet is visible, and wait_event looks again.                *)
ReaderIsWoken == Ready /\ rpc = "asleep" ~> rpc # "asleep"
===========================================================================
