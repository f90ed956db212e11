---------------------------- MODULE SectionFeed ----------------------------
(***************************************************************************)
(* How a section feed of the software demux puts sections together from    *)
(* transport packets (dvb_demux.c).  The multiplexer (external) numbers    *)
(* the sections and cuts them into packets as ISO 13818-1 says: a packet   *)
(* in which a section starts has PUSI set and begins with a pointer to it; *)
(* what follows the last section of a packet is stuffing.  Packets get     *)
(* lost, have bit errors, carry a discontinuity indicator or no payload at *)
(* all; the feed is stopped and started again.                             *)
(*                                                                         *)
(* A byte is its place in its section.  The filter accepts every section   *)
(* and the CRC is not checked (DMX_CHECK_CRC is off).                      *)
(***************************************************************************)
EXTENDS Integers, Sequences

CONSTANTS
    PacketSize,     \* the bytes of a packet (188)
    Payload,        \* its payload (184)
    Counts,         \* how many of them an adaptation field leaves
    Lens,           \* the lengths of the sections
    MaxSection,     \* DMX_MAX_SECTION_SIZE (4096)
    MaxPackets,     \* bound on the packets of a behaviour
    MaxErrors       \* bound on those of them that have a bit error

ASSUME LensAssumption ==
    /\ MaxSection \in Nat /\ Lens \subseteq 3 .. MaxSection
    /\ PacketSize \in Nat /\ Payload \in 1 .. PacketSize /\ Counts \subseteq 1 .. Payload
    /\ MaxPackets \in 0 .. 15 /\ MaxErrors \in Nat

DMX_MAX_SECFEED_SIZE == MaxSection + PacketSize
HEADER == 3         \* the bytes that hold a section's length
TORN   == 0         \* handed out, but no section

VARIABLES
    feed,       \* cc, pusi_seen, secbufp; buf is secbuf_base[0 .. tsfeedp-1];
                \* out: what the callback was given, by section number
    misread,    \* the length that bytes in the middle of a section show
    tx,         \* multiplexer: the section being sent, how far, its length
    txcc,       \* the continuity counter of the next packet
    packets,    \* how many packets were sent
    intact,     \* all bytes of that section sent so far were received
    received,   \* the sections that were received from first to last byte
    errors,     \* how many packets with a bit error have arrived
    odd         \* "empty": a packet without payload has arrived; "stale": the
                \* feed was started with pusi_seen still set

vars == <<feed, misread, tx, txcc, packets, intact, received, errors, odd>>

Stuffing == [sec |-> 0, off |-> 0, len |-> 0]
Garbage  == [sec |-> 0, off |-> 1, len |-> 0]

Least(m, n) == IF m < n THEN m ELSE n

(* The feed is allocated and started; cc and pusi_seen are what vmalloc or *)
(* the last user has left in them.  The stream is in the middle of a       *)
(* section or between two.                                                 *)
Init ==
    /\ \E cc \in {3, 15}, pusi_seen \in BOOLEAN :
         /\ feed = [cc |-> cc, pusi_seen |-> pusi_seen, secbufp |-> 0, buf |-> <<>>, out |-> <<>>]
         /\ odd = IF pusi_seen THEN {"stale"} ELSE {}
    /\ misread \in {HEADER, MaxSection}
    /\ \E len \in Lens : tx \in {[sec |-> 1, off |-> o, len |-> len] : o \in {1, len}}
    /\ txcc = 0 /\ packets = 0 /\ intact = FALSE /\ received = {} /\ errors = 0

---------------------------------------------------------------------------
(* The multiplexer                                                         *)

Rest == tx.len - tx.off

Bytes(sec, len, off, n) == [k \in 1 .. n |-> [sec |-> sec, off |-> off + k - 1, len |-> len]]

Pad(n) == [k \in 1 .. n |-> Stuffing]

(* A packet without a section start: the section goes on, or ends and is   *)
(* followed by stuffing.                                                   *)
MiddlePacket(count) ==
    [count |-> count, cc |-> txcc, pusi |-> FALSE, pointer |-> 0,
     data |-> Bytes(tx.sec, tx.len, tx.off, Least(Rest, count)) \o Pad(count - Least(Rest, count))]

(* A packet in which the sections new start, the last of them perhaps not  *)
(* entirely in it.  data is what comes after the pointer.                  *)
StartPacket(count, new) ==
    LET one == Bytes(tx.sec + 1, new[1], 0, new[1])
        two == IF Len(new) = 2 THEN Bytes(tx.sec + 2, new[2], 0, new[2]) ELSE <<>>
    IN  [count |-> count, cc |-> txcc, pusi |-> TRUE, pointer |-> Rest,
         data |-> SubSeq(Bytes(tx.sec, tx.len, tx.off, Rest) \o one \o two \o Pad(count), 1, count - 1)]

(* Where the sections new end, counted from the start of the first.        *)
Ends(new) == IF Len(new) = 2 THEN <<new[1], new[1] + new[2]>> ELSE new

(* Every section of new starts in the packet.                              *)
Fits(count, new) ==
    /\ Rest + 2 <= count
    /\ Len(new) = 2 => new[1] < count - 1 - Rest

(* What a bit error makes of a packet: one byte of its data is another,    *)
(* its counter is (also the one that the feed waits for), its pointer is   *)
(* too large, its PUSI is gone (and the pointer a byte of the data) or set *)
(* where no section starts (and a byte of the data is the pointer).        *)
Damage(pkt) ==
    {[pkt EXCEPT !.data[k] = Garbage] : k \in DOMAIN pkt.data}
    \cup {[pkt EXCEPT !.cc = cc] : cc \in {(feed.cc + 1) % 16, (txcc + 1) % 16} \ {txcc}}
    \cup IF pkt.pusi
            THEN {[pkt EXCEPT !.pointer = pkt.count],
                  [pkt EXCEPT !.pusi = FALSE, !.data = <<Garbage>> \o @]}
            ELSE {[pkt EXCEPT !.pusi = TRUE, !.pointer = p, !.data = Tail(@)] : p \in {0, pkt.count}}

---------------------------------------------------------------------------
(* dvb_demux.c                                                             *)

(* section_length looks at the second and third byte: of a section, of     *)
(* stuffing (more than DMX_MAX_SECTION_SIZE), or of something else.        *)
section_length(buf, p) ==
    LET len == buf[p + 2].len
    IN  CASE SubSeq(buf, p + 2, p + 3) = Pad(2) -> MaxSection + 2
          [] SubSeq(buf, p + 2, p + 3) = Bytes(buf[p + 2].sec, len, 1, 2) -> len
          [] OTHER -> misread

(* What the callback is given: a whole section, or something else.         *)
Dumped(buf, p) ==
    LET len == section_length(buf, p)
    IN  IF SubSeq(buf, p + 1, p + len) = Bytes(buf[p + 1].sec, len, 0, len)
          THEN buf[p + 1].sec ELSE TORN

(* dvb_dmx_swfilter_section_new                                            *)
SectionNew(f) == [f EXCEPT !.secbufp = 0, !.buf = <<>>]

(* A bug: the buffer has room for one section and no more.                 *)
RoomForOne(f) == MaxSection - Len(f.buf)

(* The room left in secbuf_base.                                           *)
Room(f) == DMX_MAX_SECFEED_SIZE - Len(f.buf)

(* A bug: all that is in the buffer is gone through again.                 *)
DumpFromStart(f) == 0

(* sec->secbuf = sec->secbuf_base + sec->secbufp                           *)
DumpFrom(f) == f.secbufp

(* dvb_dmx_swfilter_section_copy_dump: the bytes are appended, and all     *)
(* sections that are now complete are handed out if PUSI was seen.         *)
CopyDump(f, bytes) ==
    LET buf   == f.buf \o SubSeq(bytes, 1, Least(Len(bytes), Room(f)))
        limit == Len(buf)
        dump[p \in 0 .. limit] ==
            IF /\ p + 2 < limit
               /\ section_length(buf, p) <= MaxSection
               /\ section_length(buf, p) + p <= limit
              THEN LET then == dump[p + section_length(buf, p)]
                   IN  [end |-> then.end, out |-> <<Dumped(buf, p)>> \o then.out]
              ELSE [end |-> p, out |-> <<>>]
        d == dump[DumpFrom(f)]
    IN  IF bytes = <<>> \/ Room(f) <= 0
          THEN f
          ELSE [f EXCEPT !.buf = buf, !.secbufp = d.end,
                         !.out = IF f.pusi_seen THEN @ \o d.out ELSE @]

(* A bug: a discontinuity does not stop the section being collected.       *)
ResyncNever(f, cc, dc_i) == [f EXCEPT !.cc = cc]

(* The continuity counter and the discontinuity indicator are looked at.   *)
Resync(f, cc, dc_i) ==
    IF (f.cc + 1) % 16 = cc /\ ~dc_i
      THEN [f EXCEPT !.cc = cc]
      ELSE SectionNew([f EXCEPT !.cc = cc, !.pusi_seen = FALSE])

(* dvb_dmx_swfilter_section_packet                                         *)
SectionPacket(f0, pkt, dc_i) ==
    LET f == Resync(f0, pkt.cc, dc_i)
        before == SubSeq(pkt.data, 1, pkt.pointer)
        after  == SubSeq(pkt.data, pkt.pointer + 1, pkt.count - 1)
    IN  CASE ~pkt.pusi -> CopyDump(f, pkt.data)
          [] pkt.pusi /\ pkt.count > 1 /\ pkt.pointer < pkt.count ->
               CopyDump(SectionNew([CopyDump(f, before) EXCEPT !.pusi_seen = TRUE]), after)
          [] OTHER -> f

---------------------------------------------------------------------------
(* What happens to a packet                                                *)

Sent ==
    /\ packets < MaxPackets
    /\ packets' = packets + 1 /\ txcc' = (txcc + 1) % 16
    /\ UNCHANGED misread

(* The multiplexer's position after a packet of count bytes.               *)
Advance(count, new) ==
    IF new = <<>>
      THEN tx' = [tx EXCEPT !.off = @ + Least(Rest, count)]
      ELSE LET last == new[Len(new)]
               from == Ends(new)[Len(new)] - last
           IN  tx' = [sec |-> tx.sec + Len(new), len |-> last,
                      off |-> Least(last, count - 1 - Rest - from)]

(* A packet arrives in which no section starts.                            *)
Middle(count, dc_i) ==
    /\ Sent
    /\ Rest > 0 /\ (dc_i => count + 2 <= Payload)
    /\ feed' = SectionPacket(feed, MiddlePacket(count), dc_i)
    /\ Advance(count, <<>>)
    /\ intact' = (intact /\ ~dc_i)
    /\ received' = IF intact /\ ~dc_i /\ Rest <= count THEN received \cup {tx.sec} ELSE received
    /\ UNCHANGED <<errors, odd>>

(* A packet arrives in which the sections new start.                       *)
First(count, new, dc_i) ==
    /\ Sent
    /\ Fits(count, new) /\ (dc_i => count + 2 <= Payload)
    /\ feed' = SectionPacket(feed, StartPacket(count, new), dc_i)
    /\ Advance(count, new)
    /\ intact' = TRUE
    /\ received' = received
         \cup (IF intact /\ ~dc_i /\ Rest > 0 THEN {tx.sec} ELSE {})
         \cup {tx.sec + k : k \in {k \in 1 .. Len(new) : Ends(new)[k] <= count - 1 - Rest}}
    /\ UNCHANGED <<errors, odd>>

(* A packet with a bit error.  dvb_dmx_swfilter_packet sees the transport  *)
(* error indicator, which the demodulator has set, and goes on all the     *)
(* same: dvb_demux_feed_err_pkts is 1 unless the module option says 0.     *)
Damaged(count, new) ==
    /\ Sent /\ errors < MaxErrors
    /\ IF new = <<>> THEN Rest > 0 ELSE Fits(count, new)
    /\ \E pkt \in Damage(IF new = <<>> THEN MiddlePacket(count) ELSE StartPacket(count, new)) :
         feed' = SectionPacket(feed, pkt, FALSE)
    /\ Advance(count, new)
    /\ intact' = FALSE
    /\ errors' = errors + 1
    /\ UNCHANGED <<received, odd>>

(* A packet is lost on its way, or its PID is damaged: no feed asked for   *)
(* it (or, with dvb_demux_feed_err_pkts = 0, it is dropped for its error). *)
Lost(count, new) ==
    /\ Sent
    /\ IF new = <<>> THEN Rest > 0 ELSE Fits(count, new)
    /\ Advance(count, new)
    /\ intact' = FALSE
    /\ UNCHANGED <<feed, received, errors, odd>>

(* A packet without payload, which does not count for the continuity       *)
(* counter: dvb_dmx_swfilter_packet_type resets secbufp and seclen.        *)
NoPayload ==
    /\ packets < MaxPackets
    /\ packets' = packets + 1
    /\ feed' = [feed EXCEPT !.secbufp = 0]
    /\ odd' = odd \cup {"empty"}
    /\ UNCHANGED <<misread, tx, txcc, intact, received, errors>>

(* The feed is stopped and started again by dvb_dmxdev_feed_restart, or    *)
(* released and allocated to a new user: tsfeedp, secbufp and seclen are   *)
(* reset, cc and pusi_seen are not.                                        *)
Restart ==
    /\ packets < MaxPackets
    /\ feed' = SectionNew(feed)
    /\ intact' = FALSE
    /\ odd' = IF feed.pusi_seen THEN odd \cup {"stale"} ELSE odd
    /\ UNCHANGED <<misread, tx, txcc, packets, received, errors>>

Starts == {<<a>> : a \in Lens} \cup {<<a, b>> : a \in Lens, b \in Lens}

Next ==
    \/ \E count \in Counts, dc_i \in BOOLEAN :
         Middle(count, dc_i) \/ \E new \in Starts : First(count, new, dc_i)
    \/ \E count \in Counts, new \in Starts \cup {<<>>} : Damaged(count, new) \/ Lost(count, new)
    \/ NoPayload
    \/ Restart

Spec == Init /\ [][Next]_vars

---------------------------------------------------------------------------
(* Properties                                                              *)

Delivered == {feed.out[k] : k \in 1 .. Len(feed.out)}

(* The positions stay inside secbuf_base.                                  *)
TypeOK ==
    /\ feed.cc \in 0 .. 15 /\ feed.pusi_seen \in BOOLEAN
    /\ Len(feed.buf) <= DMX_MAX_SECFEED_SIZE
    /\ feed.secbufp \in 0 .. Len(feed.buf)
    /\ tx.off \in 0 .. tx.len
    /\ received \subseteq 1 .. tx.sec

(* The buffer never overflows, whatever has arrived.  Only whole sections  *)
(* are handed out, whatever packets were lost, empty or marked as          *)
(* discontinuous, as long as those that arrived had no bit errors, no      *)
(* start found pusi_seen set, and fewer than 16 packets are lost in a row: *)
(* MaxPackets is less than what the continuity counter can count, since 16 *)
(* losses are none to it.                                                  *)
NeverTorn == TypeOK /\ (errors = 0 /\ "stale" \notin odd => TORN \notin Delivered)

(* "Losless Section Demux": every section whose bytes were all received,   *)
(* without a discontinuity in between, has been handed out; what was lost, *)
(* damaged or restarted before it does not matter, nor how full the buffer *)
(* was.                                                                    *)
Lossless == received \subseteq Delivered

(* Sections are handed out in the order they were sent and once each.      *)
OnceInOrder ==
    errors = 0 /\ odd = {} => \A k \in 1 .. Len(feed.out) - 1 : feed.out[k] < feed.out[k + 1]
===========================================================================
