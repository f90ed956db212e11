----------------------- MODULE CommonInterface_proofs -----------------------
(***************************************************************************)
(* A CI slot: its ring keeps the fragments of the CAM until they are read, *)
(* and a read takes one message, whole, for every size of the ring and of  *)
(* the link buffer; its state machine follows the CAM, for every number of *)
(* events and of packets of an iteration.                                  *)
(***************************************************************************)
EXTENDS CaRxBuffer, CaSlot, TLAPS, SequenceTheorems

---------------------------------------------------------------------------
(* The ring (CaRxBuffer)                                                   *)

(* A packet's bytes, and how far the place i is from pread.                *)
Sz(n) == sent[n].len + PKTHDRSIZE
Off(i) == From(pread, i)

(* What has been published of a packet.                                    *)
Whole(n) == n < Len(sent) \/ wpc \in {"wake", "idle"}
Shown(n) == IF Whole(n) THEN Sz(n) ELSE wk

(* The bytes of packet n, which may have been disposed of.                 *)
PacketOf(n, k) ==
    CASE k = 0 -> sent[n].len \div 256
      [] k = 1 -> sent[n].len % 256
      [] k = 2 -> IF n \in disposed THEN PKT_DISPOSED ELSE PKT_READY
      [] k = 3 -> sent[n].conn
      [] k = 4 -> IF sent[n].more THEN MORE ELSE 0
      [] OTHER -> PayloadByte(n)

Reads == [count : Int, idx : -1 .. Size - 1, consumed : Int, dispose : -1 .. Size - 1,
          conn : Int, pktlen : Int, last : BOOLEAN]
ReadPlaces == {"idle", "cond", "wait", "asleep", "walk", "frag", "next", "dispose", "clean", "loop"}
Packets == [conn : Conns, more : BOOLEAN, len : Lens, at : 0 .. Size - 1]

RxTypes ==
    /\ data \in [0 .. Size - 1 -> Nat] /\ pread \in 0 .. Size - 1 /\ pwrite \in 0 .. Size - 1
    /\ sent \in Seq(Packets)
    /\ wpc \in {"idle", "header", "copy", "wake"} /\ wk \in Nat
    /\ rpc \in ReadPlaces /\ r \in Reads
    /\ ubuf \in Seq(Nat) /\ r.pktlen = 2 + Len(ubuf) /\ (rpc = "idle" => ubuf = <<>>)
    /\ disposed \subseteq 1 .. Len(sent)

(* Those from f on lie in the ring, one behind the other from pread to     *)
(* pwrite.                                                                 *)
Line(f) ==
    /\ f \in 1 .. Len(sent) + 1
    /\ f <= Len(sent) =>
         /\ sent[f].at = pread
         /\ Off(pwrite) = Off(sent[Len(sent)].at) + Shown(Len(sent))
         /\ Off(sent[Len(sent)].at) + Sz(Len(sent)) < Size
    /\ f > Len(sent) => pwrite = pread /\ wpc \in {"wake", "idle"}
    /\ \A n \in f .. Len(sent) - 1 : Off(sent[n + 1].at) = Off(sent[n].at) + Sz(n)
    /\ \A n, m \in f .. Len(sent) : n < m => Off(sent[n].at) + Sz(n) <= Off(sent[m].at)
    /\ wpc = "header" => wk \in 0 .. 2
    /\ wpc = "copy" => wk \in 3 .. Sz(Len(sent)) - 1

Contents(f) == \A n \in f .. Len(sent) : \A k \in 0 .. Shown(n) - 1 :
    data[(sent[n].at + k) % Size] = PacketOf(n, k)

Gone(f) ==
    /\ \A n \in disposed : Whole(n)
    /\ \A n \in 1 .. f - 1 : n \in disposed

(* Where packet b begins, or will begin.                                   *)
Start(f, b) == IF b <= Len(sent) THEN sent[b].at
               ELSE IF f <= Len(sent) THEN (sent[Len(sent)].at + Sz(Len(sent))) % Size
               ELSE pread

(* Where the read's index may be anything: it has gone wrong (e), or it    *)
(* has its last fragment (l) and will not use what it finds behind it.     *)
Adrift(p, l, e) ==
    (e /\ p \in {"cond", "next", "dispose"}) \/ (l /\ p \in {"next", "dispose", "clean", "loop"})

(* The reader's index is the beginning of a packet, and its distance is    *)
(* not taken too small, except by Wrap at the end of a full ring.          *)
Looking(f) == rpc \in {"cond", "walk", "next"} =>
    /\ r.idx # NONE
    /\ ~Adrift(rpc, r.last, early) =>
         /\ \E b \in f .. Len(sent) + 1 : r.idx = Start(f, b)
         /\ r.consumed >= Off(r.idx) \/ (Off(r.idx) = Size - 1 /\ rpc # "walk")
Holding(f) == rpc \in {"frag", "dispose", "clean", "loop"} /\ r.idx # NONE /\ ~Adrift(rpc, r.last, early) =>
    \E n \in f .. Len(sent) : n \notin disposed /\ r.idx = sent[n].at /\ Shown(n) >= PKTHDRSIZE
Using(f) == r.dispose # NONE =>
    /\ rpc \in {"next", "dispose"}
    /\ \E m \in f .. Len(sent) : r.dispose = sent[m].at /\ (early \/ Whole(m))
    /\ r.idx # NONE /\ ~Adrift(rpc, r.last, early) => Off(r.dispose) < Off(r.idx)

Inv(f) == Line(f) /\ Contents(f) /\ Gone(f) /\ Looking(f) /\ Holding(f) /\ Using(f)
RxIInv == RxTypes /\ \E f \in 1 .. Len(sent) + 1 : Inv(f)

---------------------------------------------------------------------------
LEMMA Settings ==
    /\ Size \in Nat /\ LinkBufSize \in Nat /\ LinkBufSize >= 2 /\ Size > LinkBufSize + 3 /\ Wrap \in {0, 1}
    /\ Lens \subseteq 2 .. LinkBufSize /\ Conns \subseteq 1 .. 127 /\ Payload \in 0 .. 255
BY SizeAssumption, LensAssumption, ConnsAssumption, PayloadAssumption

LEMMA Modulo ==
    ASSUME NEW a \in 0 .. Size - 1, NEW k \in 0 .. Size
    PROVE  /\ (a + k) % Size = IF a + k < Size THEN a + k ELSE a + k - Size
           /\ (a + k) % Size \in 0 .. Size - 1
<1>1. Size \in Nat \ {0}
  BY Settings
<1>2. CASE a + k < Size
  BY <1>1, <1>2
<1>3. CASE a + k >= Size
  <2>1. (a + k) % Size = (a + k - Size) % Size
    BY <1>1, <1>3
  <2>2. a + k - Size \in 0 .. Size - 1
    BY <1>1, <1>3
  <2> QED
    BY <1>1, <1>3, <2>1, <2>2
<1> QED
  BY <1>1, <1>2, <1>3

LEMMA Farther ==
    ASSUME NEW p \in 0 .. Size - 1, NEW i \in 0 .. Size - 1, NEW k \in Nat, From(p, i) + k < Size
    PROVE  /\ (i + k) % Size \in 0 .. Size - 1
           /\ From(p, (i + k) % Size) = From(p, i) + k
<1>1. k \in 0 .. Size
  BY Settings DEF From
<1>2. /\ (i + k) % Size = IF i + k < Size THEN i + k ELSE i + k - Size
      /\ (i + k) % Size \in 0 .. Size - 1
  BY ONLY <1>1, i \in 0 .. Size - 1, Modulo
<1> DEFINE j == (i + k) % Size
<1>3. j = (IF i + k < Size THEN i + k ELSE i + k - Size) /\ j \in 0 .. Size - 1
  BY <1>2
<1> HIDE DEF j
<1>4. From(p, j) = From(p, i) + k
  BY <1>3, Settings DEF From
<1> QED
  BY <1>3, <1>4 DEF j

LEMMA SamePlace ==
    ASSUME NEW p \in 0 .. Size - 1, NEW i \in 0 .. Size - 1, NEW j \in 0 .. Size - 1
    PROVE  /\ From(p, i) \in 0 .. Size - 1
           /\ From(p, i) = From(p, j) => i = j
           /\ From(p, p) = 0
BY Settings DEF From

LEMMA LengthBytes ==
    ASSUME NEW l \in Nat
    PROVE  /\ l \div 256 \in Nat /\ l % 256 \in Nat
           /\ (l \div 256) * 256 + (l % 256) = l
OBVIOUS

LEMMA Sizes ==
    ASSUME RxTypes, NEW n \in 1 .. Len(sent)
    PROVE  /\ sent[n] \in Packets
           /\ sent[n].len \in 2 .. LinkBufSize /\ sent[n].at \in 0 .. Size - 1
           /\ Sz(n) \in 5 .. LinkBufSize + 3 /\ Off(sent[n].at) \in 0 .. Size - 1
<1>1. sent[n] \in Packets
  <2>1. sent \in Seq(Packets)
    BY DEF RxTypes
  <2> QED
    BY ONLY <2>1, n \in 1 .. Len(sent), ElementOfSeq
<1>2. sent[n].len \in 2 .. LinkBufSize /\ sent[n].at \in 0 .. Size - 1
  <2>1. sent[n].len \in Lens /\ sent[n].at \in 0 .. Size - 1
    BY <1>1 DEF Packets
  <2> QED
    BY ONLY <2>1, LensAssumption
<1>3. Sz(n) \in 5 .. LinkBufSize + 3
  BY <1>2, Settings DEF Sz, PKTHDRSIZE
<1> QED
  BY <1>1, <1>2, <1>3, SamePlace DEF RxTypes, Off

(* A packet of the ring has its room, and what is published of it lies     *)
(* before pwrite.                                                          *)
LEMMA Fits ==
    ASSUME RxTypes, NEW f, Line(f), NEW n \in f .. Len(sent)
    PROVE  /\ n \in 1 .. Len(sent) /\ Len(sent) \in Nat /\ f \in 1 .. Len(sent)
           /\ Off(sent[n].at) + Sz(n) < Size
           /\ Shown(n) \in 0 .. Sz(n)
           /\ Off(sent[n].at) + Shown(n) <= Off(pwrite)
<1>1. Len(sent) \in Nat /\ f \in 1 .. Len(sent) + 1
  BY DEF RxTypes, Line
<1>2. n \in 1 .. Len(sent) /\ f \in 1 .. Len(sent) /\ Len(sent) \in 1 .. Len(sent) /\ Len(sent) \in f .. Len(sent)
  BY <1>1
<1>3. /\ Sz(n) \in 5 .. LinkBufSize + 3 /\ Off(sent[n].at) \in 0 .. Size - 1
      /\ Sz(Len(sent)) \in 5 .. LinkBufSize + 3 /\ Off(sent[Len(sent)].at) \in 0 .. Size - 1
  BY <1>2, Sizes
<1>4. \A m \in f .. Len(sent) : Shown(m) \in 0 .. Sz(m)
  <2> SUFFICES ASSUME NEW m \in f .. Len(sent) PROVE Shown(m) \in 0 .. Sz(m)
    OBVIOUS
  <2>1. m \in 1 .. Len(sent)
    BY <1>1
  <2>2. Sz(m) \in 5 .. LinkBufSize + 3
    BY <2>1, Sizes
  <2>3. CASE Whole(m)
    BY <2>2, <2>3, Settings DEF Shown
  <2>4. CASE ~Whole(m)
    <3>1. m = Len(sent) /\ wpc \in {"header", "copy"}
      BY <1>1, <2>1, <2>4 DEF Whole, RxTypes
    <3>2. (wpc = "header" => wk \in 0 .. 2) /\ (wpc = "copy" => wk \in 3 .. Sz(m) - 1)
      BY <3>1 DEF Line
    <3>3. Shown(m) = wk
      BY <2>4 DEF Shown
    <3> QED
      BY ONLY <2>2, <3>1, <3>2, <3>3, Settings
  <2> QED
    BY <2>3, <2>4
<1>5. /\ Off(pwrite) = Off(sent[Len(sent)].at) + Shown(Len(sent))
      /\ Off(sent[Len(sent)].at) + Sz(Len(sent)) < Size
  BY <1>2 DEF Line
<1>6. n # Len(sent) => Off(sent[n].at) + Sz(n) <= Off(sent[Len(sent)].at)
  BY <1>1, <1>2 DEF Line
<1>7. Shown(n) \in 0 .. Sz(n) /\ Shown(Len(sent)) \in 0 .. Sz(Len(sent))
  BY <1>2, <1>4
<1> DEFINE a == Off(sent[n].at)
           e == Off(sent[Len(sent)].at)
           z == Off(pwrite)
           x == Sz(n)
           y == Sz(Len(sent))
           u == Shown(n)
           v == Shown(Len(sent))
<1>10. /\ x \in 5 .. LinkBufSize + 3 /\ y \in 5 .. LinkBufSize + 3 /\ u \in 0 .. x /\ v \in 0 .. y
       /\ a \in 0 .. Size - 1 /\ e \in 0 .. Size - 1 /\ z = e + v /\ e + y < Size
       /\ n # Len(sent) => a + x <= e
       /\ n = Len(sent) => a = e /\ x = y /\ u = v
  BY <1>3, <1>5, <1>6, <1>7
<1> HIDE DEF a, e, z, x, y, u, v
<1>11. a + x < Size /\ u \in 0 .. x /\ a + u <= z
  BY ONLY <1>1, <1>10, n \in f .. Len(sent), Settings
<1> QED
  BY <1>1, <1>2, <1>11 DEF a, z, x, u

LEMMA StartIs ==
    ASSUME RxTypes, NEW f, Line(f), NEW b \in f .. Len(sent) + 1
    PROVE  /\ Start(f, b) \in 0 .. Size - 1 /\ Off(Start(f, b)) < Size
           /\ b <= Len(sent) => Off(Start(f, b)) = Off(sent[b].at)
           /\ b > Len(sent) /\ f <= Len(sent) =>
                Off(Start(f, b)) = Off(sent[Len(sent)].at) + Sz(Len(sent))
           /\ b > Len(sent) /\ f > Len(sent) => Off(Start(f, b)) = 0
<1>1. Len(sent) \in Nat /\ f \in 1 .. Len(sent) + 1 /\ pread \in 0 .. Size - 1
  BY DEF RxTypes, Line
<1>2. CASE b <= Len(sent)
  <2>1. b \in f .. Len(sent) /\ b \in 1 .. Len(sent)
    BY <1>1, <1>2
  <2>2. /\ sent[b].at \in 0 .. Size - 1 /\ Sz(b) \in 5 .. LinkBufSize + 3
        /\ Off(sent[b].at) \in 0 .. Size - 1
    BY <2>1, Sizes
  <2>3. Off(sent[b].at) + Sz(b) < Size
    BY <2>1, Fits
  <2>4. Start(f, b) = sent[b].at
    BY <1>2 DEF Start
  <2> QED
    BY <1>2, <2>2, <2>3, <2>4, Settings
<1>3. CASE b > Len(sent) /\ f <= Len(sent)
  <2>1. Len(sent) \in f .. Len(sent) /\ Len(sent) \in 1 .. Len(sent)
    BY <1>1, <1>3
  <2> DEFINE i == sent[Len(sent)].at
             k == Sz(Len(sent))
  <2>2. i \in 0 .. Size - 1 /\ k \in 5 .. LinkBufSize + 3 /\ Off(i) \in 0 .. Size - 1
    BY <2>1, Sizes
  <2>3. Off(i) + k < Size
    BY <2>1, Fits
  <2>4. Start(f, b) = (i + k) % Size
    BY <1>1, <1>3 DEF Start
  <2>5. k \in Nat /\ From(pread, i) + k < Size /\ From(pread, i) = Off(i)
    BY <2>2, <2>3, Settings DEF Off
  <2> HIDE DEF i, k
  <2>6. (i + k) % Size \in 0 .. Size - 1 /\ From(pread, (i + k) % Size) = From(pread, i) + k
    BY ONLY <1>1, <2>2, <2>5, Farther
  <2>7. Start(f, b) \in 0 .. Size - 1 /\ Off(Start(f, b)) = Off(i) + k
    BY <2>4, <2>5, <2>6 DEF Off
  <2> QED
    BY <1>1, <1>3, <2>3, <2>7 DEF i, k
<1>4. CASE b > Len(sent) /\ f > Len(sent)
  <2>1. Start(f, b) = pread
    BY <1>1, <1>4 DEF Start
  <2>2. Off(pread) = 0
    BY <1>1, SamePlace DEF Off
  <2> QED
    BY <1>1, <1>4, <2>1, <2>2, Settings
<1> QED
  BY <1>1, <1>2, <1>3, <1>4

(* The header of a packet whose header is published, and where it leads.   *)
LEMMA HeaderIs ==
    ASSUME RxTypes, NEW f, Line(f), Contents(f), NEW n \in f .. Len(sent), Shown(n) >= 3
    PROVE  /\ LenAt(sent[n].at) = sent[n].len
           /\ StatusAt(sent[n].at) = IF n \in disposed THEN PKT_DISPOSED ELSE PKT_READY
           /\ After(sent[n].at) = Start(f, n + 1)
           /\ Off(After(sent[n].at)) = Off(sent[n].at) + Sz(n)
<1> DEFINE i == sent[n].at
<1>1. n \in 1 .. Len(sent) /\ Len(sent) \in Nat /\ f \in 1 .. Len(sent) /\ Shown(n) \in 0 .. Sz(n)
      /\ Off(i) + Sz(n) < Size
  BY Fits
<1>2. /\ i \in 0 .. Size - 1 /\ Off(i) \in 0 .. Size - 1 /\ Sz(n) \in 5 .. LinkBufSize + 3
      /\ sent[n].len \in 2 .. LinkBufSize
  BY <1>1, Sizes
<1>3. \A k \in 0 .. 2 : data[(i + k) % Size] = PacketOf(n, k)
  <2>1. 0 .. 2 \subseteq 0 .. Shown(n) - 1
    BY <1>1, <1>2, Settings, SMTT(30)
  <2> QED
    BY <2>1 DEF Contents
<1>4. /\ data[(i + 0) % Size] = sent[n].len \div 256 /\ data[(i + 1) % Size] = sent[n].len % 256
      /\ data[(i + 2) % Size] = IF n \in disposed THEN PKT_DISPOSED ELSE PKT_READY
  BY <1>3 DEF PacketOf
<1> DEFINE l == sent[n].len
           x == Sz(n)
           a == Off(i)
<1>5. /\ i \in 0 .. Size - 1 /\ a \in 0 .. Size - 1 /\ x \in 5 .. LinkBufSize + 3 /\ l \in 2 .. LinkBufSize
      /\ x = l + 3 /\ a + x < Size /\ a = From(pread, i) /\ pread \in 0 .. Size - 1
  BY <1>1, <1>2 DEF Sz, PKTHDRSIZE, Off, RxTypes
<1>6. data[(i + 0) % Size] = l \div 256 /\ data[(i + 1) % Size] = l % 256
  BY <1>4
<1> HIDE DEF i, l, x, a
<1>7. l \in Nat /\ 0 \in 0 .. Size /\ i + 0 = i /\ i + 0 < Size /\ x \in Nat /\ a + x < Size
  BY ONLY <1>5, Settings, SMTT(30)
<1>8. (l \div 256) * 256 + (l % 256) = l
  BY ONLY <1>7, LengthBytes
<1>9. (i + 0) % Size = i
  <2>1. (i + 0) % Size = IF i + 0 < Size THEN i + 0 ELSE i + 0 - Size
    BY ONLY <1>5, <1>7, Modulo
  <2> QED
    BY ONLY <1>7, <2>1
<1>10. LenAt(i) = l
  BY ONLY <1>6, <1>7, <1>8, <1>9 DEF LenAt
<1>11. After(i) = (i + x) % Size
  BY ONLY <1>5, <1>10, Settings DEF After, PKTHDRSIZE
<1>12. After(i) \in 0 .. Size - 1 /\ From(pread, After(i)) = a + x
  BY ONLY <1>5, <1>7, <1>11, Farther
<1>13. n + 1 \in f .. Len(sent) + 1
  BY <1>1
<1>14. /\ Start(f, n + 1) \in 0 .. Size - 1
       /\ n < Len(sent) => From(pread, Start(f, n + 1)) = Off(sent[n + 1].at)
       /\ n = Len(sent) => From(pread, Start(f, n + 1)) = a + x
  BY <1>1, <1>13, StartIs DEF Off, a, i, x
<1>15. n < Len(sent) => Off(sent[n + 1].at) = a + x
  BY <1>1 DEF Line, a, i, x
<1>16. From(pread, Start(f, n + 1)) = a + x
  BY <1>1, <1>14, <1>15
<1>17. After(i) = Start(f, n + 1)
  BY ONLY <1>5, <1>12, <1>14, <1>16, SamePlace
<1> QED
  BY <1>4, <1>10, <1>12, <1>17 DEF StatusAt, Off, a, i, x, l

LEMMA AvailIs ==
    ASSUME RxTypes
    PROVE  avail = Off(pwrite) /\ free = Size - 1 - Off(pwrite) /\ Off(pwrite) \in 0 .. Size - 1
BY Settings DEF RxTypes, avail, free, Off, From

(* If more than a header lies behind a packet's beginning there is one,    *)
(* and its header is published.                                            *)
LEMMA Reached ==
    ASSUME RxTypes, NEW f, Line(f), NEW b \in f .. Len(sent) + 1,
           avail - Off(Start(f, b)) > PKTHDRSIZE
    PROVE  b \in f .. Len(sent) /\ Shown(b) > 3
<1>1. Len(sent) \in Nat /\ f \in 1 .. Len(sent) + 1 /\ pread \in 0 .. Size - 1 /\ pwrite \in 0 .. Size - 1
  BY DEF RxTypes, Line
<1>2. Off(pwrite) - Off(Start(f, b)) > 3 /\ Off(pwrite) \in 0 .. Size - 1
  BY AvailIs DEF PKTHDRSIZE
<1>3. b <= Len(sent)
  <2> SUFFICES ASSUME b > Len(sent) PROVE FALSE
    BY <1>1
  <2>1. CASE f > Len(sent)
    <3>1. pwrite = pread
      BY <2>1 DEF Line
    <3>2. Off(pwrite) = 0
      BY <1>1, <3>1, SamePlace DEF Off
    <3>3. Off(Start(f, b)) = 0
      BY <2>1, StartIs
    <3> QED
      BY <1>2, <3>2, <3>3
  <2>2. CASE f <= Len(sent)
    <3>1. Len(sent) \in f .. Len(sent) /\ Len(sent) \in 1 .. Len(sent)
      BY <1>1, <2>2
    <3>2. Shown(Len(sent)) \in 0 .. Sz(Len(sent)) /\ Sz(Len(sent)) \in 5 .. LinkBufSize + 3
          /\ Off(sent[Len(sent)].at) \in 0 .. Size - 1
      BY <3>1, Fits, Sizes
    <3>3. Off(pwrite) = Off(sent[Len(sent)].at) + Shown(Len(sent))
      BY <2>2 DEF Line
    <3>4. Off(Start(f, b)) = Off(sent[Len(sent)].at) + Sz(Len(sent))
      BY <2>2, StartIs
    <3> QED
      BY <1>2, <3>2, <3>3, <3>4, Settings
  <2> QED
    BY <1>1, <2>1, <2>2
<1>4. b \in f .. Len(sent) /\ b \in 1 .. Len(sent) /\ f <= Len(sent)
  BY <1>1, <1>3
<1>5. Off(Start(f, b)) = Off(sent[b].at) /\ Sz(b) \in 5 .. LinkBufSize + 3 /\ Off(sent[b].at) \in 0 .. Size - 1
  BY <1>3, <1>4, StartIs, Sizes
<1>6. CASE b < Len(sent)
  BY <1>4, <1>5, <1>6, Settings DEF Shown, Whole
<1>7. CASE b = Len(sent)
  <2>1. Off(pwrite) = Off(sent[b].at) + Shown(b) /\ Shown(b) \in 0 .. Sz(b)
    BY <1>4, <1>7, Fits DEF Line
  <2> QED
    BY <1>2, <1>4, <1>5, <2>1, Settings
<1> QED
  BY <1>1, <1>4, <1>6, <1>7

LEMMA DistanceIs ==
    ASSUME RxTypes, NEW i \in 0 .. Size - 1
    PROVE  /\ Distance(i) \in Int /\ Distance(i) <= Off(i) + Wrap
           /\ Distance(i) >= Off(i) \/ Off(i) = Size - 1
           /\ Off(i) \in 0 .. Size - 1
<1>1. pread \in 0 .. Size - 1 /\ Size \in Nat \ {0} /\ Wrap \in {0, 1}
  BY Settings DEF RxTypes
<1>2. CASE i >= pread
  BY <1>1, <1>2 DEF Distance, Off, From
<1>3. CASE i < pread
  <2> DEFINE d == i - pread + Size + Wrap
  <2>1. d \in 0 .. Size /\ d = Off(i) + Wrap /\ Off(i) \in 0 .. Size - 1
    BY <1>1, <1>3 DEF Off, From
  <2>2. Distance(i) = d % Size
    BY <1>1, <1>3 DEF Distance
  <2> HIDE DEF d
  <2>3. CASE d < Size
    <3>1. d % Size = d
      BY <1>1, <2>1, <2>3
    <3> QED
      BY <1>1, <2>1, <2>2, <3>1
  <2>4. CASE d = Size
    <3>1. d % Size = 0
      BY <1>1, <2>4
    <3> QED
      BY <1>1, <2>1, <2>2, <2>4, <3>1
  <2> QED
    BY <1>1, <2>1, <2>3, <2>4
<1> QED
  BY <1>1, <1>2, <1>3

(* Whatever lies at a place, the place behind it is one of the ring.       *)
LEMMA AfterIs ==
    ASSUME RxTypes, NEW i \in 0 .. Size - 1
    PROVE  LenAt(i) \in Nat /\ After(i) \in 0 .. Size - 1
<1>1. Size \in Nat \ {0} /\ 1 \in 0 .. Size
  BY Settings
<1>2. (i + 1) % Size \in 0 .. Size - 1
  BY ONLY <1>1, i \in 0 .. Size - 1, Modulo
<1>3. data[i] \in Nat /\ data[(i + 1) % Size] \in Nat
  BY <1>2 DEF RxTypes
<1> DEFINE a == data[i]
           b == data[(i + 1) % Size]
           l == LenAt(i)
<1>4. l = a * 256 + b
  BY DEF LenAt
<1>5. a \in Nat /\ b \in Nat
  BY <1>3
<1> HIDE DEF a, b, l
<1>6. l \in Nat
  BY ONLY <1>4, <1>5
<1>7. (i + l + 3) % Size \in 0 .. Size - 1
  BY ONLY <1>1, <1>6, i \in 0 .. Size - 1
<1> QED
  BY <1>6, <1>7 DEF After, PKTHDRSIZE, l

(* The last packet that began at a place is the one in the ring.           *)
LEMMA PacketAtIs ==
    ASSUME RxTypes, NEW f, Line(f), NEW n \in f .. Len(sent)
    PROVE  PacketAt(sent[n].at) = n
<1>1. Len(sent) \in Nat /\ f \in 1 .. Len(sent) /\ n \in 1 .. Len(sent)
  BY Fits
<1>2. \A m \in n + 1 .. Len(sent) : sent[m].at # sent[n].at
  <2> SUFFICES ASSUME NEW m \in n + 1 .. Len(sent) PROVE Off(sent[m].at) # Off(sent[n].at)
    BY DEF Off
  <2>1. Off(sent[n].at) + Sz(n) <= Off(sent[m].at)
    BY <1>1 DEF Line
  <2>2. Sz(n) \in 5 .. LinkBufSize + 3 /\ Off(sent[n].at) \in 0 .. Size - 1
    BY <1>1, Sizes
  <2> QED
    BY <2>1, <2>2, Settings
<1>3. ASSUME NEW x \in 1 .. Len(sent), sent[x].at = sent[n].at,
             \A m \in x + 1 .. Len(sent) : sent[m].at # sent[n].at
      PROVE  x = n
  <2>1. n \notin x + 1 .. Len(sent)
    BY <1>3
  <2>2. x \notin n + 1 .. Len(sent)
    BY <1>2, <1>3
  <2> QED
    BY <1>1, <2>1, <2>2
<1>4. \E x \in 1 .. Len(sent) :
          sent[x].at = sent[n].at /\ \A m \in x + 1 .. Len(sent) : sent[m].at # sent[n].at
  BY <1>1, <1>2
<1> QED
  BY <1>3, <1>4 DEF PacketAt

---------------------------------------------------------------------------
(* The reader's steps that leave the ring alone.  Where it is and what it  *)
(* has in its variables afterwards is all there is to say of them.         *)
LooksAt(f, p, rd, e) == p \in {"cond", "walk", "next"} =>
    /\ rd.idx # NONE
    /\ ~Adrift(p, rd.last, e) =>
         /\ \E b \in f .. Len(sent) + 1 : rd.idx = Start(f, b)
         /\ rd.consumed >= Off(rd.idx) \/ (Off(rd.idx) = Size - 1 /\ p # "walk")
Holds(f, p, rd, e) == p \in {"frag", "dispose", "clean", "loop"} /\ rd.idx # NONE /\ ~Adrift(p, rd.last, e) =>
    \E n \in f .. Len(sent) : n \notin disposed /\ rd.idx = sent[n].at /\ Shown(n) >= PKTHDRSIZE
Uses(f, p, rd, e) == rd.dispose # NONE =>
    /\ p \in {"next", "dispose"}
    /\ \E m \in f .. Len(sent) : rd.dispose = sent[m].at /\ (e \/ Whole(m))
    /\ rd.idx # NONE /\ ~Adrift(p, rd.last, e) => Off(rd.dispose) < Off(rd.idx)

LEMMA ReaderMoves ==
    ASSUME RxTypes, NEW f, Inv(f), UNCHANGED <<ring, writer, disposed>>,
           rpc' \in ReadPlaces, r' \in Reads, ubuf' \in Seq(Nat), r'.pktlen = 2 + Len(ubuf'),
           rpc' = "idle" => ubuf' = <<>>,
           LooksAt(f, rpc', r', early'), Holds(f, rpc', r', early'), Uses(f, rpc', r', early')
    PROVE  RxTypes' /\ Inv(f)'
<1>1. /\ data' = data /\ pread' = pread /\ pwrite' = pwrite /\ sent' = sent /\ wpc' = wpc /\ wk' = wk
      /\ disposed' = disposed
  BY DEF ring, writer
<1>2. RxTypes'
  BY <1>1 DEF RxTypes
<1>3. Line(f)'
  BY <1>1 DEF Inv, Line, Off, Shown, Whole, Sz
<1>4. Contents(f)' /\ Gone(f)'
  BY <1>1 DEF Inv, Contents, Gone, Shown, Whole, Sz, PacketOf
<1>5. Looking(f)'
  BY <1>1 DEF LooksAt, Looking, Adrift, Off, Start, Sz
<1>6. Holding(f)'
  BY <1>1 DEF Holds, Holding, Adrift, Shown, Whole, Sz
<1>7. Using(f)'
  BY <1>1 DEF Uses, Using, Adrift, Off, Whole
<1> QED
  BY <1>2, <1>3, <1>4, <1>5, <1>6, <1>7 DEF Inv

(* pkt_next from anywhere.                                                 *)
LEMMA NextIs ==
    ASSUME RxTypes, NEW i \in 0 .. Size - 1, NEW rd \in Reads
    PROVE  LET q == PktNext(rd, i)
           IN  /\ q \in Reads /\ q.idx = i /\ q.idx # NONE /\ q.consumed = Distance(i)
               /\ q.dispose = rd.dispose /\ q.pktlen = rd.pktlen /\ q.last = rd.last
<1>1. Distance(i) \in Int
  BY DistanceIs
<1>2. i \in -1 .. Size - 1 /\ i # NONE
  BY Settings DEF NONE
<1>3. [rd EXCEPT !.idx = i, !.consumed = Distance(i)] \in Reads
  BY <1>1, <1>2 DEF Reads
<1> QED
  BY <1>2, <1>3 DEF PktNext, Reads

(* pkt_next from the beginning of a packet.                                *)
LEMMA LooksFrom ==
    ASSUME RxTypes, NEW f, Line(f), NEW b \in f .. Len(sent) + 1, NEW rd \in Reads
    PROVE  LET q == PktNext(rd, Start(f, b))
           IN  /\ q \in Reads /\ q.idx = Start(f, b) /\ q.idx # NONE
               /\ q.consumed >= Off(q.idx) \/ Off(q.idx) = Size - 1
               /\ q.dispose = rd.dispose /\ q.pktlen = rd.pktlen /\ q.last = rd.last
<1>1. Start(f, b) \in 0 .. Size - 1
  BY StartIs
<1> DEFINE i == Start(f, b)
           q == PktNext(rd, i)
<1>2. i \in 0 .. Size - 1
  BY <1>1
<1> HIDE DEF i
<1>3. /\ q \in Reads /\ q.idx = i /\ q.idx # NONE /\ q.consumed = Distance(i)
      /\ q.dispose = rd.dispose /\ q.pktlen = rd.pktlen /\ q.last = rd.last
  BY <1>2, NextIs
<1>4. Distance(i) >= Off(i) \/ Off(i) = Size - 1
  BY <1>2, DistanceIs
<1> QED
  BY <1>3, <1>4 DEF i

LEMMA LooksFromFirst ==
    ASSUME RxTypes, NEW f, Line(f), NEW rd \in Reads
    PROVE  LET q == PktNext(rd, pread)
           IN  /\ q \in Reads /\ q.idx # NONE
               /\ q.consumed >= Off(q.idx) /\ \E b \in f .. Len(sent) + 1 : q.idx = Start(f, b)
               /\ q.dispose = rd.dispose /\ q.pktlen = rd.pktlen /\ q.last = rd.last
<1>1. f \in f .. Len(sent) + 1
  BY DEF RxTypes, Line
<1>2. Start(f, f) = pread
  BY DEF Start, Line
<1>3. pread \in 0 .. Size - 1
  BY DEF RxTypes
<1>4. Distance(pread) = 0 /\ Off(pread) = 0
  BY <1>3, Settings DEF Distance, Off, From
<1> QED
  BY <1>1, <1>2, <1>3, <1>4, NextIs

(* Only at the end of a full ring is the distance taken too small.         *)
LEMMA BlankIs ==
    ASSUME RxTypes, NEW f, Inv(f), rpc \in {"cond", "walk", "next"}, AnyMore,
           ~Adrift(rpc, r.last, early)
    PROVE  r.consumed >= Off(r.idx) \/ (Blank /\ rpc # "walk")
<1>1. r.consumed >= Off(r.idx) \/ (Off(r.idx) = Size - 1 /\ rpc # "walk")
  BY DEF Inv, Looking
<1>2. avail \in 0 .. Size - 1
  BY AvailIs
<1>3. avail <= Size - 1
  BY <1>2, Settings
<1> QED
  BY <1>1, <1>3 DEF Blank, Off

(* Where pkt_next has something to look at it is a packet.                 *)
LEMMA LooksAtPacket ==
    ASSUME RxTypes, NEW f, Inv(f), rpc \in {"cond", "walk", "next"}, AnyMore,
           ~Adrift(rpc, r.last, early), r.consumed >= Off(r.idx)
    PROVE  \E b \in f .. Len(sent) :
             /\ r.idx = sent[b].at /\ Shown(b) > 3 /\ LenAt(r.idx) = sent[b].len
             /\ StatusAt(r.idx) = IF b \in disposed THEN PKT_DISPOSED ELSE PKT_READY
             /\ After(r.idx) = Start(f, b + 1) /\ b + 1 \in f .. Len(sent) + 1
             /\ Off(After(r.idx)) = Off(r.idx) + sent[b].len + PKTHDRSIZE
             /\ sent[b].len \in 2 .. LinkBufSize /\ Off(r.idx) \in 0 .. Size - 1
<1>1. PICK b \in f .. Len(sent) + 1 : r.idx = Start(f, b)
  BY DEF Inv, Looking
<1>2. r.consumed >= Off(r.idx) /\ r.consumed \in Int
  BY DEF RxTypes, Reads
<1>3. Start(f, b) \in 0 .. Size - 1 /\ Off(Start(f, b)) \in 0 .. Size - 1
  BY StartIs, SamePlace DEF Inv, RxTypes, Off
<1>4. avail \in Int
  BY AvailIs, Settings
<1>5. avail - Off(Start(f, b)) > PKTHDRSIZE
  <2>1. avail - r.consumed > PKTHDRSIZE
    BY DEF AnyMore
  <2> QED
    BY <1>1, <1>2, <1>3, <1>4, <2>1 DEF PKTHDRSIZE
<1>6. b \in f .. Len(sent) /\ Shown(b) > 3
  BY <1>5, Reached DEF Inv
<1>7. b \in 1 .. Len(sent) /\ Len(sent) \in Nat /\ Shown(b) \in 0 .. Sz(b) /\ f \in 1 .. Len(sent)
  BY <1>6, Fits DEF Inv
<1>8. sent[b].len \in 2 .. LinkBufSize /\ Sz(b) = sent[b].len + PKTHDRSIZE
  BY <1>7, Sizes DEF Sz
<1>9. r.idx = sent[b].at
  BY <1>1, <1>7 DEF Start
<1>10. Shown(b) >= 3
  BY <1>6, <1>7, <1>8, Settings DEF PKTHDRSIZE
<1>11. /\ LenAt(sent[b].at) = sent[b].len
       /\ StatusAt(sent[b].at) = IF b \in disposed THEN PKT_DISPOSED ELSE PKT_READY
       /\ After(sent[b].at) = Start(f, b + 1)
       /\ Off(After(sent[b].at)) = Off(sent[b].at) + Sz(b)
  BY <1>6, <1>10, HeaderIs DEF Inv
<1>12. b + 1 \in f .. Len(sent) + 1
  BY <1>6, <1>7
<1>13. Off(r.idx) + sent[b].len + PKTHDRSIZE = Off(r.idx) + Sz(b)
  BY <1>1, <1>3, <1>8, Settings DEF PKTHDRSIZE
<1> QED
  BY <1>1, <1>3, <1>6, <1>8, <1>9, <1>11, <1>12, <1>13

(* A round of pkt_next's loop.                                             *)
LEMMA PassMoves ==
    ASSUME RxTypes, NEW f, Inv(f), rpc \in {"cond", "walk", "next"}, Pass,
           UNCHANGED <<ring, writer, user, disposed>>, rpc' = rpc, early => early',
           Blank /\ rpc # "walk" /\ ~Adrift(rpc, r.last, early) => early'
    PROVE  RxTypes' /\ Inv(f)'
<1> DEFINE i == After(r.idx)
           l == LenAt(r.idx)
           c == r.consumed + l + PKTHDRSIZE
           Sure == ~Adrift(rpc, r.last, early) /\ r.consumed >= Off(r.idx)
<1>1. r' = [r EXCEPT !.idx = i, !.consumed = c] /\ r \in Reads
  BY DEF Pass, RxTypes
<1>2. r.idx # NONE /\ r.idx \in 0 .. Size - 1 /\ r.consumed \in Int
  BY Settings DEF Inv, Looking, RxTypes, Reads, NONE
<1>3. l \in Nat /\ i \in 0 .. Size - 1
  BY <1>2, AfterIs
<1>4. i \in -1 .. Size - 1 /\ i # NONE /\ c \in Int
  BY ONLY <1>2, <1>3, Settings DEF NONE, PKTHDRSIZE
<1> HIDE DEF i, l, c
<1>5. /\ r' \in Reads /\ r'.idx = i /\ r'.consumed = c
      /\ r'.dispose = r.dispose /\ r'.pktlen = r.pktlen /\ r'.last = r.last
  BY <1>1, <1>4 DEF Reads
<1>6. Sure => /\ \E b \in f .. Len(sent) + 1 : i = Start(f, b)
              /\ c >= Off(i) /\ Off(i) > Off(r.idx) /\ Off(i) \in Int /\ Off(r.idx) \in Int
  <2> SUFFICES ASSUME Sure
               PROVE  /\ \E b \in f .. Len(sent) + 1 : i = Start(f, b)
                      /\ c >= Off(i) /\ Off(i) > Off(r.idx) /\ Off(i) \in Int /\ Off(r.idx) \in Int
    OBVIOUS
  <2>1. PICK b \in f .. Len(sent) :
             /\ r.idx = sent[b].at /\ LenAt(r.idx) = sent[b].len
             /\ After(r.idx) = Start(f, b + 1) /\ b + 1 \in f .. Len(sent) + 1
             /\ Off(After(r.idx)) = Off(r.idx) + sent[b].len + PKTHDRSIZE
             /\ sent[b].len \in 2 .. LinkBufSize /\ Off(r.idx) \in 0 .. Size - 1
    BY LooksAtPacket DEF Pass
  <2>2. /\ l \in 2 .. LinkBufSize /\ Off(i) = Off(r.idx) + l + PKTHDRSIZE
        /\ Off(r.idx) \in 0 .. Size - 1 /\ c = r.consumed + l + PKTHDRSIZE /\ r.consumed >= Off(r.idx)
    BY <2>1 DEF i, l, c
  <2> DEFINE o == Off(r.idx)
             u == Off(i)
             v == r.consumed
  <2>3. l \in 2 .. LinkBufSize /\ u = o + l + 3 /\ o \in 0 .. Size - 1 /\ c = v + l + 3 /\ v >= o /\ v \in Int
    BY <1>2, <2>2 DEF PKTHDRSIZE
  <2> HIDE DEF o, u, v
  <2>4. c >= u /\ u > o /\ u \in Int /\ o \in Int
    BY ONLY <2>3, Settings
  <2> QED
    BY <2>1, <2>4 DEF i, o, u
<1>7. ~Sure => Adrift(rpc', r'.last, early')
  <2>1. ~Adrift(rpc, r.last, early) /\ ~Sure => early' /\ rpc # "walk"
    BY BlankIs DEF Pass
  <2> QED
    BY <1>5, <2>1 DEF Adrift
<1>8. LooksAt(f, rpc', r', early')
  BY <1>4, <1>5, <1>6, <1>7 DEF LooksAt
<1>9. Holds(f, rpc', r', early')
  BY DEF Holds
<1>10. Uses(f, rpc', r', early')
  <2> SUFFICES ASSUME r.dispose # NONE
      PROVE  /\ rpc \in {"next", "dispose"}
             /\ \E m \in f .. Len(sent) : r.dispose = sent[m].at /\ (early' \/ Whole(m))
             /\ Sure => Off(r.dispose) < Off(i)
    BY <1>5, <1>7 DEF Uses
  <2>1. /\ rpc \in {"next", "dispose"}
        /\ \E m \in f .. Len(sent) : r.dispose = sent[m].at /\ (early \/ Whole(m))
        /\ ~Adrift(rpc, r.last, early) => Off(r.dispose) < Off(r.idx)
    BY <1>2 DEF Inv, Using
  <2>2. PICK m \in f .. Len(sent) : r.dispose = sent[m].at
    BY <2>1
  <2>3. Off(r.dispose) \in Int
    BY <2>2, Fits, Sizes, Settings DEF Inv
  <2>4. Sure => Off(r.dispose) < Off(i)
    BY <1>6, <2>1, <2>3
  <2> QED
    BY <2>1, <2>4
<1>11. ubuf' \in Seq(Nat) /\ r'.pktlen = 2 + Len(ubuf') /\ rpc' \in ReadPlaces
  BY <1>5 DEF RxTypes, user
<1>12. ring' = ring /\ writer' = writer /\ disposed' = disposed /\ (rpc' = "idle" => ubuf' = <<>>)
  OBVIOUS
<1> QED
  BY <1>5, <1>8, <1>9, <1>10, <1>11, <1>12, ReaderMoves

(* A read that is over, or waits.                                          *)
LEMMA Resting ==
    ASSUME RxTypes, NEW f, Inv(f), UNCHANGED <<ring, writer, disposed>>,
           rpc' \in {"idle", "wait", "asleep"}, r' \in Reads, r'.dispose = NONE,
           ubuf' \in Seq(Nat), r'.pktlen = 2 + Len(ubuf'), rpc' = "idle" => ubuf' = <<>>
    PROVE  RxTypes' /\ Inv(f)'
<1>1. LooksAt(f, rpc', r', early') /\ Holds(f, rpc', r', early') /\ Uses(f, rpc', r', early') /\ rpc' \in ReadPlaces
  BY DEF LooksAt, Holds, Uses, ReadPlaces
<1> QED
  BY <1>1, ReaderMoves

LEMMA ReturnMoves ==
    ASSUME RxTypes, NEW f, Inv(f), UNCHANGED <<ring, writer, disposed>>, Return
    PROVE  RxTypes' /\ Inv(f)'
<1>1. NoRead \in Reads /\ NoRead.dispose = NONE /\ NoRead.pktlen = 2
  BY Settings DEF NoRead, Reads, NONE
<1>2. <<>> \in Seq(Nat) /\ Len(<<>>) = 0
  OBVIOUS
<1>3. rpc' = "idle" /\ r' = NoRead /\ ubuf' = <<>>
  BY DEF Return
<1> QED
  BY <1>1, <1>2, <1>3, Resting

(* Outside of these two places the read has nothing to dispose of.         *)
LEMMA NothingUsed ==
    ASSUME RxTypes, NEW f, Inv(f), rpc \notin {"next", "dispose"}
    PROVE  r.dispose = NONE
BY DEF Inv, Using

LEMMA ReadCallMoves ==
    ASSUME RxTypes, NEW f, Inv(f), NEW n \in Counts, ReadCall(n)
    PROVE  RxTypes' /\ Inv(f)'
<1> DEFINE rd == [NoRead EXCEPT !.count = n]
<1>1. rd \in Reads /\ rd.dispose = NONE /\ rd.pktlen = 2
  <2>1. NoRead \in Reads /\ NoRead.dispose = NONE /\ NoRead.pktlen = 2
    BY Settings DEF NoRead, Reads, NONE
  <2>2. n \in Int
    BY ConnsAssumption
  <2> QED
    BY <2>1, <2>2 DEF Reads
<1>2. r' = PktNext(rd, pread) /\ rpc' = "cond" /\ ubuf' = ubuf /\ UNCHANGED <<ring, writer, disposed>>
      /\ rpc = "idle"
  BY DEF ReadCall, user
<1>3. /\ r' \in Reads /\ r'.idx # NONE /\ r'.consumed >= Off(r'.idx) /\ \E b \in f .. Len(sent) + 1 : r'.idx = Start(f, b)
      /\ r'.dispose = NONE /\ r'.pktlen = 2
  BY <1>1, <1>2, LooksFromFirst DEF Inv
<1>4. LooksAt(f, rpc', r', early') /\ Holds(f, rpc', r', early') /\ Uses(f, rpc', r', early') /\ rpc' \in ReadPlaces
  BY <1>2, <1>3 DEF LooksAt, Holds, Uses, ReadPlaces
<1>5. ubuf' \in Seq(Nat) /\ r'.pktlen = 2 + Len(ubuf')
  BY <1>2, <1>3 DEF RxTypes
<1> QED
  BY <1>2, <1>3, <1>4, <1>5, ReaderMoves

LEMMA WaitMoves ==
    ASSUME RxTypes, NEW f, Inv(f), Wait
    PROVE  RxTypes' /\ Inv(f)'
<1>1. r' = PktNext(r, pread) /\ rpc' = "cond" /\ ubuf' = ubuf /\ UNCHANGED <<ring, writer, disposed>>
      /\ rpc = "wait"
  BY DEF Wait, user
<1>2. r.dispose = NONE /\ r \in Reads
  BY <1>1, NothingUsed DEF RxTypes
<1>3. /\ r' \in Reads /\ r'.idx # NONE /\ r'.consumed >= Off(r'.idx) /\ \E b \in f .. Len(sent) + 1 : r'.idx = Start(f, b)
      /\ r'.dispose = NONE /\ r'.pktlen = r.pktlen
  BY <1>1, <1>2, LooksFromFirst DEF Inv
<1>4. LooksAt(f, rpc', r', early') /\ Holds(f, rpc', r', early') /\ Uses(f, rpc', r', early') /\ rpc' \in ReadPlaces
  BY <1>1, <1>3 DEF LooksAt, Holds, Uses, ReadPlaces
<1>5. ubuf' \in Seq(Nat) /\ r'.pktlen = 2 + Len(ubuf')
  BY <1>1, <1>3 DEF RxTypes
<1> QED
  BY <1>1, <1>3, <1>4, <1>5, ReaderMoves

LEMMA SignalMoves ==
    ASSUME RxTypes, NEW f, Inv(f), Signal \/ CopyFault
    PROVE  RxTypes' /\ Inv(f)'
BY ReturnMoves DEF Signal, CopyFault

LEMMA ConditionFailsMoves ==
    ASSUME RxTypes, NEW f, Inv(f), ConditionFails
    PROVE  RxTypes' /\ Inv(f)'
<1>1. UNCHANGED <<ring, writer, disposed>> /\ rpc = "cond"
  BY DEF ConditionFails
<1>2. CASE Return
  BY <1>1, <1>2, ReturnMoves
<1>3. CASE ~Return
  <2>1. r' = [r EXCEPT !.conn = NONE] /\ rpc' \in {"wait", "asleep"} /\ ubuf' = ubuf
    BY <1>3 DEF ConditionFails, user
  <2>2. r.dispose = NONE /\ r \in Reads
    BY <1>1, NothingUsed DEF RxTypes
  <2>3. r' \in Reads /\ r'.dispose = NONE /\ r'.pktlen = r.pktlen
    BY <2>1, <2>2 DEF Reads, NONE
  <2>4. ubuf' \in Seq(Nat) /\ r'.pktlen = 2 + Len(ubuf')
    BY <2>1, <2>3 DEF RxTypes
  <2> QED
    BY <1>1, <2>1, <2>3, <2>4, Resting
<1> QED
  BY <1>2, <1>3

LEMMA ConditionMoves ==
    ASSUME RxTypes, NEW f, Inv(f), Condition
    PROVE  RxTypes' /\ Inv(f)'
<1>1. /\ UNCHANGED <<ring, writer, user, disposed>> /\ rpc = "cond" /\ ubuf' = ubuf
      /\ (early => early') /\ (Blank => early')
  BY DEF Condition, user
<1>2. CASE Pass /\ rpc' = rpc
  BY <1>1, <1>2, PassMoves
<1>3. CASE ~(Pass /\ rpc' = rpc)
  <2>1. Found /\ AnyMore
    BY <1>3 DEF Condition, Found
  <2>2. r.idx \in 0 .. Size - 1
    BY <1>1, Settings DEF Inv, Looking, RxTypes, Reads, NONE
  <2>3. ByteAt(r.idx, 0) \in Int
    <3>1. 3 \in 0 .. Size /\ PKTHDRSIZE = 3 /\ r.idx + PKTHDRSIZE + 0 = r.idx + 3
      BY <2>2, Settings, SMTT(30) DEF PKTHDRSIZE
    <3>2. (r.idx + 3) % Size \in 0 .. Size - 1
      BY ONLY <2>2, <3>1, Modulo
    <3> QED
      BY <3>1, <3>2 DEF ByteAt, RxTypes
  <2> DEFINE c == IF r.conn = NONE THEN ByteAt(r.idx, 0) ELSE r.conn
             first == [r EXCEPT !.conn = NONE]
             other == [r EXCEPT !.conn = c]
  <2>4. r \in Reads /\ r.dispose = NONE
    BY <1>1, NothingUsed DEF RxTypes
  <2>5. r.conn \in Int
    BY <2>4 DEF Reads
  <2>6. first \in Reads /\ first.dispose = NONE /\ first.pktlen = r.pktlen
    BY <2>4 DEF Reads, NONE
  <2>7. other \in Reads /\ other.dispose = NONE /\ other.pktlen = r.pktlen
    BY <2>3, <2>4, <2>5 DEF Reads
  <2>8. \/ r' = PktNext(first, pread) /\ rpc' = "walk"
        \/ r' = PktNext(other, After(r.idx)) /\ rpc' = "cond"
    BY <1>1, <1>3 DEF Condition
  <2> HIDE DEF first, other
  <2>9. /\ r' \in Reads /\ r'.idx # NONE /\ r'.dispose = NONE /\ r'.pktlen = r.pktlen
        /\ LooksAt(f, rpc', r', early') /\ rpc' \in {"walk", "cond"}
    <3>1. CASE r' = PktNext(first, pread) /\ rpc' = "walk"
      BY <2>6, <3>1, LooksFromFirst DEF Inv, LooksAt
    <3>2. CASE r' = PktNext(other, After(r.idx)) /\ rpc' = "cond"
      <4>1. After(r.idx) \in 0 .. Size - 1
        BY <2>2, AfterIs
      <4>2. r' \in Reads /\ r'.idx # NONE /\ r'.dispose = NONE /\ r'.pktlen = r.pktlen
        BY <2>7, <3>2, <4>1, NextIs
      <4>3. CASE early'
        BY <3>2, <4>2, <4>3 DEF LooksAt, Adrift
      <4>4. CASE ~early'
        <5>1. CASE ~Adrift(rpc, r.last, early)
          <6>1. r.consumed >= Off(r.idx)
            BY <1>1, <2>1, <4>4, <5>1, BlankIs
          <6>2. PICK b \in f .. Len(sent) : After(r.idx) = Start(f, b + 1) /\ b + 1 \in f .. Len(sent) + 1
            BY <1>1, <2>1, <5>1, <6>1, LooksAtPacket
          <6>3. r'.idx = Start(f, b + 1) /\ (r'.consumed >= Off(r'.idx) \/ Off(r'.idx) = Size - 1)
            BY <2>7, <3>2, <6>2, LooksFrom DEF Inv
          <6> QED
            BY <3>2, <4>2, <6>2, <6>3 DEF LooksAt
        <5>2. CASE Adrift(rpc, r.last, early)
          BY <1>1, <4>4, <5>2 DEF Adrift
        <5> QED
          BY <5>1, <5>2
      <4> QED
        BY <3>2, <4>2, <4>3, <4>4
    <3> QED
      BY <2>8, <3>1, <3>2
  <2>10. Holds(f, rpc', r', early') /\ Uses(f, rpc', r', early') /\ rpc' \in ReadPlaces
    BY <2>9 DEF Holds, Uses, ReadPlaces
  <2>11. ubuf' \in Seq(Nat) /\ r'.pktlen = 2 + Len(ubuf')
    BY <1>1, <2>9 DEF RxTypes
  <2> QED
    BY <1>1, <2>9, <2>10, <2>11, ReaderMoves
<1> QED
  BY <1>2, <1>3

LEMMA WalkMoves ==
    ASSUME RxTypes, NEW f, Inv(f), Walk
    PROVE  RxTypes' /\ Inv(f)'
<1>1. UNCHANGED <<ring, writer, user, disposed>> /\ rpc \in {"walk", "next"} /\ ubuf' = ubuf
      /\ (early => early') /\ (Blank /\ ~r.last => early')
  BY DEF Walk, user
<1>2. CASE Pass /\ rpc' = rpc
  BY <1>1, <1>2, PassMoves DEF Adrift
<1>3. CASE ~(Pass /\ rpc' = rpc)
  <2>1. rpc' = (IF rpc = "walk" THEN "frag" ELSE "dispose") /\ r' = IF Found THEN r ELSE [r EXCEPT !.idx = NONE]
    BY <1>3 DEF Walk
  <2>2. r \in Reads
    BY DEF RxTypes
  <2>3. r' \in Reads /\ r'.dispose = r.dispose /\ r'.pktlen = r.pktlen /\ (r'.idx = NONE \/ (Found /\ r' = r))
    BY <2>1, <2>2, Settings DEF Reads, NONE
  <2>4. LooksAt(f, rpc', r', early') /\ rpc' \in ReadPlaces
    BY <2>1 DEF LooksAt, ReadPlaces
  <2>5. Holds(f, rpc', r', early')
    <3> SUFFICES ASSUME Found, r' = r, ~Adrift(rpc', r.last, early')
                 PROVE  \E n \in f .. Len(sent) :
                           n \notin disposed /\ r.idx = sent[n].at /\ Shown(n) >= PKTHDRSIZE
      BY <2>3 DEF Holds
    <3>4. ~Adrift(rpc, r.last, early) /\ (rpc = "next" => ~early' /\ ~r.last)
      BY <1>1, <2>1 DEF Adrift
    <3>5. r.consumed >= Off(r.idx)
      BY <1>1, <3>4, BlankIs DEF Found
    <3>1. PICK b \in f .. Len(sent) :
             /\ r.idx = sent[b].at /\ Shown(b) > 3
             /\ StatusAt(r.idx) = IF b \in disposed THEN PKT_DISPOSED ELSE PKT_READY
      BY <1>1, <3>4, <3>5, LooksAtPacket DEF Found
    <3>2. b \notin disposed
      BY <3>1 DEF Found, PKT_DISPOSED, PKT_READY
    <3>3. Shown(b) \in 0 .. Sz(b) /\ Sz(b) \in Int
      BY Fits, Sizes, Settings DEF Inv
    <3> QED
      BY <3>1, <3>2, <3>3 DEF PKTHDRSIZE
  <2>6. Uses(f, rpc', r', early')
    <3> SUFFICES ASSUME r.dispose # NONE PROVE Uses(f, rpc', r', early')
      BY <2>3 DEF Uses
    <3>1. /\ rpc = "next"
          /\ r.idx # NONE /\ ~Adrift(rpc, r.last, early) => Off(r.dispose) < Off(r.idx)
          /\ \E m \in f .. Len(sent) : r.dispose = sent[m].at /\ (early \/ Whole(m))
      BY <1>1 DEF Inv, Using
    <3>2. rpc' = "dispose" /\ (r'.idx # NONE => r' = r)
      BY <2>1, <2>3, <3>1
    <3>3. r'.idx # NONE /\ ~Adrift(rpc', r'.last, early') => Off(r'.dispose) < Off(r'.idx)
      BY <1>1, <3>1, <3>2 DEF Adrift
    <3> QED
      BY <1>1, <2>3, <3>1, <3>2, <3>3 DEF Uses
  <2>7. ubuf' \in Seq(Nat) /\ r'.pktlen = 2 + Len(ubuf')
    BY <1>1, <2>3 DEF RxTypes
  <2> QED
    BY <1>1, <2>1, <2>3, <2>4, <2>5, <2>6, <2>7, ReaderMoves
<1> QED
  BY <1>2, <1>3

LEMMA LoopMoves ==
    ASSUME RxTypes, NEW f, Inv(f), Loop
    PROVE  RxTypes' /\ Inv(f)'
<1>1. UNCHANGED <<ring, writer, disposed>> /\ rpc = "loop" /\ early' = early
  BY DEF Loop
<1>2. CASE Return
  BY <1>1, <1>2, ReturnMoves
<1>3. CASE ~Return
  <2>1. rpc' = "frag" /\ r' = r /\ ubuf' = ubuf /\ ~r.last
    BY <1>3 DEF Loop, user
  <2>2. r.dispose = NONE
    BY <1>1, NothingUsed
  <2>3. LooksAt(f, rpc', r', early') /\ Uses(f, rpc', r', early') /\ rpc' \in ReadPlaces
    BY <2>1, <2>2 DEF LooksAt, Uses, ReadPlaces
  <2>4. Holds(f, rpc', r', early')
    BY <1>1, <2>1 DEF Holds, Inv, Holding, Adrift
  <2>5. r' \in Reads /\ ubuf' \in Seq(Nat) /\ r'.pktlen = 2 + Len(ubuf')
    BY <2>1 DEF RxTypes
  <2> QED
    BY <1>1, <2>1, <2>3, <2>4, <2>5, ReaderMoves
<1> QED
  BY <1>2, <1>3

---------------------------------------------------------------------------
(* The packet a read uses and the one it disposes of.                      *)

LEMMA ByteIsNat ==
    ASSUME RxTypes, NEW i \in 0 .. Size - 1, NEW k \in 0 .. LinkBufSize - 1
    PROVE  ByteAt(i, k) \in Nat
<1>1. PKTHDRSIZE + k \in 0 .. Size /\ i + PKTHDRSIZE + k = i + (PKTHDRSIZE + k)
  BY Settings DEF PKTHDRSIZE
<1>2. (i + (PKTHDRSIZE + k)) % Size \in 0 .. Size - 1
  BY ONLY <1>1, i \in 0 .. Size - 1, Modulo
<1> QED
  BY <1>1, <1>2 DEF ByteAt, RxTypes

LEMMA UseFragmentMoves ==
    ASSUME RxTypes, NEW f, Inv(f), rpc = "frag", r.idx # NONE, UseFragment,
           UNCHANGED <<ring, writer, disposed>>
    PROVE  RxTypes' /\ Inv(f)'
<1>1. PICK n \in f .. Len(sent) : n \notin disposed /\ r.idx = sent[n].at /\ Shown(n) >= 3
  BY DEF Inv, Holding, Adrift, PKTHDRSIZE
<1>2. /\ n \in 1 .. Len(sent) /\ Len(sent) \in Nat /\ n + 1 \in f .. Len(sent) + 1
      /\ sent[n].len \in 2 .. LinkBufSize /\ r.idx \in 0 .. Size - 1
      /\ Sz(n) \in 5 .. LinkBufSize + 3 /\ Off(r.idx) \in 0 .. Size - 1
  <2>1. n \in 1 .. Len(sent) /\ Len(sent) \in Nat /\ f \in 1 .. Len(sent)
    BY Fits DEF Inv
  <2> QED
    BY <1>1, <2>1, Sizes
<1>3. /\ LenAt(r.idx) = sent[n].len /\ After(r.idx) = Start(f, n + 1)
      /\ Off(After(r.idx)) = Off(r.idx) + Sz(n)
  BY <1>1, HeaderIs DEF Inv
<1> DEFINE l == LenAt(r.idx)
           rd == IF SameConnection
                   THEN [r EXCEPT !.pktlen = @ + Fit, !.dispose = r.idx,
                                  !.last = @ \/ ByteAt(r.idx, 1) < MORE]
                   ELSE r
           rc == [rd EXCEPT !.conn = IF @ = NONE THEN ByteAt(r.idx, 0) ELSE @]
           part == [k \in 1 .. Fit |-> ByteAt(r.idx, 1 + k)]
<1>4. /\ r' = PktNext(rc, Start(f, n + 1)) /\ rpc' = "next"
      /\ early' = (early \/ Short(r.idx, l))
      /\ ubuf' = IF SameConnection THEN ubuf \o part ELSE ubuf
  BY <1>3 DEF UseFragment, user
<1>5. l \in 2 .. LinkBufSize
  BY <1>2, <1>3
<1> HIDE DEF l
<1>6. r \in Reads /\ r.dispose = NONE
  BY NothingUsed DEF RxTypes
<1>7. Fit \in 0 .. l - 2
  <2>1. r.pktlen \in Int /\ r.count \in Int
    BY <1>6 DEF Reads
  <2> QED
    BY <1>5, <2>1, Settings DEF Fit, l
<1>8. ByteAt(r.idx, 0) \in Nat /\ ByteAt(r.idx, 1) \in Nat
  <2>1. 0 \in 0 .. LinkBufSize - 1 /\ 1 \in 0 .. LinkBufSize - 1
    BY Settings
  <2> QED
    BY <1>2, <2>1, ByteIsNat
<1>9. /\ rc \in Reads
      /\ rc.dispose = IF SameConnection THEN r.idx ELSE NONE
      /\ rc.pktlen = IF SameConnection THEN r.pktlen + Fit ELSE r.pktlen
  <2>1. /\ rd \in Reads
        /\ rd.dispose = IF SameConnection THEN r.idx ELSE NONE
        /\ rd.pktlen = IF SameConnection THEN r.pktlen + Fit ELSE r.pktlen
    <3>1. r.pktlen + Fit \in Int /\ r.idx \in -1 .. Size - 1
      BY <1>2, <1>5, <1>6, <1>7, Settings, SMTT(30) DEF Reads
    <3>2. (r.last \/ ByteAt(r.idx, 1) < MORE) \in BOOLEAN
      BY <1>6, ZenonT(20) DEF Reads
    <3> DEFINE p == r.pktlen + Fit
               q == r.last \/ ByteAt(r.idx, 1) < MORE
    <3>3. rd = IF SameConnection THEN [r EXCEPT !.pktlen = p, !.dispose = r.idx, !.last = q] ELSE r
      OBVIOUS
    <3>4. p \in Int /\ q \in BOOLEAN
      BY <3>1, <3>2
    <3> HIDE DEF p, q
    <3>5. p = r.pktlen + Fit
      BY DEF p
    <3> QED
      BY <1>6, <3>1, <3>3, <3>4, <3>5 DEF Reads
  <2> HIDE DEF rd
  <2> DEFINE c == IF rd.conn = NONE THEN ByteAt(r.idx, 0) ELSE rd.conn
  <2>2. c \in Int /\ rc = [rd EXCEPT !.conn = c]
    BY <1>8, <2>1 DEF Reads
  <2> HIDE DEF c
  <2> QED
    BY <2>1, <2>2 DEF Reads
<1> HIDE DEF rc
<1>10. /\ r' \in Reads /\ r'.idx = Start(f, n + 1) /\ r'.idx # NONE
       /\ r'.consumed >= Off(r'.idx) \/ Off(r'.idx) = Size - 1
       /\ r'.dispose = rc.dispose /\ r'.pktlen = rc.pktlen
  BY <1>2, <1>4, <1>9, LooksFrom DEF Inv
<1>11. part \in Seq(Nat) /\ Len(part) = Fit
  <2>1. \A k \in 1 .. Fit : ByteAt(r.idx, 1 + k) \in Nat
    <3> SUFFICES ASSUME NEW k \in 1 .. Fit PROVE ByteAt(r.idx, 1 + k) \in Nat
      OBVIOUS
    <3>1. 1 + k \in 0 .. LinkBufSize - 1
      BY <1>5, <1>7, Settings
    <3> QED
      BY <1>2, <3>1, ByteIsNat
  <2>2. Fit \in Nat
    BY <1>5, <1>7, Settings
  <2> QED
    BY <2>1, <2>2
<1> HIDE DEF part
<1>12. ubuf' \in Seq(Nat) /\ r'.pktlen = 2 + Len(ubuf')
  <2>1. ubuf \in Seq(Nat) /\ r.pktlen = 2 + Len(ubuf)
    BY DEF RxTypes
  <2>2. ubuf \o part \in Seq(Nat) /\ Len(ubuf \o part) = Len(ubuf) + Len(part)
    BY <1>11, <2>1, ConcatProperties
  <2>3. Fit \in Int /\ Len(ubuf) \in Int
    BY <1>5, <1>7, <2>1, Settings
  <2>4. CASE SameConnection
    <3>1. ubuf' = ubuf \o part /\ r'.pktlen = r.pktlen + Fit
      BY <1>4, <1>9, <1>10, <2>4
    <3>2. r'.pktlen = 2 + (Len(ubuf) + Fit)
      BY <2>1, <2>3, <3>1
    <3> QED
      BY <1>11, <2>2, <3>1, <3>2, Zenon
  <2>5. CASE ~SameConnection
    <3>1. ubuf' = ubuf /\ r'.pktlen = r.pktlen
      BY <1>4, <1>9, <1>10, <2>5
    <3> QED
      BY <2>1, <3>1
  <2> QED
    BY <2>4, <2>5
<1>13. LooksAt(f, rpc', r', early') /\ Holds(f, rpc', r', early') /\ rpc' \in ReadPlaces
  BY <1>2, <1>4, <1>10 DEF LooksAt, Holds, ReadPlaces
<1>14. Uses(f, rpc', r', early')
  <2> SUFFICES ASSUME r'.dispose # NONE PROVE Uses(f, rpc', r', early')
    BY DEF Uses
  <2>1. r'.dispose = r.idx /\ r'.dispose = sent[n].at
    BY <1>1, <1>9, <1>10
  <2>2. early' \/ Whole(n)
    <3> SUFFICES ASSUME ~Whole(n) PROVE Short(r.idx, l)
      BY <1>4
    <3>1. n = Len(sent) /\ wpc \in {"header", "copy"} /\ Packet.at = r.idx
      BY <1>1, <1>2 DEF Whole, RxTypes, Packet
    <3>2. wk < Sz(n)
      BY <1>2, <3>1, Settings DEF Inv, Line
    <3>3. Sz(n) = l + 3
      BY <1>3 DEF Sz, PKTHDRSIZE, l
    <3>4. wk < PKTHDRSIZE + l /\ wk \in Nat
      BY <1>5, <3>2, <3>3, Settings DEF PKTHDRSIZE, RxTypes
    <3> QED
      BY <3>1, <3>4 DEF Short
  <2>3. Off(r.idx) < Off(r'.idx)
    BY <1>2, <1>3, <1>10, Settings
  <2> QED
    BY <1>4, <2>1, <2>2, <2>3 DEF Uses
<1> QED
  BY <1>4, <1>10, <1>12, <1>13, <1>14, ReaderMoves

LEMMA FragmentMoves ==
    ASSUME RxTypes, NEW f, Inv(f), Fragment
    PROVE  RxTypes' /\ Inv(f)'
BY ReturnMoves, UseFragmentMoves DEF Fragment

(* Two bytes of packets in the ring never lie at one place.                *)
LEMMA Apart ==
    ASSUME RxTypes, NEW f, Line(f), NEW n \in f .. Len(sent), NEW m \in f .. Len(sent),
           NEW k \in 0 .. Sz(n) - 1, NEW j \in 0 .. Sz(m) - 1
    PROVE  /\ (sent[n].at + k) % Size \in 0 .. Size - 1
           /\ Off((sent[n].at + k) % Size) = Off(sent[n].at) + k
           /\ (sent[n].at + k) % Size = (sent[m].at + j) % Size => n = m /\ k = j
<1>1. ASSUME NEW x \in f .. Len(sent), NEW b \in 0 .. Sz(x) - 1
      PROVE  /\ (sent[x].at + b) % Size \in 0 .. Size - 1
             /\ Off((sent[x].at + b) % Size) = Off(sent[x].at) + b
             /\ Off(sent[x].at) \in 0 .. Size - 1 /\ Sz(x) \in 5 .. LinkBufSize + 3
  <2>1. x \in 1 .. Len(sent) /\ Off(sent[x].at) + Sz(x) < Size
    BY Fits
  <2>2. /\ sent[x].at \in 0 .. Size - 1 /\ Sz(x) \in 5 .. LinkBufSize + 3
        /\ Off(sent[x].at) \in 0 .. Size - 1
    BY <2>1, Sizes
  <2> DEFINE o == Off(sent[x].at)
             z == Sz(x)
  <2> HIDE DEF o, z
  <2>5. o \in 0 .. Size - 1 /\ z \in 5 .. LinkBufSize + 3 /\ o + z < Size /\ b \in 0 .. z - 1
    BY <2>1, <2>2 DEF o, z
  <2>6. b \in Nat /\ o + b < Size
    BY ONLY <2>5, Settings
  <2>3. b \in Nat /\ From(pread, sent[x].at) + b < Size /\ pread \in 0 .. Size - 1
    BY <2>6 DEF Off, RxTypes, o
  <2>4. /\ (sent[x].at + b) % Size \in 0 .. Size - 1
        /\ From(pread, (sent[x].at + b) % Size) = From(pread, sent[x].at) + b
    BY ONLY <2>2, <2>3, Farther
  <2> QED
    BY <2>2, <2>4 DEF Off
<1>2. Len(sent) \in Nat /\ f \in 1 .. Len(sent)
  BY Fits
<1>3. (sent[n].at + k) % Size = (sent[m].at + j) % Size =>
         Off(sent[n].at) + k = Off(sent[m].at) + j
  BY <1>1
<1>4. /\ n < m => Off(sent[n].at) + Sz(n) <= Off(sent[m].at)
      /\ m < n => Off(sent[m].at) + Sz(m) <= Off(sent[n].at)
  BY DEF Line
<1> DEFINE a == Off(sent[n].at)
           b == Off(sent[m].at)
           x == Sz(n)
           y == Sz(m)
<1>5. /\ a \in 0 .. Size - 1 /\ b \in 0 .. Size - 1 /\ x \in 5 .. LinkBufSize + 3 /\ y \in 5 .. LinkBufSize + 3
      /\ k \in 0 .. x - 1 /\ j \in 0 .. y - 1 /\ (n < m => a + x <= b) /\ (m < n => b + y <= a)
      /\ (n = m => a = b)
  BY <1>1, <1>4
<1> HIDE DEF a, b, x, y
<1>6. a + k = b + j => n = m /\ k = j
  <2> SUFFICES ASSUME a + k = b + j PROVE n = m /\ k = j
    OBVIOUS
  <2>1. n = m
    BY ONLY <1>2, <1>5, a + k = b + j, Settings, n \in f .. Len(sent), m \in f .. Len(sent)
  <2> QED
    BY ONLY <1>5, <2>1, a + k = b + j, Settings
<1> QED
  BY <1>1, <1>3, <1>6 DEF a, b

LEMMA DisposeMoves ==
    ASSUME RxTypes, NEW f, Inv(f), Dispose
    PROVE  RxTypes' /\ Inv(f)'
<1>1. /\ rpc = "dispose" /\ ~early /\ early' = early /\ r' = [r EXCEPT !.dispose = NONE]
      /\ pread' = pread /\ pwrite' = pwrite /\ sent' = sent /\ wpc' = wpc /\ wk' = wk /\ ubuf' = ubuf
      /\ UNCHANGED writer
  BY DEF Dispose, writer, user
<1>2. /\ r' \in Reads /\ r'.idx = r.idx /\ r'.dispose = NONE /\ r'.pktlen = r.pktlen
      /\ r'.last = r.last
      /\ ubuf' \in Seq(Nat) /\ r'.pktlen = 2 + Len(ubuf')
  <2>1. r \in Reads /\ ubuf \in Seq(Nat) /\ r.pktlen = 2 + Len(ubuf)
    BY DEF RxTypes
  <2>2. NONE \in -1 .. Size - 1
    BY Settings DEF NONE
  <2>3. r' \in Reads /\ r'.idx = r.idx /\ r'.dispose = NONE /\ r'.pktlen = r.pktlen
      /\ r'.last = r.last
    BY <1>1, <2>1, <2>2 DEF Reads
  <2> QED
    BY <1>1, <2>1, <2>3
<1>3. CASE r.dispose = NONE
  <2>1. rpc' = "loop" /\ UNCHANGED <<ring, disposed>>
    BY <1>1, <1>3 DEF Dispose, ring
  <2>2. LooksAt(f, rpc', r', early') /\ Uses(f, rpc', r', early') /\ rpc' \in ReadPlaces
    BY <1>2, <2>1 DEF LooksAt, Uses, ReadPlaces
  <2>3. Holds(f, rpc', r', early')
    BY <1>1, <1>2, <2>1 DEF Holds, Inv, Holding, Adrift
  <2> QED
    BY <1>1, <1>2, <2>1, <2>2, <2>3, ReaderMoves
<1>4. CASE r.dispose # NONE
  <2>1. PICK m \in f .. Len(sent) : r.dispose = sent[m].at /\ Whole(m)
    BY <1>1, <1>4 DEF Inv, Using
  <2>2. r.idx # NONE /\ ~r.last => Off(r.dispose) < Off(r.idx)
    BY <1>1, <1>4 DEF Inv, Using, Adrift
  <2>3. PacketAt(r.dispose) = m
    BY <2>1, PacketAtIs DEF Inv
  <2> DEFINE d == (sent[m].at + 2) % Size
  <2>4. /\ data' = [data EXCEPT ![d] = PKT_DISPOSED]
        /\ disposed' = disposed \cup {m} /\ rpc' = "clean"
    BY <1>4, <2>1, <2>3 DEF Dispose
  <2>5. m \in 1 .. Len(sent) /\ Len(sent) \in Nat /\ Sz(m) \in 5 .. LinkBufSize + 3 /\ 2 \in 0 .. Sz(m) - 1
        /\ Off(sent[m].at) \in 0 .. Size - 1
    <3>1. m \in 1 .. Len(sent) /\ Len(sent) \in Nat
      BY Fits DEF Inv
    <3>2. Sz(m) \in 5 .. LinkBufSize + 3 /\ Off(sent[m].at) \in 0 .. Size - 1
      BY <3>1, Sizes
    <3> QED
      BY <3>1, <3>2, Settings
  <2>6. d \in 0 .. Size - 1
    BY <2>5, Apart DEF Inv
  <2>7. RxTypes'
    <3>1. data' \in [0 .. Size - 1 -> Nat]
      BY <2>4, <2>6 DEF RxTypes, PKT_DISPOSED
    <3>2. disposed' \subseteq 1 .. Len(sent)
      BY <2>4, <2>5 DEF RxTypes
    <3> QED
      BY <1>1, <1>2, <2>4, <3>1, <3>2 DEF RxTypes, ReadPlaces
  <2>8. Line(f)'
    BY <1>1 DEF Inv, Line, Off, Shown, Whole, Sz
  <2>9. Contents(f)'
    <3>1. \A n \in f .. Len(sent) : Shown(n)' = Shown(n)
      BY <1>1 DEF Shown, Whole, Sz
    <3> SUFFICES ASSUME NEW n \in f .. Len(sent), NEW k \in 0 .. Shown(n) - 1
                 PROVE  data'[(sent[n].at + k) % Size] = PacketOf(n, k)'
      BY <1>1, <3>1 DEF Contents
    <3>2. Shown(n) \in 0 .. Sz(n) /\ n \in 1 .. Len(sent)
      BY Fits DEF Inv
    <3>3. Sz(n) \in 5 .. LinkBufSize + 3
      BY <3>2, Sizes
    <3>4. k \in 0 .. Sz(n) - 1
      BY <3>2, <3>3, Settings
    <3> DEFINE i == (sent[n].at + k) % Size
    <3>5. i \in 0 .. Size - 1 /\ (i = d => n = m /\ k = 2)
      BY <2>5, <3>4, Apart DEF Inv
    <3>6. data[i] = PacketOf(n, k)
      BY DEF Inv, Contents
    <3>7. CASE n = m /\ k = 2
      <4>1. data'[d] = PKT_DISPOSED
        BY <2>4, <2>6 DEF RxTypes
      <4>2. PacketOf(n, k)' = PKT_DISPOSED
        BY <2>4, <3>7 DEF PacketOf
      <4> QED
        BY <3>7, <4>1, <4>2
    <3>8. CASE ~(n = m /\ k = 2)
      <4>1. data'[i] = data[i]
        <5> HIDE DEF i, d
        <5> QED
          BY <2>4, <2>6, <3>5, <3>8 DEF RxTypes
      <4>2. PacketOf(n, k)' = PacketOf(n, k)
        BY <1>1, <2>4, <3>8 DEF PacketOf
      <4> QED
        BY <3>6, <4>1, <4>2
    <3> QED
      BY <3>7, <3>8
  <2>10. Gone(f)'
    BY <1>1, <2>1, <2>4 DEF Inv, Gone, Whole
  <2>11. Looking(f)' /\ Using(f)'
    BY <1>2, <2>4 DEF Looking, Using
  <2>12. Holding(f)'
    <3> SUFFICES ASSUME r.idx # NONE, ~r.last
                 PROVE  \E n \in f .. Len(sent) : n \notin disposed' /\ r.idx = sent[n].at /\ Shown(n)' >= PKTHDRSIZE
      BY <1>1, <1>2, <2>4 DEF Holding, Adrift
    <3>1. PICK n \in f .. Len(sent) : n \notin disposed /\ r.idx = sent[n].at /\ Shown(n) >= PKTHDRSIZE
      BY <1>1 DEF Inv, Holding, Adrift
    <3>2. n # m
      BY <2>1, <2>2, <2>5, <3>1
    <3>3. Shown(n)' = Shown(n)
      BY <1>1 DEF Shown, Whole, Sz
    <3> QED
      BY <2>4, <3>1, <3>2, <3>3
  <2> QED
    BY <2>7, <2>8, <2>9, <2>10, <2>11, <2>12 DEF Inv
<1> QED
  BY <1>3, <1>4

(* Seen from a place further on everything behind it is nearer.            *)
LEMMA Nearer ==
    ASSUME NEW p \in 0 .. Size - 1, NEW q \in 0 .. Size - 1, NEW i \in 0 .. Size - 1,
           From(p, i) >= From(p, q)
    PROVE  From(q, i) = From(p, i) - From(p, q)
BY Settings DEF From

(* The first packet's space is given back.                                 *)
LEMMA CleanMoves ==
    ASSUME RxTypes, NEW f, Inv(f), Clean
    PROVE  RxTypes' /\ IF CanClean THEN Inv(f + 1)' ELSE Inv(f)'
<1>1. /\ rpc = "clean" /\ early' = early /\ r' = r /\ ubuf' = ubuf /\ disposed' = disposed
      /\ data' = data /\ pwrite' = pwrite /\ sent' = sent /\ wpc' = wpc /\ wk' = wk /\ UNCHANGED writer
  BY DEF Clean, writer, user
<1>2. r.dispose = NONE
  BY <1>1, NothingUsed
<1>3. f \in 1 .. Len(sent) + 1 /\ Len(sent) \in Nat /\ pread \in 0 .. Size - 1 /\ pwrite \in 0 .. Size - 1
  BY DEF Inv, Line, RxTypes
<1>4. CASE ~CanClean
  <2>1. rpc' = "loop" /\ UNCHANGED <<ring, writer, disposed>>
    BY <1>1, <1>4 DEF Clean, ring
  <2>2. LooksAt(f, rpc', r', early') /\ Uses(f, rpc', r', early') /\ rpc' \in ReadPlaces
    BY <1>1, <1>2, <2>1 DEF LooksAt, Uses, ReadPlaces
  <2>3. Holds(f, rpc', r', early')
    BY <1>1, <2>1 DEF Holds, Inv, Holding, Adrift
  <2>4. r' \in Reads /\ ubuf' \in Seq(Nat) /\ r'.pktlen = 2 + Len(ubuf')
    BY <1>1 DEF RxTypes
  <2>5. RxTypes' /\ Inv(f)'
    BY <2>1, <2>2, <2>3, <2>4, ReaderMoves
  <2> QED
    BY <1>4, <2>5
<1>5. CASE CanClean
  <2>1. pread' = After(pread) /\ rpc' = rpc /\ avail > PKTHDRSIZE /\ StatusAt(pread) = PKT_DISPOSED
    BY <1>5 DEF Clean, CanClean
  <2>2. f \in f .. Len(sent) + 1 /\ Start(f, f) = pread /\ Off(pread) = 0
    BY <1>3, SamePlace DEF Start, Inv, Line, Off
  <2>3. avail - Off(Start(f, f)) > PKTHDRSIZE
    BY <2>1, <2>2, AvailIs, Settings
  <2>4. f \in f .. Len(sent) /\ Shown(f) > 3
    BY <2>2, <2>3, Reached DEF Inv
  <2>5. /\ f \in 1 .. Len(sent) /\ Shown(f) \in 0 .. Sz(f) /\ Sz(f) \in 5 .. LinkBufSize + 3
        /\ Off(sent[f].at) + Shown(f) <= Off(pwrite) /\ sent[f].at = pread
    <3>1. f \in 1 .. Len(sent) /\ Shown(f) \in 0 .. Sz(f) /\ Off(sent[f].at) + Shown(f) <= Off(pwrite)
      BY <2>4, Fits DEF Inv
    <3>2. Sz(f) \in 5 .. LinkBufSize + 3
      BY <3>1, Sizes
    <3>3. sent[f].at = pread
      BY <3>1 DEF Inv, Line
    <3> QED
      BY <3>1, <3>2, <3>3
  <2>6. Shown(f) >= 3
    BY <2>4, <2>5, Settings
  <2>7. /\ f \in disposed /\ pread' = Start(f, f + 1) /\ Off(pread') = Sz(f)
    <3>1. /\ StatusAt(sent[f].at) = IF f \in disposed THEN PKT_DISPOSED ELSE PKT_READY
          /\ After(sent[f].at) = Start(f, f + 1)
          /\ Off(After(sent[f].at)) = Off(sent[f].at) + Sz(f)
      BY <2>4, <2>6, HeaderIs DEF Inv
    <3>2. 0 + Sz(f) = Sz(f)
      BY <2>5, Settings
    <3> QED
      BY <2>1, <2>2, <2>5, <3>1, <3>2 DEF PKT_DISPOSED, PKT_READY
  <2>8. Whole(f) /\ Shown(f) = Sz(f)
    BY <2>7 DEF Inv, Gone, Shown
  <2> DEFINE g == f + 1
  <2>9. g \in f .. Len(sent) + 1 /\ g \in 1 .. Len(sent) + 1
    BY <1>3, <2>4
  <2>10. pread' \in 0 .. Size - 1
    BY <2>7, <2>9, StartIs DEF Inv
  <2>11. \A i \in 0 .. Size - 1 : Off(i) >= Sz(f) => From(pread', i) = Off(i) - Sz(f)
    <3> SUFFICES ASSUME NEW i \in 0 .. Size - 1, Off(i) >= Sz(f)
                 PROVE  From(pread', i) = Off(i) - Sz(f)
      OBVIOUS
    <3>1. From(pread, pread') = Sz(f) /\ From(pread, i) >= From(pread, pread')
      BY <2>7 DEF Off
    <3>2. From(pread', i) = From(pread, i) - From(pread, pread')
      BY ONLY <1>3, <2>10, <3>1, i \in 0 .. Size - 1, Nearer
    <3> QED
      BY <3>1, <3>2 DEF Off
  <2>12. \A n \in g .. Len(sent) : /\ n \in f .. Len(sent) /\ n \in 1 .. Len(sent)
                                   /\ sent[n].at \in 0 .. Size - 1 /\ Off(sent[n].at) \in 0 .. Size - 1
                                   /\ Off(sent[n].at) >= Sz(f)
                                   /\ From(pread', sent[n].at) = Off(sent[n].at) - Sz(f)
    <3> SUFFICES ASSUME NEW n \in g .. Len(sent)
                 PROVE /\ n \in f .. Len(sent) /\ n \in 1 .. Len(sent)
                       /\ sent[n].at \in 0 .. Size - 1 /\ Off(sent[n].at) \in 0 .. Size - 1
                       /\ Off(sent[n].at) >= Sz(f)
                       /\ From(pread', sent[n].at) = Off(sent[n].at) - Sz(f)
      OBVIOUS
    <3>1. n \in f .. Len(sent) /\ n \in 1 .. Len(sent) /\ f < n
      BY <1>3
    <3>2. sent[n].at \in 0 .. Size - 1 /\ Off(sent[n].at) \in 0 .. Size - 1
      BY <3>1, Sizes
    <3>3. Off(sent[f].at) + Sz(f) <= Off(sent[n].at)
      BY <2>4, <3>1 DEF Inv, Line
    <3>4. Off(sent[n].at) >= Sz(f)
      BY <2>2, <2>5, <3>2, <3>3, Settings
    <3> QED
      BY <2>11, <3>1, <3>2, <3>4
  <2>13. \A n : Sz(n)' = Sz(n) /\ Shown(n)' = Shown(n) /\ (Whole(n)' <=> Whole(n))
    BY <1>1 DEF Sz, Shown, Whole
  <2>14. From(pread', pwrite) = Off(pwrite) - Sz(f) /\ Off(pwrite) \in 0 .. Size - 1 /\ Off(pwrite) >= Sz(f)
    <3>1. Off(pwrite) \in 0 .. Size - 1
      BY AvailIs
    <3>2. Off(pwrite) >= Sz(f)
      BY <2>2, <2>5, <2>8, <3>1, Settings
    <3> QED
      BY <1>3, <2>11, <3>1, <3>2
  <2>15. RxTypes'
    BY <1>1, <2>1, <2>10 DEF RxTypes
  <2>16. Line(g)'
    <3>1. g <= Len(sent) =>
            /\ sent[g].at = pread'
            /\ From(pread', pwrite) = From(pread', sent[Len(sent)].at) + Shown(Len(sent))
            /\ From(pread', sent[Len(sent)].at) + Sz(Len(sent)) < Size
      <4> SUFFICES ASSUME g <= Len(sent)
                   PROVE  /\ sent[g].at = pread'
                          /\ From(pread', pwrite) = From(pread', sent[Len(sent)].at) + Shown(Len(sent))
                          /\ From(pread', sent[Len(sent)].at) + Sz(Len(sent)) < Size
        OBVIOUS
      <4>1. sent[g].at = pread'
        BY <2>7 DEF Start
      <4>2. Len(sent) \in g .. Len(sent) /\ Len(sent) \in f .. Len(sent) /\ Len(sent) \in 1 .. Len(sent)
        BY <1>3, <2>9
      <4>3. /\ Off(pwrite) = Off(sent[Len(sent)].at) + Shown(Len(sent))
            /\ Off(sent[Len(sent)].at) + Sz(Len(sent)) < Size
            /\ Shown(Len(sent)) \in 0 .. Sz(Len(sent)) /\ Sz(Len(sent)) \in 5 .. LinkBufSize + 3
        <5>1. /\ Shown(Len(sent)) \in 0 .. Sz(Len(sent)) /\ Sz(Len(sent)) \in 5 .. LinkBufSize + 3
              /\ Off(sent[Len(sent)].at) + Sz(Len(sent)) < Size
          BY <4>2, Fits, Sizes DEF Inv
        <5>2. Off(pwrite) = Off(sent[Len(sent)].at) + Shown(Len(sent))
          BY <1>3, <2>5 DEF Inv, Line
        <5> QED
          BY <5>1, <5>2
      <4>4. /\ Off(sent[Len(sent)].at) \in 0 .. Size - 1
            /\ From(pread', sent[Len(sent)].at) = Off(sent[Len(sent)].at) - Sz(f)
        BY <2>12, <4>2
      <4> DEFINE a == Off(sent[Len(sent)].at)
                 x == Sz(Len(sent))
                 u == Shown(Len(sent))
                 w == Off(pwrite)
                 z == Sz(f)
      <4>5. /\ a \in 0 .. Size - 1 /\ x \in 5 .. LinkBufSize + 3 /\ u \in 0 .. x /\ w \in 0 .. Size - 1
            /\ z \in 5 .. LinkBufSize + 3 /\ w = a + u /\ a + x < Size
        BY <2>5, <2>14, <4>3, <4>4
      <4> HIDE DEF a, x, u, w, z
      <4>6. w - z = a - z + u /\ a - z + x < Size
        BY ONLY <4>5, Settings
      <4> QED
        BY <2>14, <4>1, <4>4, <4>6 DEF a, x, u, w, z
    <3>2. g > Len(sent) => pwrite = pread' /\ wpc \in {"wake", "idle"}
      <4> SUFFICES ASSUME g > Len(sent) PROVE pwrite = pread' /\ wpc \in {"wake", "idle"}
        OBVIOUS
      <4>1. f = Len(sent)
        BY <1>3, <2>5
      <4>2. wpc \in {"wake", "idle"}
        BY <1>3, <2>8, <4>1 DEF Whole
      <4>3. Off(pwrite) = Off(sent[f].at) + Shown(f)
        BY <2>4, <4>1 DEF Inv, Line
      <4>4. Off(pwrite) = Off(pread')
        BY <2>2, <2>5, <2>7, <2>8, <4>3, Settings
      <4>5. pwrite = pread'
        BY <1>3, <2>10, <4>4, SamePlace DEF Off
      <4> QED
        BY <4>2, <4>5
    <3>3. \A n \in g .. Len(sent) - 1 : From(pread', sent[n + 1].at) = From(pread', sent[n].at) + Sz(n)
      <4> SUFFICES ASSUME NEW n \in g .. Len(sent) - 1
                   PROVE  From(pread', sent[n + 1].at) = From(pread', sent[n].at) + Sz(n)
        OBVIOUS
      <4>1. n \in g .. Len(sent) /\ n + 1 \in g .. Len(sent) /\ n \in f .. Len(sent) - 1 /\ n \in 1 .. Len(sent)
        BY <1>3
      <4>2. Off(sent[n + 1].at) = Off(sent[n].at) + Sz(n) /\ Sz(n) \in 5 .. LinkBufSize + 3
        BY <4>1, Sizes DEF Inv, Line
      <4>3. /\ From(pread', sent[n].at) = Off(sent[n].at) - Sz(f) /\ Off(sent[n].at) \in 0 .. Size - 1
            /\ From(pread', sent[n + 1].at) = Off(sent[n + 1].at) - Sz(f)
        BY <2>12, <4>1
      <4> DEFINE a == Off(sent[n].at)
                 b == Off(sent[n + 1].at)
                 x == Sz(n)
                 z == Sz(f)
      <4>4. a \in 0 .. Size - 1 /\ x \in 5 .. LinkBufSize + 3 /\ z \in 5 .. LinkBufSize + 3 /\ b = a + x
        BY <2>5, <4>2, <4>3
      <4> HIDE DEF a, b, x, z
      <4>5. b - z = a - z + x
        BY ONLY <4>4, Settings
      <4> QED
        BY <4>3, <4>5 DEF a, b, x, z
    <3>4. \A n, m \in g .. Len(sent) : n < m => From(pread', sent[n].at) + Sz(n) <= From(pread', sent[m].at)
      <4> SUFFICES ASSUME NEW n \in g .. Len(sent), NEW m \in g .. Len(sent), n < m
                   PROVE  From(pread', sent[n].at) + Sz(n) <= From(pread', sent[m].at)
        OBVIOUS
      <4>1. n \in f .. Len(sent) /\ m \in f .. Len(sent) /\ n \in 1 .. Len(sent)
        BY <2>12
      <4>2. Off(sent[n].at) + Sz(n) <= Off(sent[m].at) /\ Sz(n) \in 5 .. LinkBufSize + 3
        BY <4>1, Sizes DEF Inv, Line
      <4>3. /\ From(pread', sent[n].at) = Off(sent[n].at) - Sz(f) /\ Off(sent[n].at) \in 0 .. Size - 1
            /\ From(pread', sent[m].at) = Off(sent[m].at) - Sz(f) /\ Off(sent[m].at) \in 0 .. Size - 1
        BY <2>12
      <4> DEFINE a == Off(sent[n].at)
                 b == Off(sent[m].at)
                 x == Sz(n)
                 z == Sz(f)
      <4>4. /\ a \in 0 .. Size - 1 /\ b \in 0 .. Size - 1 /\ x \in 5 .. LinkBufSize + 3
            /\ z \in 5 .. LinkBufSize + 3 /\ a + x <= b
        BY <2>5, <4>2, <4>3
      <4> HIDE DEF a, b, x, z
      <4>5. a - z + x <= b - z
        BY ONLY <4>4, Settings
      <4> QED
        BY <4>3, <4>5 DEF a, b, x, z
    <3>5. (wpc = "header" => wk \in 0 .. 2) /\ (wpc = "copy" => wk \in 3 .. Sz(Len(sent)) - 1)
      BY DEF Inv, Line
    <3> QED
      BY <1>1, <2>9, <2>13, <3>1, <3>2, <3>3, <3>4, <3>5 DEF Line, Off
  <2>17. Contents(g)'
    BY <1>1, <2>12, <2>13 DEF Inv, Contents, PacketOf
  <2>18. Gone(g)'
    <3>1. \A n \in 1 .. g - 1 : n \in 1 .. f - 1 \/ n = f
      BY <1>3
    <3> QED
      BY <1>1, <2>7, <2>13, <3>1 DEF Inv, Gone
  <2>19. Looking(g)' /\ Using(g)'
    BY <1>1, <1>2, <2>1 DEF Looking, Using
  <2>20. Holding(g)'
    <3> SUFFICES ASSUME r.idx # NONE, ~Adrift(rpc, r.last, early)
                 PROVE  \E n \in g .. Len(sent) : n \notin disposed /\ r.idx = sent[n].at /\ Shown(n) >= PKTHDRSIZE
      BY <1>1, <2>1, <2>13 DEF Holding, Adrift
    <3>1. PICK n \in f .. Len(sent) : n \notin disposed /\ r.idx = sent[n].at /\ Shown(n) >= PKTHDRSIZE
      BY <1>1 DEF Inv, Holding
    <3>2. n \in g .. Len(sent)
      BY <1>3, <2>7, <3>1
    <3> QED
      BY <3>1, <3>2
  <2>21. Inv(g)'
    BY <2>16, <2>17, <2>18, <2>19, <2>20 DEF Inv
  <2> QED
    BY <1>5, <2>15, <2>21
<1> QED
  BY <1>4, <1>5

---------------------------------------------------------------------------
(* The thread's steps.                                                     *)

(* A packet that is appended begins where pwrite was.                      *)
LEMMA StartStays ==
    ASSUME RxTypes, NEW f, Inv(f), NEW L, L = Len(sent), wpc = "idle", NEW p, p.at = pwrite,
           sent' = Append(sent, p), Len(sent') = L + 1, sent'[L + 1] = p,
           \A n \in 1 .. L : sent'[n] = sent[n], NEW b \in f .. L + 1
    PROVE  Start(f, b)' = Start(f, b)
<1>1. f \in 1 .. L + 1 /\ L \in Nat /\ pread \in 0 .. Size - 1 /\ pwrite \in 0 .. Size - 1
  BY DEF Inv, Line, RxTypes
<1>2. CASE b <= L
  <2>1. b \in 1 .. L /\ b <= Len(sent')
    BY <1>1, <1>2
  <2> QED
    BY <1>2, <2>1 DEF Start
<1>3. CASE b > L
  <2>1. b = L + 1
    BY <1>1, <1>3
  <2>2. Start(f, b)' = pwrite
    BY <1>1, <2>1 DEF Start
  <2>3. Start(f, b) \in 0 .. Size - 1 /\ Off(Start(f, b)) = Off(pwrite)
    <3>1. CASE f <= L
      <4>1. L \in f .. L /\ Shown(L) = Sz(L)
        BY <1>1, <3>1 DEF Shown, Whole
      <4>2. Off(pwrite) = Off(sent[L].at) + Sz(L)
        BY <3>1, <4>1 DEF Inv, Line
      <4> QED
        BY <1>3, <3>1, <4>2, StartIs DEF Inv
    <3>2. CASE f > L
      <4>1. pwrite = pread
        BY <3>2 DEF Inv, Line
      <4>2. Off(pwrite) = 0
        BY <1>1, <4>1, SamePlace DEF Off
      <4> QED
        BY <1>3, <3>2, <4>2, StartIs DEF Inv
    <3> QED
      BY <1>1, <3>1, <3>2
  <2>4. Start(f, b) = pwrite
    BY <1>1, <2>3, SamePlace DEF Off
  <2> QED
    BY <2>2, <2>4
<1> QED
  BY <1>1, <1>2, <1>3

(* A fragment is taken only if there is room for the longest.              *)
LEMMA ReadFragmentMoves ==
    ASSUME RxTypes, NEW f, Inv(f), NEW L, L = Len(sent),
           NEW c \in Conns, NEW more \in BOOLEAN, NEW len \in Lens, ReadFragment(c, more, len)
    PROVE  RxTypes' /\ Inv(f)'
<1> DEFINE p == [conn |-> c, more |-> more, len |-> len, at |-> pwrite]
<1>1. /\ wpc = "idle" /\ Room /\ sent' = Append(sent, p) /\ wpc' = "header" /\ wk' = 0
      /\ data' = data /\ pread' = pread /\ pwrite' = pwrite /\ rpc' = rpc /\ r' = r /\ ubuf' = ubuf
      /\ disposed' = disposed /\ early' = early
  BY DEF ReadFragment, ring, reader, user
<1>2. /\ f \in 1 .. L + 1 /\ L \in Nat /\ pread \in 0 .. Size - 1 /\ pwrite \in 0 .. Size - 1
      /\ sent \in Seq(Packets) /\ disposed \subseteq 1 .. L
  BY DEF Inv, Line, RxTypes
<1>3. p \in Packets
  BY <1>2 DEF Packets
<1>4. /\ sent' \in Seq(Packets) /\ Len(sent') = L + 1 /\ sent'[L + 1] = p
      /\ \A n \in 1 .. L : sent'[n] = sent[n]
  BY <1>1, <1>2, <1>3, AppendProperties
<1>5. RxTypes'
  <2>1. disposed' \subseteq 1 .. Len(sent')
    BY <1>1, <1>2, <1>4
  <2>2. wk' \in Nat /\ wpc' \in {"idle", "header", "copy", "wake"}
    BY <1>1
  <2> QED
    BY <1>1, <1>4, <2>1, <2>2 DEF RxTypes
<1>6. /\ \A n \in 1 .. L : Whole(n) /\ Whole(n)' /\ Sz(n)' = Sz(n) /\ Shown(n)' = Sz(n) /\ Shown(n) = Sz(n)
      /\ Shown(L + 1)' = 0
  <2>1. \A n \in 1 .. L : Whole(n) /\ Whole(n)' /\ Sz(n)' = Sz(n)
    BY <1>1, <1>2, <1>4 DEF Whole, Sz
  <2>2. ~Whole(L + 1)'
    BY <1>1, <1>2, <1>4 DEF Whole
  <2> QED
    BY <1>1, <2>1, <2>2 DEF Shown
<1>7. \A i : Off(i)' = Off(i)
  BY <1>1 DEF Off
<1>8. Sz(L + 1)' \in 5 .. LinkBufSize + 3 /\ Off(pwrite) \in 0 .. Size - 1
      /\ Off(pwrite) + Sz(L + 1)' < Size
  <2>1. Off(pwrite) \in 0 .. Size - 1 /\ Size - 1 - Off(pwrite) >= LinkBufSize + 3
    BY <1>1, AvailIs DEF Room, PKTHDRSIZE
  <2>2. Sz(L + 1)' = len + 3
    BY <1>4 DEF Sz, PKTHDRSIZE
  <2>3. len \in 2 .. LinkBufSize
    BY Settings
  <2> DEFINE o == Off(pwrite)
             x == Sz(L + 1)'
  <2>4. o \in 0 .. Size - 1 /\ Size - 1 - o >= LinkBufSize + 3 /\ x = len + 3
    BY <2>1, <2>2
  <2> HIDE DEF o, x
  <2>5. x \in 5 .. LinkBufSize + 3 /\ o + x < Size
    BY ONLY <2>3, <2>4, Settings
  <2> QED
    BY <2>1, <2>5 DEF o, x
<1>9. f <= L => /\ L \in f .. L /\ L \in 1 .. L
                /\ Off(pwrite) = Off(sent[L].at) + Sz(L)
                /\ \A n \in f .. L : Off(sent[n].at) + Sz(n) <= Off(pwrite)
  <2> SUFFICES ASSUME f <= L
               PROVE /\ L \in f .. L /\ L \in 1 .. L
                     /\ Off(pwrite) = Off(sent[L].at) + Sz(L)
                     /\ \A n \in f .. L : Off(sent[n].at) + Sz(n) <= Off(pwrite)
    OBVIOUS
  <2>1. L \in f .. L /\ L \in 1 .. L
    BY <1>2
  <2>2. Off(pwrite) = Off(sent[L].at) + Sz(L)
    BY <1>6, <2>1 DEF Inv, Line
  <2>3. \A n \in f .. L : n \in 1 .. L /\ Off(sent[n].at) + Shown(n) <= Off(pwrite)
    BY Fits DEF Inv
  <2> QED
    BY <1>6, <2>1, <2>2, <2>3
<1>10. f > L => pwrite = pread
  BY DEF Inv, Line
<1>11. \A n \in f .. L : n \in 1 .. L
  BY <1>2
<1>12. Line(f)'
  <2>1. sent'[f].at = pread
    <3>1. CASE f <= L
      BY <1>2, <1>4, <3>1 DEF Inv, Line
    <3>2. CASE f > L
      BY <1>2, <1>4, <1>10, <3>2
    <3> QED
      BY <1>2, <3>1, <3>2
  <2>2. Off(pwrite) = Off(sent'[L + 1].at) + 0 /\ sent'[L + 1].at = pwrite
    BY <1>4, <1>8, Settings
  <2>3. ASSUME NEW n \in f .. L
        PROVE  Off(sent'[n + 1].at) = Off(sent'[n].at) + Sz(n)
    <3>1. CASE n = L
      BY <1>2, <1>4, <1>9, <1>11, <2>2, <2>3, <3>1
    <3>2. CASE n # L
      <4>1. n \in f .. L - 1 /\ n \in 1 .. L /\ n + 1 \in 1 .. L
        BY <1>2, <3>2
      <4> QED
        BY <1>4, <4>1 DEF Inv, Line
    <3> QED
      BY <3>1, <3>2
  <2>4. ASSUME NEW n \in f .. L + 1, NEW m \in f .. L + 1, n < m
        PROVE  Off(sent'[n].at) + Sz(n) <= Off(sent'[m].at)
    <3>1. n \in f .. L /\ n \in 1 .. L /\ f <= L
      BY <1>2, <2>4
    <3>2. CASE m = L + 1
      BY <1>4, <1>9, <2>2, <3>1, <3>2
    <3>3. CASE m # L + 1
      <4>1. m \in f .. L /\ m \in 1 .. L
        BY <1>2, <3>3
      <4> QED
        BY <1>4, <2>4, <3>1, <4>1 DEF Inv, Line
    <3> QED
      BY <3>2, <3>3
  <2>5. f \in 1 .. Len(sent') + 1 /\ ~(f > Len(sent')) /\ \A n \in f .. Len(sent') - 1 : n \in f .. L /\ n \in 1 .. L
    BY <1>2, <1>4
  <2>6. \A n, m \in f .. Len(sent') : n < m => n \in 1 .. L
    BY <1>2, <1>4
  <2>7. \A n \in f .. Len(sent') - 1 : Off(sent[n + 1].at)' = Off(sent[n].at)' + Sz(n)'
    BY <1>6, <1>7, <2>3, <2>5
  <2>8. \A n, m \in f .. Len(sent') : n < m => Off(sent[n].at)' + Sz(n)' <= Off(sent[m].at)'
    BY <1>4, <1>6, <1>7, <2>4, <2>6
  <2>9. /\ Off(pwrite)' = Off(sent[L + 1].at)' + Shown(L + 1)'
        /\ Off(sent[L + 1].at)' + Sz(L + 1)' < Size
    BY <1>1, <1>4, <1>6, <1>7, <1>8, <2>2
  <2>10. (wpc' = "header" => wk' \in 0 .. 2) /\ (wpc' # "copy")
    BY <1>1
  <2> QED
    BY <1>1, <1>4, <2>1, <2>5, <2>7, <2>8, <2>9, <2>10 DEF Line
<1>13. Contents(f)'
  <2> SUFFICES ASSUME NEW n \in f .. Len(sent'), NEW k \in 0 .. Shown(n)' - 1
               PROVE  data'[(sent'[n].at + k) % Size] = PacketOf(n, k)'
    BY DEF Contents
  <2>1. n # L + 1
    BY <1>6
  <2>2. n \in f .. L /\ n \in 1 .. L
    BY <1>2, <1>4, <2>1
  <2>3. k \in 0 .. Shown(n) - 1 /\ sent'[n] = sent[n]
    BY <1>4, <1>6, <2>2
  <2>4. PacketOf(n, k)' = PacketOf(n, k)
    BY <1>1, <2>3 DEF PacketOf
  <2> QED
    BY <1>1, <2>2, <2>3, <2>4 DEF Inv, Contents
<1>14. Gone(f)'
  BY <1>1, <1>2, <1>6 DEF Inv, Gone
<1>15. Looking(f)'
  <2> SUFFICES ASSUME rpc \in {"cond", "walk", "next"}, ~Adrift(rpc, r.last, early)
               PROVE  \E b \in f .. L + 2 : r.idx = Start(f, b)'
    <3>1. rpc \in {"cond", "walk", "next"} =>
            /\ r.idx # NONE
            /\ ~Adrift(rpc, r.last, early) =>
                 r.consumed >= Off(r.idx) \/ (Off(r.idx) = Size - 1 /\ rpc # "walk")
      BY DEF Inv, Looking
    <3>2. Len(sent') + 1 = L + 2
      BY <1>2, <1>4
    <3> QED
      BY <1>1, <1>7, <3>1, <3>2 DEF Looking, Adrift
  <2>2. PICK b \in f .. L + 1 : r.idx = Start(f, b)
    BY DEF Inv, Looking
  <2>3. b \in f .. L + 2
    BY <1>2, <2>2
  <2>4. p.at = pwrite
    OBVIOUS
  <2>5. Start(f, b)' = Start(f, b)
    BY <1>1, <1>4, <2>2, <2>4, StartStays
  <2> QED
    BY <2>2, <2>3, <2>5
<1>16. \A n \in f .. L : n \in f .. Len(sent') /\ sent'[n] = sent[n]
  BY <1>2, <1>4
<1>17. Holding(f)'
  <2> SUFFICES ASSUME rpc \in {"frag", "dispose", "clean", "loop"}, r.idx # NONE, ~Adrift(rpc, r.last, early)
               PROVE  \E n \in f .. Len(sent') : n \notin disposed /\ r.idx = sent'[n].at /\ Shown(n)' >= PKTHDRSIZE
    BY <1>1 DEF Holding, Adrift
  <2>1. PICK n \in f .. L : n \notin disposed /\ r.idx = sent[n].at /\ Shown(n) >= PKTHDRSIZE
    BY DEF Inv, Holding
  <2> QED
    BY <1>6, <1>11, <1>16, <2>1
<1>18. Using(f)'
  <2> SUFFICES ASSUME r.dispose # NONE
               PROVE  /\ rpc \in {"next", "dispose"}
                      /\ \E m \in f .. Len(sent') : r.dispose = sent'[m].at /\ (early \/ Whole(m)')
                      /\ r.idx # NONE /\ ~Adrift(rpc, r.last, early) => Off(r.dispose) < Off(r.idx)
    BY <1>1, <1>7 DEF Using, Adrift
  <2>1. /\ rpc \in {"next", "dispose"}
        /\ \E m \in f .. L : r.dispose = sent[m].at /\ (early \/ Whole(m))
        /\ r.idx # NONE /\ ~Adrift(rpc, r.last, early) => Off(r.dispose) < Off(r.idx)
    BY DEF Inv, Using
  <2> QED
    BY <1>6, <1>11, <1>16, <2>1
<1> QED
  BY <1>5, <1>12, <1>13, <1>14, <1>15, <1>17, <1>18 DEF Inv

(* The thread stores g bytes of the packet at pwrite, behind everything    *)
(* that is published, and moves pwrite past them.                          *)
LEMMA PublishMoves ==
    ASSUME RxTypes, NEW f, Inv(f), NEW L, L = Len(sent), NEW w, w = wk, NEW g \in Nat \ {0},
           wpc \in {"header", "copy"}, w + g <= Sz(L),
           data' \in [0 .. Size - 1 -> Nat], pwrite' = (pwrite + g) % Size, wk' = w + g,
           \A k \in 0 .. g - 1 : data'[(pwrite + k) % Size] = PacketByte(w + k),
           \A i \in 0 .. Size - 1 : (\A k \in 0 .. g - 1 : i # (pwrite + k) % Size) => data'[i] = data[i],
           \/ wpc' = "header" /\ w + g <= 2
           \/ wpc' = "copy" /\ 3 <= w + g /\ w + g < Sz(L)
           \/ wpc' = "wake" /\ w + g = Sz(L),
           UNCHANGED <<pread, sent, reader>>
    PROVE  RxTypes' /\ Inv(f)'
<1>1. /\ pread' = pread /\ sent' = sent /\ rpc' = rpc /\ r' = r /\ ubuf' = ubuf
      /\ disposed' = disposed /\ early' = early
  BY DEF reader, user
<1>2. /\ f \in 1 .. L + 1 /\ L \in Nat /\ pread \in 0 .. Size - 1 /\ pwrite \in 0 .. Size - 1 /\ w \in Nat
  BY DEF Inv, Line, RxTypes
<1>3. L \in f .. L /\ L \in 1 .. L /\ f <= L
  BY <1>2 DEF Inv, Line
<1>4. ~Whole(L) /\ L \notin disposed /\ Shown(L) = w
  BY DEF Whole, Shown, Inv, Gone
<1>5. /\ Off(pwrite) = Off(sent[L].at) + w /\ sent[L].at \in 0 .. Size - 1
      /\ Off(sent[L].at) \in 0 .. Size - 1 /\ Sz(L) \in 5 .. LinkBufSize + 3
      /\ Off(sent[L].at) + Sz(L) < Size
  <2>1. sent[L].at \in 0 .. Size - 1 /\ Off(sent[L].at) \in 0 .. Size - 1 /\ Sz(L) \in 5 .. LinkBufSize + 3
    BY <1>3, Sizes
  <2>2. Off(pwrite) = Off(sent[L].at) + w /\ Off(sent[L].at) + Sz(L) < Size
    BY <1>3, <1>4 DEF Inv, Line
  <2> QED
    BY <2>1, <2>2
<1> DEFINE a == Off(sent[L].at)
           x == Sz(L)
           o == Off(pwrite)
<1>6. /\ a \in 0 .. Size - 1 /\ x \in 5 .. LinkBufSize + 3 /\ o = a + w /\ a + x < Size
      /\ w + g <= x /\ o = From(pread, pwrite)
  BY <1>5 DEF Off
<1> HIDE DEF a, x, o
<1>7. o \in 0 .. Size - 1 /\ o + g < Size /\ o + g = a + (w + g)
  BY ONLY <1>2, <1>6, g \in Nat \ {0}, Settings
<1>8. \A k \in 0 .. g : /\ (pwrite + k) % Size \in 0 .. Size - 1
                        /\ Off((pwrite + k) % Size) = o + k
  <2> SUFFICES ASSUME NEW k \in 0 .. g
               PROVE /\ (pwrite + k) % Size \in 0 .. Size - 1
                     /\ From(pread, (pwrite + k) % Size) = o + k
    BY DEF Off
  <2>1. k \in Nat /\ o + k < Size
    BY ONLY <1>7, g \in Nat \ {0}, k \in 0 .. g, Settings
  <2>2. From(pread, pwrite) + k < Size
    BY <1>6, <2>1
  <2> QED
    BY ONLY <1>2, <1>6, <2>1, <2>2, Farther
<1>9. pwrite' \in 0 .. Size - 1 /\ Off(pwrite)' = a + (w + g)
  <2>1. g \in 0 .. g
    OBVIOUS
  <2>2. pwrite' \in 0 .. Size - 1 /\ Off(pwrite') = o + g
    BY <1>8, <2>1
  <2> QED
    BY <1>1, <1>7, <2>2 DEF Off
<1>10. \A i \in 0 .. Size - 1 : Off(i) < o => data'[i] = data[i]
  <2> SUFFICES ASSUME NEW i \in 0 .. Size - 1, Off(i) < o, NEW k \in 0 .. g - 1
               PROVE  i # (pwrite + k) % Size
    OBVIOUS
  <2>1. k \in 0 .. g /\ ~(o + k < o)
    BY <1>7, Settings
  <2>2. Off((pwrite + k) % Size) = o + k
    BY <1>8, <2>1
  <2> QED
    BY <2>1, <2>2
<1>11. \A n : n # L \/ Whole(n)' => Sz(n)' = Sz(n)
  BY <1>1 DEF Sz
<1>12. \A n : Sz(n)' = Sz(n) /\ (n \in f .. L /\ n # L => Shown(n)' = Shown(n)) /\ (Whole(n) => Whole(n)')
  <2>1. \A n : Whole(n) => n < L
    BY DEF Whole
  <2>2. \A n : n < L => Whole(n)'
    BY <1>1 DEF Whole
  <2>3. \A n : n \in f .. L /\ n # L => n < L
    BY <1>2
  <2>4. \A n : n < L => Whole(n)
    BY DEF Whole
  <2>5. \A n : Sz(n)' = Sz(n)
    BY <1>1 DEF Sz
  <2> QED
    BY <2>1, <2>2, <2>3, <2>4, <2>5 DEF Shown
<1>13. Shown(L)' = w + g
  <2>1. CASE wpc' = "wake"
    BY <1>12, <2>1 DEF Shown, Whole
  <2>2. CASE wpc' # "wake"
    <3>1. ~Whole(L)'
      BY <1>1, <1>2, <2>2 DEF Whole
    <3> QED
      BY <3>1 DEF Shown
  <2> QED
    BY <2>1, <2>2
<1>14. RxTypes'
  <2>1. wk' \in Nat /\ wpc' \in {"idle", "header", "copy", "wake"}
    BY <1>2
  <2> QED
    BY <1>1, <1>9, <2>1 DEF RxTypes
<1>15. \A i : Off(i)' = Off(i)
  BY <1>1 DEF Off
<1>16. Line(f)'
  <2>1. Off(pwrite)' = Off(sent[L].at)' + Shown(L)'
    BY <1>1, <1>9, <1>13, <1>15 DEF a
  <2>2. (wpc' = "header" => wk' \in 0 .. 2) /\ (wpc' = "copy" => wk' \in 3 .. Sz(L)' - 1)
    <3>1. x = Sz(L)'
      BY <1>12 DEF x
    <3>2. wpc' = "copy" => 3 <= w + g /\ w + g < x
      BY DEF x
    <3>3. wpc' = "copy" => w + g \in 3 .. x - 1
      BY <1>2, <1>6, <3>2, Settings
    <3>4. wpc' = "header" => w + g \in 0 .. 2
      BY <1>2
    <3> QED
      BY <3>1, <3>3, <3>4
  <2>3. /\ sent[f].at = pread /\ Off(sent[L].at) + Sz(L) < Size
        /\ \A n \in f .. L - 1 : Off(sent[n + 1].at) = Off(sent[n].at) + Sz(n)
        /\ \A n, m \in f .. L : n < m => Off(sent[n].at) + Sz(n) <= Off(sent[m].at)
    BY <1>3 DEF Inv, Line
  <2>4. /\ \A n \in f .. L - 1 : Off(sent[n + 1].at)' = Off(sent[n].at)' + Sz(n)'
        /\ \A n, m \in f .. L : n < m => Off(sent[n].at)' + Sz(n)' <= Off(sent[m].at)'
        /\ Off(sent[L].at)' + Sz(L)' < Size
    BY <1>1, <1>12, <1>15, <2>3
  <2>5. f \in 1 .. L + 1 /\ ~(f > L)
    BY <1>2, <1>3
  <2> QED
    BY <1>1, <2>1, <2>2, <2>3, <2>4, <2>5 DEF Line
<1>17. Contents(f)'
  <2> SUFFICES ASSUME NEW n \in f .. L, NEW k \in 0 .. Shown(n)' - 1
               PROVE  data'[(sent[n].at + k) % Size] = PacketOf(n, k)'
    BY <1>1 DEF Contents
  <2> DEFINE i == (sent[n].at + k) % Size
  <2>1. PacketOf(n, k)' = PacketOf(n, k)
    BY <1>1 DEF PacketOf
  <2>2. n \in 1 .. L /\ Shown(n) \in 0 .. Sz(n)
    BY Fits DEF Inv
  <2>3. Sz(n) \in 5 .. LinkBufSize + 3 /\ Off(sent[n].at) \in 0 .. Size - 1
    BY <2>2, Sizes
  <2>4. k \in 0 .. Sz(n) - 1
    <3>1. Shown(n)' \in Int /\ Shown(n)' <= Sz(n)
      <4>1. CASE n = L
        BY <1>2, <1>13, <4>1
      <4>2. CASE n # L
        BY <1>12, <2>2, <2>3, <4>2
      <4> QED
        BY <4>1, <4>2
    <3> QED
      BY <2>3, <3>1, Settings, SMTT(30)
  <2>5. i \in 0 .. Size - 1 /\ Off(i) = Off(sent[n].at) + k
    BY <2>4, Apart DEF Inv
  <2>6. k \in 0 .. Shown(n) - 1 => data[i] = PacketOf(n, k)
    BY DEF Inv, Contents
  <2>7. CASE n # L
    <3>1. k \in 0 .. Shown(n) - 1
      BY <1>12, <2>7
    <3>2. Off(sent[n].at) + Sz(n) <= Off(sent[L].at)
      BY <1>2, <1>3, <2>7 DEF Inv, Line
    <3> DEFINE b == Off(sent[n].at)
               z == Sz(n)
    <3>3. b \in 0 .. Size - 1 /\ z \in 5 .. LinkBufSize + 3 /\ b + z <= a /\ k \in 0 .. z - 1
      BY <2>3, <2>4, <3>2 DEF a
    <3> HIDE DEF b, z
    <3>4. b + k < o
      BY ONLY <1>2, <1>6, <3>3, Settings
    <3>5. data'[i] = data[i]
      BY <1>10, <2>5, <3>4 DEF b
    <3> QED
      BY <2>1, <2>6, <3>1, <3>5
  <2>8. CASE n = L /\ k < w
    <3>1. k \in 0 .. Shown(n) - 1
      BY <1>2, <1>4, <2>4, <2>8, <2>3, Settings
    <3>3. k \in Int
      BY <2>3, <2>4
    <3>2. Off(i) < o
      <4>1. Off(i) = a + k
        BY <2>5, <2>8 DEF a
      <4>2. a + k < o
        BY ONLY <1>2, <1>6, <2>8, <3>3, Settings
      <4> QED
        BY <4>1, <4>2
    <3> QED
      BY <1>10, <2>1, <2>5, <2>6, <3>1, <3>2
  <2>9. CASE n = L /\ k >= w
    <3> DEFINE j == k - w
    <3>1. j \in 0 .. g - 1 /\ w + j = k /\ k \in Nat
      BY <1>2, <1>13, <2>4, <2>9
    <3>2. j \in 0 .. g
      BY <3>1
    <3>3. Off((pwrite + j) % Size) = o + j /\ (pwrite + j) % Size \in 0 .. Size - 1
      BY <1>8, <3>2
    <3>4. o + j = a + k
      BY <1>2, <1>6, <3>1, Settings
    <3>5. i = (pwrite + j) % Size
      <4>1. From(pread, i) = From(pread, (pwrite + j) % Size)
        BY <2>5, <2>9, <3>3, <3>4 DEF Off, a
      <4> QED
        BY ONLY <1>2, <2>5, <3>3, <4>1, SamePlace
    <3>6. data'[i] = PacketByte(k)
      <4> HIDE DEF i, j
      <4>1. data'[(pwrite + j) % Size] = PacketByte(w + j)
        BY <3>1
      <4> QED
        BY <3>1, <3>5, <4>1
    <3>7. PacketByte(k) = PacketOf(n, k)
      BY <1>4, <2>9 DEF PacketByte, PacketOf, Packet
    <3> QED
      BY <2>1, <3>6, <3>7
  <2> QED
    BY <1>2, <2>4, <2>7, <2>8, <2>9
<1>18. Gone(f)'
  BY <1>1, <1>12 DEF Inv, Gone
<1>19. Looking(f)'
  BY <1>1, <1>12, <1>15 DEF Inv, Looking, Adrift, Start
<1>20. Holding(f)'
  <2> SUFFICES ASSUME rpc \in {"frag", "dispose", "clean", "loop"}, r.idx # NONE, ~Adrift(rpc, r.last, early)
               PROVE  \E n \in f .. L : n \notin disposed /\ r.idx = sent[n].at /\ Shown(n)' >= PKTHDRSIZE
    BY <1>1 DEF Holding, Adrift
  <2>1. PICK n \in f .. L : n \notin disposed /\ r.idx = sent[n].at /\ Shown(n) >= PKTHDRSIZE
    BY DEF Inv, Holding
  <2>2. Shown(n)' >= PKTHDRSIZE
    BY <1>2, <1>4, <1>12, <1>13, <2>1 DEF PKTHDRSIZE
  <2> QED
    BY <2>1, <2>2
<1>21. Using(f)'
  BY <1>1, <1>12, <1>15 DEF Inv, Using, Adrift
<1> QED
  BY <1>14, <1>16, <1>17, <1>18, <1>19, <1>20, <1>21 DEF Inv

LEMMA WriteByteMoves ==
    ASSUME RxTypes, NEW f, Inv(f), WriteByte
    PROVE  RxTypes' /\ Inv(f)'
<1>1. /\ wpc = "header" /\ data' = [data EXCEPT ![pwrite] = PacketByte(wk)]
      /\ pwrite' = (pwrite + 1) % Size /\ wk' = wk + 1
      /\ wpc' = IF wk + 1 = 3 THEN "copy" ELSE "header"
      /\ UNCHANGED <<pread, sent, reader>>
  BY DEF WriteByte, PKTHDRSIZE
<1>2. wk \in 0 .. 2 /\ Len(sent) \in 1 .. Len(sent)
  <2>1. Len(sent) \in Nat /\ f \in 1 .. Len(sent) + 1 /\ ~(f > Len(sent)) /\ wk \in 0 .. 2
    BY <1>1 DEF Inv, Line, RxTypes
  <2> QED
    BY <2>1
<1>3. sent[Len(sent)].len \in 2 .. LinkBufSize /\ Sz(Len(sent)) \in 5 .. LinkBufSize + 3
  BY <1>2, Sizes
<1>4. PacketByte(wk) \in Nat
  <2> DEFINE l == sent[Len(sent)].len
  <2>0. l \in 2 .. LinkBufSize
    BY <1>3
  <2>2. wk = 0 \/ wk = 1 \/ wk = 2
    BY <1>2
  <2>3. PacketByte(wk) = IF wk = 0 THEN l \div 256 ELSE IF wk = 1 THEN l % 256 ELSE PKT_READY
    BY <2>2 DEF PacketByte, Packet
  <2> HIDE DEF l
  <2>1. l \in Nat
    BY ONLY <2>0, Settings
  <2>4. l \div 256 \in Nat /\ l % 256 \in Nat
    BY ONLY <2>1, LengthBytes
  <2> QED
    BY <2>1, <2>3, <2>4 DEF PKT_READY
<1>5. pwrite \in 0 .. Size - 1 /\ data \in [0 .. Size - 1 -> Nat] /\ Size \in Nat
  BY Settings DEF RxTypes
<1>6. (pwrite + 0) % Size = pwrite
  <2>1. 0 \in 0 .. Size /\ pwrite + 0 < Size /\ pwrite + 0 = pwrite
    BY <1>5
  <2> QED
    BY <1>5, <2>1, Modulo
<1>7. data' \in [0 .. Size - 1 -> Nat] /\ data'[pwrite] = PacketByte(wk)
      /\ \A i \in 0 .. Size - 1 : i # pwrite => data'[i] = data[i]
  BY <1>1, <1>4, <1>5
<1>8. \A k \in 0 .. 1 - 1 : k = 0
  OBVIOUS
<1>9. 0 \in 0 .. 1 - 1 /\ 1 \in Nat \ {0} /\ wk + 0 = wk
  BY <1>2
<1>10. /\ \A k \in 0 .. 1 - 1 : data'[(pwrite + k) % Size] = PacketByte(wk + k)
       /\ \A i \in 0 .. Size - 1 : (\A k \in 0 .. 1 - 1 : i # (pwrite + k) % Size) => data'[i] = data[i]
  BY <1>6, <1>7, <1>8, <1>9
<1>11. /\ wk + 1 <= Sz(Len(sent))
       /\ \/ wpc' = "header" /\ wk + 1 <= 2
          \/ wpc' = "copy" /\ 3 <= wk + 1 /\ wk + 1 < Sz(Len(sent))
  BY <1>1, <1>2, <1>3, Settings
<1>12. \E L, w : L = Len(sent) /\ w = wk
  OBVIOUS
<1>13. PICK L, w : L = Len(sent) /\ w = wk
  BY <1>12
<1> QED
  BY <1>1, <1>7, <1>9, <1>10, <1>11, <1>13, PublishMoves

LEMMA PktWriteMoves ==
    ASSUME RxTypes, NEW f, Inv(f), PktWrite
    PROVE  RxTypes' /\ Inv(f)'
<1>1. PICK L, w, p : L = Len(sent) /\ w = wk /\ p = pwrite
  OBVIOUS
<1>2. /\ wpc = "copy" /\ L \in 1 .. L /\ w \in 3 .. Sz(L) - 1 /\ p \in 0 .. Size - 1
      /\ DOMAIN data = 0 .. Size - 1 /\ data \in [0 .. Size - 1 -> Nat]
  <2>1. /\ wpc = "copy" /\ L \in Nat /\ f \in 1 .. L + 1 /\ p \in 0 .. Size - 1
        /\ DOMAIN data = 0 .. Size - 1 /\ data \in [0 .. Size - 1 -> Nat]
    BY <1>1 DEF PktWrite, Inv, Line, RxTypes
  <2>2. ~(f > L) /\ w \in 3 .. Sz(L) - 1
    BY <1>1, <2>1 DEF Inv, Line
  <2> QED
    BY <2>1, <2>2
<1>3. /\ sent[L] \in Packets /\ sent[L].len \in 2 .. LinkBufSize /\ Sz(L) \in 5 .. LinkBufSize + 3
      /\ Sz(L) = sent[L].len + 3
  BY <1>1, <1>2, Sizes DEF Sz, PKTHDRSIZE
<1> DEFINE x == Sz(L)
           todo == x - w
           g == IF p + todo > Size THEN Size - p ELSE todo
<1>4. /\ x \in 5 .. LinkBufSize + 3 /\ w \in 3 .. x - 1
  BY <1>2, <1>3
<1>5. /\ data' = [i \in 0 .. Size - 1 |-> IF i \in p .. p + g - 1 THEN PacketByte(w + i - p) ELSE data[i]]
      /\ pwrite' = (p + g) % Size /\ wk' = w + g
      /\ wpc' = (IF g = todo THEN "wake" ELSE "copy")
      /\ UNCHANGED <<pread, sent, reader>>
  <2> DEFINE l == Packet.len
  <2>1. l \in Int /\ l + 3 = x /\ w \in Int
    BY <1>1, <1>2, <1>3 DEF Packet
  <2> HIDE DEF l, x
  <2>2. Packet.len + PKTHDRSIZE - wk = todo
    <3>1. l + 3 - wk = x - w
      BY <1>1, <2>1
    <3> QED
      BY <3>1 DEF PKTHDRSIZE, l
  <2> HIDE DEF todo
  <2>3. /\ data' = [i \in 0 .. Size - 1 |-> IF i \in p .. p + g - 1 THEN PacketByte(w + i - p) ELSE data[i]]
        /\ pwrite' = (p + g) % Size /\ wk' = w + g
    BY <1>1, <1>2, <2>2 DEF PktWrite
  <2>4. wpc' = IF g = todo THEN "wake" ELSE "copy"
    BY <1>1, <1>2, <2>2 DEF PktWrite
  <2>5. UNCHANGED <<pread, sent, reader>>
    BY DEF PktWrite
  <2> QED
    BY <2>3, <2>4, <2>5
<1> HIDE DEF x
<1>6. g \in Nat \ {0} /\ g <= todo /\ p + g <= Size /\ todo \in 1 .. x /\ w + todo = x
  BY <1>2, <1>4, Settings
<1> HIDE DEF g, todo
<1>7. w + g <= x /\ w + g \in Nat /\ 3 <= w + g /\ (g = todo => w + g = x) /\ (g # todo => w + g < x)
  BY <1>4, <1>6, Settings
<1>8. \A k \in 0 .. g - 1 : (p + k) % Size = p + k /\ p + k \in 0 .. Size - 1
  <2> SUFFICES ASSUME NEW k \in 0 .. g - 1 PROVE (p + k) % Size = p + k /\ p + k \in 0 .. Size - 1
    OBVIOUS
  <2>1. k \in 0 .. Size /\ p + k < Size /\ p + k \in 0 .. Size - 1
    BY <1>2, <1>6, Settings
  <2>2. (p + k) % Size = IF p + k < Size THEN p + k ELSE p + k - Size
    BY ONLY <1>2, <2>1, Modulo
  <2> QED
    BY <2>1, <2>2
<1>9. \A k \in 0 .. g - 1 : data'[(p + k) % Size] = PacketByte(w + k)
  <2> SUFFICES ASSUME NEW k \in 0 .. g - 1 PROVE data'[p + k] = PacketByte(w + k)
    BY <1>8
  <2>1. p + k \in p .. p + g - 1 /\ w + (p + k) - p = w + k
    BY <1>2, <1>4, <1>6, Settings
  <2> QED
    BY <1>5, <1>8, <2>1
<1>10. \A i \in 0 .. Size - 1 : (\A k \in 0 .. g - 1 : i # (p + k) % Size) => data'[i] = data[i]
  <2> SUFFICES ASSUME NEW i \in 0 .. Size - 1, \A k \in 0 .. g - 1 : i # (p + k) % Size
               PROVE  data'[i] = data[i]
    OBVIOUS
  <2>1. i \notin p .. p + g - 1
    <3> SUFFICES ASSUME i \in p .. p + g - 1 PROVE FALSE
      OBVIOUS
    <3>1. i - p \in 0 .. g - 1 /\ p + (i - p) = i
      BY <1>2, <1>6
    <3> QED
      BY <1>8, <3>1
  <2> QED
    BY <1>5, <2>1
<1>11. data' \in [0 .. Size - 1 -> Nat]
  <2> SUFFICES ASSUME NEW i \in 0 .. Size - 1
               PROVE  (IF i \in p .. p + g - 1 THEN PacketByte(w + i - p) ELSE data[i]) \in Nat
    BY <1>5
  <2>1. data[i] \in Nat
    BY <1>2
  <2>2. ASSUME i \in p .. p + g - 1 PROVE PacketByte(w + i - p) \in Nat
    <3> DEFINE k == w + i - p
    <3>1. k \in 3 .. x
      BY <1>2, <1>4, <1>6, <2>2, Settings
    <3>2. PayloadByte(Len(sent)) \in Nat
      BY <1>1, <1>2, Settings DEF PayloadByte
    <3>3. sent[L].conn \in Nat
      <4>1. sent[L].conn \in Conns
        BY <1>3 DEF Packets
      <4>2. \A c \in Conns : c \in Nat
        BY Settings
      <4> QED
        BY <4>1, <4>2
    <3> HIDE DEF k
    <3>4. k # 0 /\ k # 1 /\ k # 2
      BY <3>1
    <3>5. PacketByte(k) = IF k = 3 THEN sent[L].conn ELSE IF k = 4 THEN (IF sent[L].more THEN MORE ELSE 0)
                          ELSE PayloadByte(Len(sent))
      BY <1>1, <3>4 DEF PacketByte, Packet
    <3> QED
      BY <3>2, <3>3, <3>5 DEF MORE, k
  <2> QED
    BY <2>1, <2>2
<1>12. /\ wpc \in {"header", "copy"} /\ w + g <= Sz(L)
       /\ \/ wpc' = "copy" /\ 3 <= w + g /\ w + g < Sz(L)
          \/ wpc' = "wake" /\ w + g = Sz(L)
  BY <1>2, <1>5, <1>7 DEF x
<1> QED
  BY <1>1, <1>5, <1>6, <1>9, <1>10, <1>11, <1>12, PublishMoves

LEMMA WakeUpMoves ==
    ASSUME RxTypes, NEW f, Inv(f), WakeUp
    PROVE  RxTypes' /\ Inv(f)'
<1>1. /\ wpc = "wake" /\ wpc' = "idle" /\ wk' = 0
      /\ rpc' = rpc \/ (rpc = "asleep" /\ rpc' = "wait")
      /\ data' = data /\ pread' = pread /\ pwrite' = pwrite /\ sent' = sent /\ r' = r
      /\ ubuf' = ubuf /\ disposed' = disposed /\ early' = early
  BY DEF WakeUp, ring, user
<1>2. RxTypes'
  BY <1>1 DEF RxTypes, ReadPlaces
<1>3. \A n : Whole(n) /\ Whole(n)' /\ Sz(n)' = Sz(n)
  BY <1>1 DEF Whole, Sz
<1>4. \A n : Shown(n)' = Shown(n)
  BY <1>3 DEF Shown
<1>5. \A i : Off(i)' = Off(i)
  BY <1>1 DEF Off
<1>6. Line(f)'
  BY <1>1, <1>3, <1>4, <1>5 DEF Inv, Line
<1>7. Contents(f)' /\ Gone(f)'
  BY <1>1, <1>3, <1>4 DEF Inv, Contents, Gone, PacketOf
<1>8. Looking(f)'
  BY <1>1, <1>3, <1>5 DEF Inv, Looking, Start
<1>9. Holding(f)'
  BY <1>1, <1>4 DEF Inv, Holding
<1>10. Using(f)'
  BY <1>1, <1>3, <1>5 DEF Inv, Using
<1> QED
  BY <1>2, <1>6, <1>7, <1>8, <1>9, <1>10 DEF Inv

---------------------------------------------------------------------------
LEMMA RxInitially == RxInit => RxIInv
<1> SUFFICES ASSUME RxInit PROVE RxIInv
  OBVIOUS
<1> USE DEF RxInit
<1>1. sent \in Seq(Packets) /\ Len(sent) = 0 /\ ubuf \in Seq(Nat) /\ Len(ubuf) = 0 /\ Size \in Nat /\ 0 \in 0 .. Size - 1
  BY Settings
<1>2. r \in Reads /\ r.pktlen = 2 /\ r.dispose = NONE
  BY Settings DEF NoRead, Reads, NONE
<1>3. RxTypes
  BY <1>1, <1>2 DEF RxTypes, ReadPlaces
<1>4. Line(1)
  BY <1>1 DEF Line
<1>5. Contents(1) /\ Gone(1)
  BY <1>1 DEF Contents, Gone
<1>6. Looking(1) /\ Holding(1) /\ Using(1)
  BY <1>2 DEF Looking, Holding, Using
<1> QED
  BY <1>1, <1>3, <1>4, <1>5, <1>6 DEF RxIInv, Inv

LEMMA RxStep == RxIInv /\ [RxNext]_rxvars => RxIInv'
<1> SUFFICES ASSUME RxIInv, [RxNext]_rxvars PROVE RxIInv'
  OBVIOUS
<1>1. RxTypes
  BY DEF RxIInv
<1>2. PICK f \in 1 .. Len(sent) + 1 : Inv(f)
  BY DEF RxIInv
<1>3. ASSUME RxTypes', Inv(f)' PROVE RxIInv'
  BY <1>3 DEF RxIInv, Inv, Line
<1>4. CASE \E c \in Conns, more \in BOOLEAN, len \in Lens : ReadFragment(c, more, len)
  <2>1. PICK L : L = Len(sent)
    OBVIOUS
  <2> QED
    BY <1>1, <1>2, <1>3, <1>4, <2>1, ReadFragmentMoves
<1>5. CASE WriterStep
  BY <1>1, <1>2, <1>3, <1>5, WriteByteMoves, PktWriteMoves, WakeUpMoves DEF WriterStep
<1>6. CASE \E n \in Counts : ReadCall(n)
  BY <1>1, <1>2, <1>3, <1>6, ReadCallMoves
<1>7. CASE Clean
  <2>1. RxTypes' /\ IF CanClean THEN Inv(f + 1)' ELSE Inv(f)'
    BY <1>1, <1>2, <1>7, CleanMoves
  <2>2. \A g : Inv(g)' => g \in 1 .. Len(sent)' + 1
    BY DEF Inv, Line
  <2> QED
    BY <2>1, <2>2 DEF RxIInv
<1>8. CASE ReaderStep
  BY <1>1, <1>2, <1>3, <1>7, <1>8, ConditionMoves, ConditionFailsMoves, WaitMoves, WalkMoves,
     FragmentMoves, DisposeMoves, LoopMoves DEF ReaderStep
<1>9. CASE Signal \/ CopyFault
  BY <1>1, <1>2, <1>3, <1>9, SignalMoves
<1>10. CASE UNCHANGED rxvars
  <2>1. RxTypes'
    BY <1>1, <1>10 DEF rxvars, ring, writer, reader, user, RxTypes
  <2>2. Inv(f)'
    BY <1>2, <1>10 DEF rxvars, ring, writer, reader, user, Inv, Line, Contents, Gone, Looking, Holding, Using,
                       Off, Sz, Shown, Whole, PacketOf, Start
  <2> QED
    BY <1>3, <2>1, <2>2
<1> QED
  BY <1>4, <1>5, <1>6, <1>8, <1>9, <1>10 DEF RxNext

LEMMA RxImplies == RxIInv => PacketsIntact
<1> SUFFICES ASSUME RxIInv PROVE PacketsIntact
  OBVIOUS
<1>1. RxTypes
  BY DEF RxIInv
<1>2. PICK f \in 1 .. Len(sent) + 1 : Inv(f)
  BY DEF RxIInv
<1>3. RxTypeOK
  <2>1. r.idx \in -1 .. Size - 1 /\ r.dispose \in -1 .. Size - 1
    BY <1>1 DEF RxTypes, Reads
  <2> QED
    BY <1>1, <2>1 DEF RxTypes, RxTypeOK, ReadPlaces
<1>4. ASSUME NEW n \in Live
      PROVE  LET i == sent[n].at
             IN  /\ LenAt(i) = sent[n].len /\ StatusAt(i) = PKT_READY
                 /\ ByteAt(i, 0) = sent[n].conn
                 /\ ByteAt(i, 1) = IF sent[n].more THEN MORE ELSE 0
                 /\ \A k \in 2 .. sent[n].len - 1 : ByteAt(i, k) = PayloadByte(n)
  <2>1. n \in 1 .. Len(sent) /\ n \notin disposed /\ Len(sent) \in Nat
    BY <1>1 DEF Live, RxTypes
  <2>2. n \in f .. Len(sent)
    BY <1>2, <2>1 DEF Inv, Gone
  <2>3. Whole(n)
    BY <2>1 DEF Live, Whole
  <2>4. Shown(n) = Sz(n) /\ Sz(n) \in 5 .. LinkBufSize + 3 /\ Sz(n) = sent[n].len + 3
        /\ sent[n].len \in 2 .. LinkBufSize /\ sent[n].at \in 0 .. Size - 1
    BY <1>1, <2>1, <2>3, Sizes DEF Shown, Sz, PKTHDRSIZE
  <2>5. Shown(n) >= 3
    BY <2>4, Settings
  <2>6. LenAt(sent[n].at) = sent[n].len /\ StatusAt(sent[n].at) = PKT_READY
    BY <1>1, <1>2, <2>1, <2>2, <2>5, HeaderIs DEF Inv
  <2>7. \A k \in 0 .. sent[n].len - 1 : ByteAt(sent[n].at, k) = PacketOf(n, 3 + k)
    <3> SUFFICES ASSUME NEW k \in 0 .. sent[n].len - 1 PROVE ByteAt(sent[n].at, k) = PacketOf(n, 3 + k)
      OBVIOUS
    <3> DEFINE l == sent[n].len
               i == sent[n].at
    <3>3. Shown(n) = l + 3 /\ i \in 0 .. Size - 1 /\ l \in 2 .. LinkBufSize /\ k \in 0 .. l - 1
      BY <2>4
    <3> HIDE DEF l, i
    <3>1. 3 + k \in 0 .. Shown(n) - 1 /\ i + 3 + k = i + (3 + k)
      BY ONLY <3>3, Settings
    <3> USE DEF l, i
    <3>2. data[(sent[n].at + (3 + k)) % Size] = PacketOf(n, 3 + k)
      BY <1>2, <2>2, <3>1 DEF Inv, Contents
    <3> QED
      BY <3>1, <3>2 DEF ByteAt, PKTHDRSIZE
  <2>8. 0 \in 0 .. sent[n].len - 1 /\ 1 \in 0 .. sent[n].len - 1
    BY <2>4, Settings, SMTT(30)
  <2>9. PacketOf(n, 3 + 0) = sent[n].conn /\ PacketOf(n, 3 + 1) = IF sent[n].more THEN MORE ELSE 0
    BY DEF PacketOf
  <2>10. \A k \in 2 .. sent[n].len - 1 : k \in 0 .. sent[n].len - 1 /\ PacketOf(n, 3 + k) = PayloadByte(n)
    <3> SUFFICES ASSUME NEW k \in 2 .. sent[n].len - 1
                 PROVE  k \in 0 .. sent[n].len - 1 /\ PacketOf(n, 3 + k) = PayloadByte(n)
      OBVIOUS
    <3> DEFINE l == sent[n].len
    <3>2. l \in 2 .. LinkBufSize /\ k \in 2 .. l - 1
      BY <2>4
    <3> HIDE DEF l
    <3>1. 3 + k # 0 /\ 3 + k # 1 /\ 3 + k # 2 /\ 3 + k # 3 /\ 3 + k # 4 /\ k \in 0 .. l - 1
      BY ONLY <3>2, Settings
    <3> USE DEF l
    <3> QED
      BY <3>1 DEF PacketOf
  <2> QED
    BY <2>6, <2>7, <2>8, <2>9, <2>10
<1> QED
  BY <1>3, <1>4 DEF PacketsIntact

(* The ring of a slot, for every size of it and every traffic: a packet    *)
(* that the thread has written is there, header and payload, until a read  *)
(* disposes of it, whatever the reader gives back in the meantime, also    *)
(* after the positions have gone around (dvb_ringbuffer_pkt_write,         *)
(* _pkt_next and _pkt_dispose, as dvb_ca_en50221_read_data and _io_read    *)
(* call them), and also when the longest fragments fill the ring to its    *)
(* last byte.                                                              *)
THEOREM PacketsAreIntact == RxSpec => []PacketsIntact
<1>1. RxInit => RxIInv
  BY RxInitially
<1>2. RxIInv /\ [RxNext]_rxvars => RxIInv'
  BY RxStep
<1>3. RxIInv => PacketsIntact
  BY RxImplies
<1> QED
  BY <1>1, <1>2, <1>3, PTL DEF RxSpec

---------------------------------------------------------------------------
(* The reader (CaRxBuffer)                                                 *)

(* What the read in progress has taken and the packets that wait for one;  *)
(* the connection of the first that waits; and that those of the read's    *)
(* connection before b are what it has taken.                              *)
Taken == ToSet(got)
Queue == {m \in 1 .. Len(sent) : m \notin disposed \/ m \in Taken}
Leads(c) == \E o \in Queue : sent[o].conn = c /\ \A m \in Queue : o <= m
Passed(b) == \A m \in Queue : (m < b /\ r.conn \in {NONE, sent[m].conn}) <=> m \in Taken

(* A read begins with nothing.                                             *)
Fresh ==
    /\ rpc \in {"idle", "cond", "wait", "asleep", "walk"} => got = <<>> /\ r.last = FALSE
    /\ rpc \in {"idle", "wait", "asleep", "walk"} => r.conn = NONE

(* What it has taken is disposed of, but the last one perhaps.             *)
Members ==
    /\ got \in Seq(Nat) /\ Taken \subseteq 1 .. Len(sent)
    /\ \A j, k \in DOMAIN got : j < k => got[j] < got[k]
    /\ r.dispose = NONE => Taken \subseteq disposed
    /\ r.dispose # NONE =>
         \E m \in Taken : r.dispose = sent[m].at /\ m \notin disposed /\ Taken \ {m} \subseteq disposed

(* A read that went early disposes of nothing.                             *)
Blind == early =>
    /\ rpc \notin {"clean", "loop"}
    /\ rpc \notin {"next", "dispose"} => got = <<>>

(* How far pkt_next is, unless the read has its last fragment.             *)
Way(f) == ~early /\ ~r.last /\ rpc \in {"cond", "walk", "next"} =>
    /\ r.consumed <= Off(r.idx) + Wrap
    /\ \E b \in f .. Len(sent) + 1 :
         r.idx = Start(f, b) /\ (Passed(b) \/ (rpc = "cond" /\ r.conn # NONE))
Stands == ~early /\ ~r.last /\ rpc \in {"frag", "dispose", "clean", "loop"} /\ r.idx # NONE =>
    \E n \in 1 .. Len(sent) : n \notin disposed /\ r.idx = sent[n].at /\ Passed(n)

(* What is taken belongs to one message, of the first connection; at the   *)
(* end it is the message.                                                  *)
Joins == ~early =>
    /\ r.conn # NONE => Leads(r.conn)
    /\ \A m \in Taken : sent[m].conn = r.conn
    /\ rpc = "frag" => ~r.last
    /\ r.last => \E z \in Taken :
         /\ ~sent[z].more /\ \A m \in Taken : m < z => sent[m].more
         /\ Taken = {m \in Queue : m <= z /\ sent[m].conn = r.conn}
    /\ ~r.last => \A m \in Taken : sent[m].more

(* Before it has the end, the end lies before it.                          *)
Ahead == ~early /\ ~r.last /\ rpc \in {"walk", "frag", "next", "dispose", "clean", "loop"} =>
    /\ r.idx # NONE
    /\ \E e \in Queue : /\ Shown(e) >= 5 /\ ~sent[e].more /\ Leads(sent[e].conn)
                        /\ r.conn \in {NONE, sent[e].conn}

Reading(f) == Fresh /\ Members /\ Blind /\ Way(f) /\ Stands /\ Joins /\ Ahead
RxJInv == RxTypes /\ \E f \in 1 .. Len(sent) + 1 : Inv(f) /\ Reading(f)

---------------------------------------------------------------------------
LEMMA InLine ==
    ASSUME RxTypes, NEW f, Inv(f), NEW n \in 1 .. Len(sent), n \notin disposed
    PROVE  n \in f .. Len(sent) /\ f \in 1 .. Len(sent) /\ Len(sent) \in Nat
<1>1. Len(sent) \in Nat /\ f \in 1 .. Len(sent) + 1
  BY DEF RxTypes, Inv, Line
<1>2. n \notin 1 .. f - 1
  BY DEF Inv, Gone
<1> QED
  BY <1>1, <1>2

LEMMA StartOnce ==
    ASSUME RxTypes, NEW f, Inv(f), NEW b \in f .. Len(sent) + 1, NEW d \in f .. Len(sent) + 1,
           Start(f, b) = Start(f, d)
    PROVE  b = d
<1>1. Len(sent) \in Nat /\ f \in 1 .. Len(sent) + 1
  BY DEF RxTypes, Inv, Line
<1>2. ASSUME NEW x \in f .. Len(sent) + 1, NEW y \in f .. Len(sent) + 1, x < y
      PROVE  Start(f, x) # Start(f, y)
  <2>1. x \in f .. Len(sent) /\ x \in 1 .. Len(sent) /\ f <= Len(sent) /\ x <= Len(sent)
    BY <1>1, <1>2
  <2>2. /\ Off(Start(f, x)) = Off(sent[x].at) /\ Off(sent[x].at) \in 0 .. Size - 1
        /\ Sz(x) \in 5 .. LinkBufSize + 3
    BY <2>1, StartIs, Sizes DEF Inv
  <2>3. CASE y <= Len(sent)
    <3>1. y \in f .. Len(sent)
      BY <1>1, <2>3
    <3>2. Off(Start(f, y)) = Off(sent[y].at) /\ Off(sent[x].at) + Sz(x) <= Off(sent[y].at)
      BY <1>2, <2>1, <2>3, <3>1, StartIs DEF Inv, Line
    <3> QED
      BY <2>2, <3>2, Settings
  <2>4. CASE y > Len(sent)
    <3>1. Len(sent) \in f .. Len(sent) /\ Len(sent) \in 1 .. Len(sent)
      BY <1>1, <2>1
    <3>2. Off(Start(f, y)) = Off(sent[Len(sent)].at) + Sz(Len(sent))
      BY <2>1, <2>4, StartIs DEF Inv
    <3>3. Sz(Len(sent)) \in 5 .. LinkBufSize + 3 /\ Off(sent[Len(sent)].at) \in 0 .. Size - 1
      BY <3>1, Sizes
    <3>4. x < Len(sent) => Off(sent[x].at) + Sz(x) <= Off(sent[Len(sent)].at)
      BY <2>1, <3>1 DEF Inv, Line
    <3>5. x = Len(sent) \/ x < Len(sent)
      BY <2>1, <1>1
    <3> QED
      BY <2>2, <3>2, <3>3, <3>4, <3>5, Settings, SMTT(30)
  <2> QED
    BY <1>1, <2>3, <2>4
<1> QED
  BY <1>1, <1>2

LEMMA SentOnce ==
    ASSUME RxTypes, NEW f, Inv(f), NEW n \in f .. Len(sent), NEW m \in f .. Len(sent),
           sent[n].at = sent[m].at
    PROVE  n = m
<1>1. Len(sent) \in Nat /\ f \in 1 .. Len(sent) + 1
  BY DEF RxTypes, Inv, Line
<1>2. n \in f .. Len(sent) + 1 /\ m \in f .. Len(sent) + 1 /\ Start(f, n) = Start(f, m)
  BY <1>1 DEF Start
<1> QED
  BY <1>2, StartOnce

(* The connection and the flag, once they are published.                   *)
LEMMA FlagBytes ==
    ASSUME RxTypes, NEW f, Inv(f), NEW n \in f .. Len(sent), Shown(n) >= 5
    PROVE  /\ ByteAt(sent[n].at, 0) = sent[n].conn
           /\ ByteAt(sent[n].at, 1) < MORE <=> ~sent[n].more
           /\ sent[n].conn \in Int /\ sent[n].conn # NONE
<1>1. n \in 1 .. Len(sent) /\ Shown(n) \in 0 .. Sz(n)
  BY Fits DEF Inv
<1>2. sent[n] \in Packets /\ Sz(n) \in 5 .. LinkBufSize + 3 /\ sent[n].at \in 0 .. Size - 1
  BY <1>1, Sizes
<1>3. 3 \in 0 .. Shown(n) - 1 /\ 4 \in 0 .. Shown(n) - 1
  BY <1>1, <1>2, Settings
<1>4. data[(sent[n].at + 3) % Size] = PacketOf(n, 3) /\ data[(sent[n].at + 4) % Size] = PacketOf(n, 4)
  BY <1>3 DEF Inv, Contents
<1>5. sent[n].at + 3 + 0 = sent[n].at + 3 /\ sent[n].at + 3 + 1 = sent[n].at + 4
  BY <1>2
<1>6. ByteAt(sent[n].at, 0) = sent[n].conn /\ ByteAt(sent[n].at, 1) = IF sent[n].more THEN MORE ELSE 0
  BY <1>4, <1>5 DEF ByteAt, PKTHDRSIZE, PacketOf
<1>7. sent[n].conn \in Conns /\ sent[n].more \in BOOLEAN
  BY <1>2 DEF Packets
<1>8. \A c \in Conns : c \in Int /\ c # NONE
  BY Settings DEF NONE
<1> QED
  BY <1>6, <1>7, <1>8 DEF MORE

(* pkt_next does not stop before a packet that shows its flag.             *)
LEMMA NotTheEnd ==
    ASSUME RxTypes, NEW f, Inv(f), NEW e \in f .. Len(sent), Shown(e) >= 5,
           NEW b \in f .. Len(sent) + 1, b <= e, NEW c \in Int, c <= Off(Start(f, b)) + Wrap
    PROVE  avail - c > PKTHDRSIZE
<1>1. /\ Len(sent) \in Nat /\ f \in 1 .. Len(sent) /\ e \in 1 .. Len(sent) /\ Shown(e) \in 0 .. Sz(e)
      /\ Off(sent[e].at) + Shown(e) <= Off(pwrite)
  BY Fits DEF Inv
<1>2. b \in f .. Len(sent) /\ b \in 1 .. Len(sent) /\ b <= Len(sent)
  BY <1>1
<1>3. /\ Off(sent[e].at) \in 0 .. Size - 1 /\ Sz(e) \in 5 .. LinkBufSize + 3
      /\ Off(sent[b].at) \in 0 .. Size - 1 /\ Sz(b) \in 5 .. LinkBufSize + 3
  BY <1>1, <1>2, Sizes
<1>4. Off(Start(f, b)) = Off(sent[b].at)
  BY <1>2, StartIs DEF Inv
<1>5. b < e => Off(sent[b].at) + Sz(b) <= Off(sent[e].at)
  BY <1>2 DEF Inv, Line
<1>6. b = e \/ b < e
  BY <1>1, <1>2
<1>7. avail = Off(pwrite) /\ Off(pwrite) \in 0 .. Size - 1
  BY AvailIs
<1> DEFINE x == Off(sent[b].at)
           y == Off(sent[e].at)
           z == Sz(b)
           u == Shown(e)
           w == Off(pwrite)
           s == Sz(e)
<1>8. /\ x \in 0 .. Size - 1 /\ y \in 0 .. Size - 1 /\ z \in 5 .. LinkBufSize + 3 /\ u \in 0 .. s /\ u >= 5
      /\ s \in 5 .. LinkBufSize + 3 /\ w \in 0 .. Size - 1 /\ y + u <= w /\ c <= x + Wrap /\ avail = w
      /\ (b = e => x = y) /\ (b < e => x + z <= y)
  BY <1>1, <1>3, <1>4, <1>5, <1>7
<1> HIDE DEF x, y, z, u, w, s
<1>9. x <= y
  BY ONLY <1>6, <1>8, Settings
<1>10. w - c > 3
  BY ONLY <1>8, <1>9, c \in Int, Settings
<1> QED
  BY <1>8, <1>10 DEF PKTHDRSIZE

LEMMA StartsNear ==
    ASSUME RxTypes, NEW f, Inv(f), NEW b \in f .. Len(sent) + 1
    PROVE  Distance(Start(f, b)) <= Off(Start(f, b)) + Wrap
BY StartIs, DistanceIs DEF Inv

(* What the reader's steps that leave the ring alone do not change.        *)
LEMMA ReaderFrame ==
    ASSUME UNCHANGED <<ring, writer, disposed, got>>
    PROVE  /\ Taken' = Taken /\ Queue' = Queue /\ \A c : Leads(c) => Leads(c)'
           /\ \A n : Shown(n)' = Shown(n)
           /\ \A i : Off(i)' = Off(i)
           /\ \A f, b : Start(f, b)' = Start(f, b)
           /\ sent' = sent /\ disposed' = disposed
<1>1. /\ pread' = pread /\ pwrite' = pwrite /\ sent' = sent /\ wpc' = wpc /\ wk' = wk
      /\ disposed' = disposed /\ got' = got
  BY DEF ring, writer
<1>2. Taken' = Taken
  BY <1>1 DEF Taken
<1>3. Queue' = Queue
  BY <1>1, <1>2 DEF Queue
<1>4. \A c : Leads(c) => Leads(c)'
  BY <1>1, <1>3 DEF Leads
<1>5. \A n : Shown(n)' = Shown(n)
  BY <1>1 DEF Shown, Whole, Sz
<1>6. \A i : Off(i)' = Off(i)
  BY <1>1 DEF Off
<1>7. \A f, b : Start(f, b)' = Start(f, b)
  BY <1>1 DEF Start, Sz
<1> QED
  BY <1>1, <1>2, <1>3, <1>4, <1>5, <1>6, <1>7

LEMMA NothingTaken ==
    ASSUME got = <<>>
    PROVE  Taken = {} /\ \A m \in Queue : m \notin disposed
BY DEF Taken, ToSet, Queue

(* A read that is over.                                                    *)
LEMMA ReturnReads ==
    ASSUME RxTypes, NEW f, Return
    PROVE  Reading(f)'
<1>1. rpc' = "idle" /\ r' = NoRead /\ got' = <<>>
  BY DEF Return
<1>2. r'.conn = NONE /\ r'.dispose = NONE /\ r'.last = FALSE
  BY <1>1 DEF NoRead
<1>3. Taken' = {}
  BY <1>1 DEF Taken, ToSet
<1>4. Fresh' /\ Blind' /\ Way(f)' /\ Stands' /\ Ahead'
  BY <1>1, <1>2 DEF Fresh, Blind, Way, Stands, Ahead
<1>5. Members'
  BY <1>1, <1>2, <1>3 DEF Members
<1>6. Joins'
  BY <1>1, <1>2, <1>3 DEF Joins
<1> QED
  BY <1>4, <1>5, <1>6 DEF Reading

(* pkt_next from the first packet, with nothing taken.                     *)
LEMMA FromFirst ==
    ASSUME RxTypes, NEW f, Inv(f), NEW rd, got = <<>>
    PROVE  LET q == PktNext(rd, pread)
           IN  /\ q.consumed <= Off(q.idx) + Wrap /\ q.idx = Start(f, f) /\ f \in f .. Len(sent) + 1
               /\ \A m \in Queue : ~(m < f) /\ m \notin Taken
<1>1. f \in f .. Len(sent) + 1 /\ Start(f, f) = pread /\ Len(sent) \in Nat /\ f \in 1 .. Len(sent) + 1
  BY DEF RxTypes, Inv, Line, Start
<1>2. Distance(pread) <= Off(pread) + Wrap
  BY <1>1, StartsNear
<1>3. \A m \in Queue : ~(m < f) /\ m \notin Taken
  <2> SUFFICES ASSUME NEW m \in Queue, m < f PROVE FALSE
    BY NothingTaken
  <2>1. m \in 1 .. f - 1
    BY <1>1 DEF Queue
  <2> QED
    BY <2>1, NothingTaken DEF Inv, Gone
<1> QED
  BY <1>1, <1>2, <1>3 DEF PktNext

LEMMA ReadCallReads ==
    ASSUME RxTypes, NEW f, Inv(f), Reading(f), NEW n \in Counts, ReadCall(n)
    PROVE  Reading(f)'
<1> DEFINE rd == [NoRead EXCEPT !.count = n]
<1>1. /\ r' = PktNext(rd, pread) /\ rpc' = "cond" /\ got' = got /\ UNCHANGED <<ring, writer, disposed>>
      /\ rpc = "idle" /\ ~early /\ early' = early
  BY DEF ReadCall, user
<1>2. got = <<>>
  BY <1>1 DEF Reading, Fresh
<1>3. r'.conn = NONE /\ r'.last = FALSE /\ r'.dispose = NONE
  BY <1>1 DEF PktNext, NoRead
<1>4. /\ Taken' = Taken /\ Queue' = Queue /\ \A i : Off(i)' = Off(i)
      /\ \A g, b : Start(g, b)' = Start(g, b) /\ sent' = sent
  BY <1>1, ReaderFrame
<1>5. /\ r'.consumed <= Off(r'.idx) + Wrap /\ r'.idx = Start(f, f) /\ f \in f .. Len(sent) + 1
      /\ \A m \in Queue : ~(m < f) /\ m \notin Taken
  BY <1>1, <1>2, FromFirst
<1>6. Fresh' /\ Blind' /\ Stands' /\ Ahead'
  BY <1>1, <1>2, <1>3 DEF Fresh, Blind, Stands, Ahead
<1>7. Taken = {} /\ got' = got
  BY <1>1, <1>2, NothingTaken
<1>8. Members'
  BY <1>1, <1>3, <1>4, <1>7 DEF Reading, Members
<1>9. Joins'
  BY <1>1, <1>3, <1>4, <1>7 DEF Joins
<1>10. Passed(f)'
  BY <1>4, <1>5 DEF Passed
<1>11. Way(f)'
  BY <1>1, <1>4, <1>5, <1>10 DEF Way
<1> QED
  BY <1>6, <1>8, <1>9, <1>11 DEF Reading

LEMMA WaitReads ==
    ASSUME RxTypes, NEW f, Inv(f), Reading(f), Wait
    PROVE  Reading(f)'
<1>1. /\ r' = PktNext(r, pread) /\ rpc' = "cond" /\ got' = got /\ UNCHANGED <<ring, writer, disposed>>
      /\ rpc = "wait" /\ early' = early
  BY DEF Wait, user
<1>2. got = <<>> /\ r.conn = NONE /\ r.last = FALSE /\ r.dispose = NONE
  BY <1>1, NothingUsed DEF Reading, Fresh
<1>3. r'.conn = NONE /\ r'.last = FALSE /\ r'.dispose = NONE
  BY <1>1, <1>2 DEF PktNext, RxTypes, Reads
<1>4. /\ Taken' = Taken /\ Queue' = Queue /\ \A i : Off(i)' = Off(i)
      /\ \A g, b : Start(g, b)' = Start(g, b) /\ sent' = sent
  BY <1>1, ReaderFrame
<1>5. /\ r'.consumed <= Off(r'.idx) + Wrap /\ r'.idx = Start(f, f) /\ f \in f .. Len(sent) + 1
      /\ \A m \in Queue : ~(m < f) /\ m \notin Taken
  BY <1>1, <1>2, FromFirst
<1>6. Fresh' /\ Blind' /\ Stands' /\ Ahead'
  BY <1>1, <1>2, <1>3 DEF Fresh, Blind, Stands, Ahead
<1>7. Taken = {} /\ got' = got
  BY <1>1, <1>2, NothingTaken
<1>8. Members'
  BY <1>1, <1>3, <1>4, <1>7 DEF Reading, Members
<1>9. Joins'
  BY <1>1, <1>3, <1>4, <1>7 DEF Joins
<1>10. Passed(f)'
  BY <1>4, <1>5 DEF Passed
<1>11. Way(f)'
  BY <1>1, <1>4, <1>5, <1>10 DEF Way
<1> QED
  BY <1>6, <1>8, <1>9, <1>11 DEF Reading

LEMMA ConditionFailsReads ==
    ASSUME RxTypes, NEW f, Inv(f), Reading(f), ConditionFails
    PROVE  Reading(f)'
<1>1. CASE Return
  BY <1>1, ReturnReads
<1>2. CASE ~Return
  <2>1. /\ r' = [r EXCEPT !.conn = NONE] /\ rpc' \in {"wait", "asleep"} /\ got' = got /\ rpc = "cond"
        /\ UNCHANGED <<ring, writer, disposed>>
    BY <1>2 DEF ConditionFails, user
  <2>2. got = <<>> /\ r.last = FALSE /\ r.dispose = NONE /\ r \in Reads
    BY <2>1, NothingUsed DEF Reading, Fresh, RxTypes
  <2>3. r'.conn = NONE /\ r'.last = FALSE /\ r'.dispose = NONE
    BY <2>1, <2>2 DEF Reads
  <2>4. Taken' = Taken /\ sent' = sent /\ Taken = {}
    BY <2>1, <2>2, ReaderFrame, NothingTaken
  <2>5. Fresh' /\ Blind' /\ Stands' /\ Ahead' /\ Way(f)'
    BY <2>1, <2>2, <2>3 DEF Fresh, Blind, Stands, Ahead, Way
  <2>6. Members'
    BY <2>1, <2>3, <2>4 DEF Reading, Members
  <2>7. Joins'
    BY <2>1, <2>3, <2>4 DEF Joins
  <2> QED
    BY <2>5, <2>6, <2>7 DEF Reading
<1> QED
  BY <1>1, <1>2

(* Where a read that has not gone wrong finds something it is a packet.    *)
LEMMA SeesPacket ==
    ASSUME RxTypes, NEW f, Inv(f), rpc \in {"cond", "walk", "next"}, AnyMore,
           ~early, rpc = "next" => ~r.last, Blank => rpc = "walk"
    PROVE  ~Adrift(rpc, r.last, early) /\ r.consumed >= Off(r.idx)
<1>1. ~Adrift(rpc, r.last, early)
  BY DEF Adrift
<1> QED
  BY <1>1, BlankIs

(* A round of pkt_next's loop passes a packet that was disposed of.        *)
LEMMA PassReads ==
    ASSUME RxTypes, NEW f, Inv(f), Reading(f), rpc \in {"cond", "walk", "next"}, Pass,
           UNCHANGED <<ring, writer, user, disposed>>, rpc' = rpc, early => early',
           Blank /\ rpc # "walk" /\ ~r.last => early'
    PROVE  Reading(f)'
<1>1. r.idx # NONE /\ r.idx \in 0 .. Size - 1
  BY Settings DEF Inv, Looking, RxTypes, Reads, NONE
<1>2. r \in Reads /\ got' = got /\ UNCHANGED <<ring, writer, disposed>>
  BY DEF RxTypes, user
<1> DEFINE i == After(r.idx)
           l == LenAt(r.idx)
           c == r.consumed + l + PKTHDRSIZE
<1>3. r' = [r EXCEPT !.idx = i, !.consumed = c]
  BY DEF Pass
<1> HIDE DEF i, l, c
<1>7. /\ r'.idx = i /\ r'.consumed = c /\ r'.conn = r.conn /\ r'.last = r.last
      /\ r'.dispose = r.dispose
  BY <1>2, <1>3 DEF Reads
<1>8. /\ Taken' = Taken /\ Queue' = Queue /\ \A x : Leads(x) => Leads(x)'
      /\ \A n : Shown(n)' = Shown(n) /\ \A x : Off(x)' = Off(x)
      /\ \A g, x : Start(g, x)' = Start(g, x) /\ sent' = sent /\ disposed' = disposed
  BY <1>2, ReaderFrame
<1>12. Way(f)'
  <2> SUFFICES ASSUME ~early', ~r.last
               PROVE  /\ c <= Off(i) + Wrap
                      /\ \E d \in f .. Len(sent) + 1 :
                           i = Start(f, d) /\ (Passed(d)' \/ (rpc = "cond" /\ r.conn # NONE))
    BY <1>2, <1>7, <1>8 DEF Way
  <2>1. ~Adrift(rpc, r.last, early) /\ r.consumed >= Off(r.idx) /\ ~early
    BY SeesPacket DEF Pass
  <2>2. PICK b \in f .. Len(sent) :
             /\ r.idx = sent[b].at /\ LenAt(r.idx) = sent[b].len
             /\ StatusAt(r.idx) = IF b \in disposed THEN PKT_DISPOSED ELSE PKT_READY
             /\ After(r.idx) = Start(f, b + 1) /\ b + 1 \in f .. Len(sent) + 1
             /\ Off(After(r.idx)) = Off(r.idx) + sent[b].len + PKTHDRSIZE
             /\ sent[b].len \in 2 .. LinkBufSize /\ Off(r.idx) \in 0 .. Size - 1
    BY <2>1, LooksAtPacket DEF Pass
  <2>3. c <= Off(i) + Wrap
    <3> DEFINE o == Off(r.idx)
               u == Off(i)
               v == r.consumed
    <3>1. l \in 2 .. LinkBufSize /\ u = o + l + 3 /\ c = v + l + 3
      BY <2>2 DEF i, l, c, PKTHDRSIZE
    <3>2. v \in Int /\ v <= o + Wrap /\ o \in 0 .. Size - 1
      BY <1>2, <2>1, <2>2 DEF Reads, Reading, Way
    <3> HIDE DEF o, u, v
    <3>3. c <= u + Wrap
      BY ONLY <3>1, <3>2, Settings
    <3> QED
      BY <3>3 DEF u
  <2>4. b \in disposed
    BY <2>2 DEF Pass
  <2>5. \A d \in f .. Len(sent) + 1 : r.idx = Start(f, d) => d = b
    <3>1. b \in f .. Len(sent) + 1 /\ Start(f, b) = r.idx
      BY <2>2, Fits DEF Start, Inv
    <3> QED
      BY <3>1, StartOnce
  <2>6. \A m \in Taken : r.conn \in {NONE, sent[m].conn}
    BY <2>1 DEF Reading, Joins
  <2>7. ASSUME Passed(b) PROVE Passed(b + 1)'
    <3> SUFFICES ASSUME NEW m \in Queue
                 PROVE  (m < b + 1 /\ r.conn \in {NONE, sent[m].conn}) <=> m \in Taken
      BY <1>7, <1>8 DEF Passed
    <3>1. m \in 1 .. Len(sent) /\ Len(sent) \in Nat /\ b \in Int /\ m \in Int
      BY DEF Queue, RxTypes
    <3>2. CASE m = b
      BY <2>4, <2>6, <3>1, <3>2 DEF Queue
    <3>3. CASE m # b
      BY <2>7, <3>1, <3>3 DEF Passed
    <3> QED
      BY <3>2, <3>3
  <2>8. Passed(b) \/ (rpc = "cond" /\ r.conn # NONE)
    BY <2>1, <2>5 DEF Reading, Way
  <2> QED
    BY <2>2, <2>3, <2>7, <2>8 DEF i
<1>13. i # NONE
  BY <1>1, AfterIs, Settings DEF NONE, i
<1>14. Fresh' /\ Blind' /\ Stands' /\ Members' /\ Joins'
  BY <1>2, <1>7, <1>8 DEF Reading, Fresh, Blind, Stands, Members, Joins
<1>15. Ahead'
  BY <1>7, <1>8, <1>13 DEF Reading, Ahead
<1> QED
  BY <1>12, <1>14, <1>15 DEF Reading

LEMMA ConditionReads ==
    ASSUME RxTypes, NEW f, Inv(f), Reading(f), Condition
    PROVE  Reading(f)'
<1>1. /\ UNCHANGED <<ring, writer, user, disposed>> /\ rpc = "cond" /\ got' = got
      /\ early' = (early \/ Blank \/ (Found /\ Short(r.idx, 2)))
  BY DEF Condition, user
<1>2. CASE Pass /\ rpc' = rpc
  BY <1>1, <1>2, PassReads
<1>3. CASE ~(Pass /\ rpc' = rpc) /\ early'
  <2>1. got = <<>> /\ r.last = FALSE /\ r.dispose = NONE /\ r \in Reads
    BY <1>1, NothingUsed DEF Reading, Fresh, RxTypes
  <2> DEFINE c == IF r.conn = NONE THEN ByteAt(r.idx, 0) ELSE r.conn
             first == [r EXCEPT !.conn = NONE]
             other == [r EXCEPT !.conn = c]
  <2>2. \/ r' = PktNext(first, pread) /\ rpc' = "walk"
        \/ r' = PktNext(other, After(r.idx)) /\ rpc' = "cond"
    BY <1>1, <1>3 DEF Condition
  <2>3. r'.last = FALSE /\ r'.dispose = NONE /\ (rpc' = "walk" => r'.conn = NONE)
    BY <2>1, <2>2 DEF PktNext, Reads
  <2>4. Taken' = Taken /\ sent' = sent /\ disposed' = disposed
    BY <1>1, ReaderFrame
  <2>5. Fresh' /\ Blind' /\ Way(f)' /\ Stands' /\ Joins' /\ Ahead'
    BY <1>1, <1>3, <2>1, <2>2, <2>3 DEF Fresh, Blind, Way, Stands, Joins, Ahead
  <2>6. Members'
    BY <1>1, <2>1, <2>3, <2>4 DEF Reading, Members
  <2> QED
    BY <2>5, <2>6 DEF Reading
<1>4. CASE ~(Pass /\ rpc' = rpc) /\ ~early'
  <2>0. Found /\ AnyMore /\ ~Adrift(rpc, r.last, early) /\ r.consumed >= Off(r.idx)
    <3>1. Found /\ AnyMore
      BY <1>4 DEF Condition, Found
    <3> QED
      BY <1>1, <1>4, <3>1, SeesPacket
  <2>1. PICK b \in f .. Len(sent) :
             /\ r.idx = sent[b].at /\ Shown(b) > 3
             /\ StatusAt(r.idx) = IF b \in disposed THEN PKT_DISPOSED ELSE PKT_READY
             /\ After(r.idx) = Start(f, b + 1) /\ b + 1 \in f .. Len(sent) + 1
    BY <1>1, <2>0, LooksAtPacket
  <2>2. b \notin disposed
    BY <2>0, <2>1 DEF Found, PKT_DISPOSED, PKT_READY
  <2>3. got = <<>> /\ r.last = FALSE /\ r.dispose = NONE /\ r \in Reads /\ Taken = {}
    BY <1>1, NothingUsed, NothingTaken DEF Reading, Fresh, RxTypes
  <2>4. b \in 1 .. Len(sent) /\ Len(sent) \in Nat /\ b \in Queue /\ Shown(b) \in 0 .. Sz(b)
        /\ Sz(b) \in 5 .. LinkBufSize + 3
    <3>1. b \in 1 .. Len(sent) /\ Len(sent) \in Nat /\ Shown(b) \in 0 .. Sz(b)
      BY Fits DEF Inv
    <3> QED
      BY <2>2, <3>1, Sizes DEF Queue
  <2> DEFINE c == IF r.conn = NONE THEN ByteAt(r.idx, 0) ELSE r.conn
             hit == ByteAt(r.idx, 0) = c /\ ByteAt(r.idx, 1) < MORE
             first == [r EXCEPT !.conn = NONE]
             other == [r EXCEPT !.conn = c]
  <2>5. ~early /\ ~Short(r.idx, 2)
    BY <1>1, <1>4, <2>0
  <2>6. \/ r' = PktNext(first, pread) /\ rpc' = "walk" /\ hit
        \/ r' = PktNext(other, Start(f, b + 1)) /\ rpc' = "cond"
    BY <1>1, <1>4, <2>1 DEF Condition
  <2>7. /\ Taken' = Taken /\ Queue' = Queue /\ \A x : Leads(x) => Leads(x)'
        /\ \A n : Shown(n)' = Shown(n) /\ \A x : Off(x)' = Off(x)
        /\ \A g, x : Start(g, x)' = Start(g, x) /\ sent' = sent /\ disposed' = disposed
    BY <1>1, ReaderFrame
  <2>8. r'.last = FALSE /\ r'.dispose = NONE
    BY <2>3, <2>6 DEF PktNext, Reads
  <2>9. Shown(b) >= 5
    <3>1. CASE Whole(b)
      BY <2>4, <3>1, Settings DEF Shown
    <3>2. CASE ~Whole(b)
      <4>1. b = Len(sent) /\ wpc \in {"header", "copy"} /\ Packet.at = r.idx
        BY <2>1, <2>4, <3>2 DEF Whole, RxTypes, Packet
      <4>2. ~(wk < PKTHDRSIZE + 2) /\ Shown(b) = wk /\ wk \in Nat
        BY <2>5, <3>2, <4>1 DEF Short, Shown, RxTypes
      <4> QED
        BY <4>2 DEF PKTHDRSIZE
    <3> QED
      BY <3>1, <3>2
  <2>10. /\ ByteAt(r.idx, 0) = sent[b].conn /\ (ByteAt(r.idx, 1) < MORE <=> ~sent[b].more)
         /\ sent[b].conn # NONE
    BY <2>1, <2>9, FlagBytes
  <2>11. c # NONE /\ Leads(c)
    <3>1. CASE r.conn # NONE
      BY <2>5, <3>1 DEF Reading, Joins
    <3>2. CASE r.conn = NONE
      <4>1. c = sent[b].conn /\ c # NONE
        BY <2>10, <3>2
      <4>2. PICK d \in f .. Len(sent) + 1 : r.idx = Start(f, d) /\ Passed(d)
        BY <1>1, <2>3, <2>5, <3>2 DEF Reading, Way
      <4>3. d = b
        <5>1. b \in f .. Len(sent) + 1 /\ Start(f, b) = r.idx
          BY <2>1, <2>4 DEF Start
        <5> QED
          BY <4>2, <5>1, StartOnce
      <4>4. \A m \in Queue : ~(m < b) /\ m \in 1 .. Len(sent)
        BY <2>3, <3>2, <4>2, <4>3 DEF Passed, Queue
      <4>5. \A m \in Queue : b <= m
        BY <2>4, <4>4
      <4> QED
        BY <2>4, <4>1, <4>5 DEF Leads
    <3> QED
      BY <3>1, <3>2
  <2> HIDE DEF c
  <2>12. CASE r' = PktNext(first, pread) /\ rpc' = "walk" /\ hit
    <3>1. /\ r'.consumed <= Off(r'.idx) + Wrap /\ r'.idx = Start(f, f) /\ f \in f .. Len(sent) + 1
          /\ \A m \in Queue : ~(m < f) /\ m \notin Taken
      BY <2>3, <2>12, FromFirst
    <3>2. r'.conn = NONE
      BY <2>3, <2>12 DEF PktNext, Reads
    <3>3. Fresh' /\ Blind' /\ Stands'
      BY <1>1, <2>3, <2>8, <2>12, <3>2 DEF Fresh, Blind, Stands
    <3>4. Members'
      BY <1>1, <2>3, <2>7, <2>8 DEF Reading, Members
    <3>5. Joins'
      BY <2>3, <2>7, <2>8, <2>12, <3>2 DEF Joins
    <3>6. Way(f)'
      <4>1. Passed(f)'
        BY <2>7, <3>1 DEF Passed
      <4> QED
        BY <2>7, <3>1, <4>1 DEF Way
    <3>7. Ahead'
      <4> SUFFICES /\ r'.idx # NONE
                   /\ \E e \in Queue : /\ Shown(e) >= 5 /\ ~sent[e].more /\ Leads(sent[e].conn)'
                                        /\ r'.conn \in {NONE, sent[e].conn}
        BY <2>7 DEF Ahead
      <4>1. r'.idx # NONE
        BY <3>1, StartIs, Settings DEF NONE, Inv
      <4>2. ~sent[b].more /\ sent[b].conn = c
        BY <2>10, <2>12
      <4>3. Leads(sent[b].conn)
        BY <2>11, <4>2
      <4>4. Leads(sent[b].conn)'
        BY <2>7, <4>3
      <4> QED
        BY <2>4, <2>9, <3>2, <4>1, <4>2, <4>4
    <3> QED
      BY <3>3, <3>4, <3>5, <3>6, <3>7 DEF Reading
  <2>13. CASE r' = PktNext(other, Start(f, b + 1)) /\ rpc' = "cond"
    <3>1. /\ r'.consumed <= Off(r'.idx) + Wrap /\ r'.idx = Start(f, b + 1)
      BY <2>1, <2>3, <2>13, StartsNear DEF PktNext, Reads
    <3>2. r'.conn = c
      BY <2>3, <2>13 DEF PktNext, Reads
    <3>3. Fresh' /\ Blind' /\ Stands' /\ Ahead'
      BY <1>1, <2>3, <2>8, <2>13 DEF Fresh, Blind, Stands, Ahead
    <3>4. Members'
      BY <1>1, <2>3, <2>7, <2>8 DEF Reading, Members
    <3>5. Joins'
      BY <2>3, <2>7, <2>8, <2>11, <2>13, <3>2 DEF Joins
    <3>6. Way(f)'
      BY <2>1, <2>7, <2>11, <2>13, <3>1, <3>2 DEF Way
    <3> QED
      BY <3>3, <3>4, <3>5, <3>6 DEF Reading
  <2> QED
    BY <2>6, <2>12, <2>13
<1> QED
  BY <1>2, <1>3, <1>4

LEMMA WalkReads ==
    ASSUME RxTypes, NEW f, Inv(f), Reading(f), Walk
    PROVE  Reading(f)'
<1>1. UNCHANGED <<ring, writer, user, disposed>> /\ rpc \in {"walk", "next"} /\ got' = got
      /\ early' = (early \/ (Blank /\ ~r.last))
  BY DEF Walk, user
<1>2. CASE Pass /\ rpc' = rpc
  BY <1>1, <1>2, PassReads
<1>3. CASE ~(Pass /\ rpc' = rpc)
  <2>1. /\ rpc' = IF rpc = "walk" THEN "frag" ELSE "dispose"
        /\ r' = IF Found THEN r ELSE [r EXCEPT !.idx = NONE]
        /\ Found \/ ~AnyMore
    BY <1>3 DEF Walk
  <2>2. r \in Reads
    BY DEF RxTypes
  <2>3. /\ r'.dispose = r.dispose /\ r'.conn = r.conn /\ r'.last = r.last
        /\ (r'.idx = NONE /\ ~AnyMore) \/ (Found /\ r' = r)
    BY <2>1, <2>2 DEF Reads
  <2>4. /\ Taken' = Taken /\ Queue' = Queue /\ \A x : Leads(x) => Leads(x)'
        /\ \A n : Shown(n)' = Shown(n) /\ sent' = sent /\ disposed' = disposed
    BY <1>1, ReaderFrame
  <2>5. Fresh' /\ Way(f)'
    BY <2>1 DEF Fresh, Way
  <2>6. Blind' /\ Members' /\ Joins'
    BY <1>1, <2>1, <2>3, <2>4 DEF Reading, Fresh, Blind, Members, Joins
  <2>7. ~early /\ ~r.last => \E d \in f .. Len(sent) + 1 : r.idx = Start(f, d) /\ Passed(d)
    BY <1>1 DEF Reading, Way
  <2>8. Stands'
    <3> SUFFICES ASSUME ~early', ~r.last, Found, r' = r
                 PROVE  \E n \in 1 .. Len(sent) : n \notin disposed /\ r.idx = sent[n].at /\ Passed(n)'
      BY <1>1, <2>3, <2>4 DEF Stands
    <3>1. PICK b \in f .. Len(sent) :
             /\ r.idx = sent[b].at
             /\ StatusAt(r.idx) = IF b \in disposed THEN PKT_DISPOSED ELSE PKT_READY
      <4>1. AnyMore /\ ~early /\ (Blank => rpc = "walk")
        BY <1>1 DEF Found
      <4> QED
        BY <1>1, <4>1, SeesPacket, LooksAtPacket
    <3>2. b \notin disposed
      BY <3>1 DEF Found, PKT_DISPOSED, PKT_READY
    <3>3. b \in 1 .. Len(sent) /\ Len(sent) \in Nat
      BY Fits DEF Inv
    <3>4. PICK d \in f .. Len(sent) + 1 : r.idx = Start(f, d) /\ Passed(d)
      BY <1>1, <2>7
    <3>5. d = b
      <4>1. b \in f .. Len(sent) + 1 /\ Start(f, b) = r.idx
        BY <3>1, <3>3 DEF Start
      <4> QED
        BY <3>4, <4>1, StartOnce
    <3>6. Passed(b)'
      BY <2>4, <3>4, <3>5 DEF Passed
    <3> QED
      BY <3>1, <3>2, <3>3, <3>6
  <2>9. Ahead'
    <3> SUFFICES ASSUME ~early', ~early, ~r.last PROVE Ahead'
      BY <1>1, <2>3 DEF Ahead
    <3>1. PICK e \in Queue : /\ Shown(e) >= 5 /\ ~sent[e].more /\ Leads(sent[e].conn)
                            /\ r.conn \in {NONE, sent[e].conn}
      BY <1>1 DEF Reading, Ahead
    <3>2. PICK d \in f .. Len(sent) + 1 : r.idx = Start(f, d) /\ Passed(d)
      BY <2>7
    <3>3. e \notin Taken
      BY <3>1 DEF Reading, Joins
    <3>4. e \in 1 .. Len(sent) /\ e \notin disposed
      BY <3>3 DEF Queue
    <3>5. e \in f .. Len(sent) /\ Len(sent) \in Nat /\ f \in 1 .. Len(sent)
      BY <3>4, InLine
    <3>6. ~(e < d)
      BY <3>1, <3>2, <3>3 DEF Passed
    <3>7. d <= e
      BY <3>4, <3>5, <3>6
    <3>8. r.consumed \in Int /\ r.consumed <= Off(Start(f, d)) + Wrap
      BY <1>1, <2>2, <3>2 DEF Reads, Reading, Way
    <3>9. AnyMore
      BY <3>1, <3>5, <3>7, <3>8, NotTheEnd DEF AnyMore
    <3>10. r' = r
      BY <2>3, <3>9
    <3>11. r.idx # NONE
      BY <1>1 DEF Reading, Ahead
    <3> QED
      BY <2>4, <3>1, <3>10, <3>11 DEF Ahead
  <2> QED
    BY <2>5, <2>6, <2>8, <2>9 DEF Reading
<1> QED
  BY <1>2, <1>3

LEMMA LoopReads ==
    ASSUME RxTypes, NEW f, Inv(f), Reading(f), Loop
    PROVE  Reading(f)'
<1>1. CASE Return
  BY <1>1, ReturnReads
<1>2. CASE ~Return
  <2>1. /\ rpc' = "frag" /\ r' = r /\ got' = got /\ ~r.last /\ rpc = "loop" /\ early' = early
        /\ UNCHANGED <<ring, writer, disposed>>
    BY <1>2 DEF Loop, user
  <2>2. /\ Taken' = Taken /\ Queue' = Queue /\ \A x : Leads(x) => Leads(x)'
        /\ \A n : Shown(n)' = Shown(n) /\ sent' = sent /\ disposed' = disposed
    BY <2>1, ReaderFrame
  <2>3. Fresh' /\ Way(f)' /\ Blind' /\ Members' /\ Joins'
    BY <2>1, <2>2 DEF Reading, Fresh, Way, Blind, Members, Joins
  <2>4. Stands'
    BY <2>1, <2>2 DEF Reading, Stands, Passed
  <2>5. Ahead'
    BY <2>1, <2>2 DEF Reading, Ahead
  <2> QED
    BY <2>3, <2>4, <2>5 DEF Reading
<1> QED
  BY <1>1, <1>2

LEMMA Appended ==
    ASSUME NEW s \in Seq(Nat), NEW n \in Nat, \A j, k \in DOMAIN s : j < k => s[j] < s[k],
           \A m \in ToSet(s) : m < n
    PROVE  /\ Append(s, n) \in Seq(Nat) /\ ToSet(Append(s, n)) = ToSet(s) \cup {n}
           /\ \A j, k \in DOMAIN Append(s, n) : j < k => Append(s, n)[j] < Append(s, n)[k]
<1> DEFINE t == Append(s, n)
<1>1. /\ t \in Seq(Nat) /\ Len(s) \in Nat /\ DOMAIN s = 1 .. Len(s) /\ DOMAIN t = 1 .. Len(s) + 1
      /\ \A k \in 1 .. Len(s) : t[k] = s[k]
      /\ t[Len(s) + 1] = n
  BY AppendProperties
<1> HIDE DEF t
<1>2. \A x \in ToSet(t) : x \in ToSet(s) \cup {n}
  <2> SUFFICES ASSUME NEW k \in DOMAIN t PROVE t[k] \in ToSet(s) \cup {n}
    BY DEF ToSet
  <2>1. k \in 1 .. Len(s) \/ k = Len(s) + 1
    BY <1>1
  <2> QED
    BY <1>1, <2>1 DEF ToSet
<1>3. \A x \in ToSet(s) \cup {n} : x \in ToSet(t)
  <2>1. n \in ToSet(t)
    BY <1>1 DEF ToSet
  <2>2. ASSUME NEW k \in DOMAIN s PROVE s[k] \in ToSet(t)
    <3>1. k \in DOMAIN t /\ t[k] = s[k]
      BY <1>1
    <3> QED
      BY <3>1 DEF ToSet
  <2> QED
    BY <2>1, <2>2 DEF ToSet
<1>4. ASSUME NEW j \in DOMAIN t, NEW k \in DOMAIN t, j < k PROVE t[j] < t[k]
  <2>1. j \in 1 .. Len(s) /\ t[j] = s[j]
    BY <1>1, <1>4
  <2>2. CASE k \in 1 .. Len(s)
    BY <1>1, <1>4, <2>1, <2>2
  <2>3. CASE k = Len(s) + 1
    BY <1>1, <2>1, <2>3 DEF ToSet
  <2> QED
    BY <1>1, <2>2, <2>3
<1>5. ToSet(t) = ToSet(s) \cup {n}
  BY <1>2, <1>3
<1> QED
  BY <1>1, <1>4, <1>5 DEF t

LEMMA ConnIs ==
    ASSUME RxTypes, NEW m \in 1 .. Len(sent)
    PROVE  sent[m].conn \in Int /\ sent[m].conn # NONE /\ sent[m].more \in BOOLEAN
<1>1. sent[m].conn \in Conns /\ sent[m].more \in BOOLEAN
  BY Sizes DEF Packets
<1>2. \A c \in Conns : c \in Int /\ c # NONE
  BY Settings DEF NONE
<1> QED
  BY <1>1, <1>2

(* The fragment at idx is used, or left to another read.                   *)
LEMMA UseFragmentReads ==
    ASSUME RxTypes, NEW f, Inv(f), Reading(f), rpc = "frag", r.idx # NONE, UseFragment,
           UNCHANGED <<ring, writer, disposed>>
    PROVE  Reading(f)' /\ Queue' = Queue
<1>1. PICK n \in f .. Len(sent) : n \notin disposed /\ r.idx = sent[n].at /\ Shown(n) >= 3
  BY DEF Inv, Holding, Adrift, PKTHDRSIZE
<1>2. /\ n \in 1 .. Len(sent) /\ Len(sent) \in Nat /\ n \in Nat /\ n + 1 \in f .. Len(sent) + 1
      /\ sent[n].len \in 2 .. LinkBufSize /\ Sz(n) \in 5 .. LinkBufSize + 3
  <2>1. n \in 1 .. Len(sent) /\ Len(sent) \in Nat /\ f \in 1 .. Len(sent)
    BY Fits DEF Inv
  <2> QED
    BY <1>1, <2>1, Sizes
<1>3. LenAt(r.idx) = sent[n].len /\ After(r.idx) = Start(f, n + 1) /\ PacketAt(r.idx) = n
  BY <1>1, HeaderIs, PacketAtIs DEF Inv
<1> DEFINE hd == ByteAt(r.idx, 0)
           fl == ByteAt(r.idx, 1) < MORE
           same == r.conn \in {NONE, hd}
<1>4. /\ r \in Reads /\ r.dispose = NONE
      /\ early' = (early \/ Short(r.idx, sent[n].len)) /\ rpc' = "next"
      /\ got' = IF same THEN Append(got, n) ELSE got
  BY <1>3, NothingUsed DEF UseFragment, user, RxTypes, SameConnection
<1>5. /\ r'.idx = Start(f, n + 1) /\ r'.consumed = Distance(Start(f, n + 1))
      /\ r'.dispose = IF same THEN r.idx ELSE NONE
      /\ r'.last = IF same THEN r.last \/ fl ELSE r.last
      /\ r'.conn = IF r.conn = NONE THEN hd ELSE r.conn
  <2> DEFINE p == r.pktlen + Fit
             q == r.last \/ fl
             rd == IF same THEN [r EXCEPT !.pktlen = p, !.dispose = r.idx, !.last = q] ELSE r
             rc == [rd EXCEPT !.conn = IF rd.conn = NONE THEN hd ELSE rd.conn]
  <2>1. r' = PktNext(rc, Start(f, n + 1))
    BY <1>3 DEF UseFragment, SameConnection
  <2> HIDE DEF hd, fl, p
  <2>2. CASE same
    <3>1. rd = [r EXCEPT !.pktlen = p, !.dispose = r.idx, !.last = q]
      BY <2>2
    <3> HIDE DEF q
    <3>2. rd.conn = r.conn /\ rd.dispose = r.idx /\ rd.last = q
      BY <1>4, <3>1 DEF Reads
    <3>3. /\ rc.conn = (IF r.conn = NONE THEN hd ELSE r.conn) /\ rc.dispose = r.idx /\ rc.last = q
      BY <1>4, <3>1, <3>2 DEF Reads
    <3> HIDE DEF rc
    <3> QED
      BY <2>1, <2>2, <3>3 DEF PktNext, q
  <2>3. CASE ~same
    <3>1. rd = r
      BY <2>3
    <3>2. /\ rc.conn = (IF r.conn = NONE THEN hd ELSE r.conn) /\ rc.dispose = NONE /\ rc.last = r.last
      BY <1>4, <3>1 DEF Reads
    <3> HIDE DEF rc
    <3> QED
      BY <2>1, <2>3, <3>2 DEF PktNext
  <2> QED
    BY <2>2, <2>3
<1>6. /\ sent' = sent /\ disposed' = disposed /\ \A k : Shown(k)' = Shown(k)
      /\ \A i : Off(i)' = Off(i)
      /\ \A g, b : Start(g, b)' = Start(g, b)
  BY DEF ring, writer, Shown, Whole, Sz, Off, Start
<1>7. \A m \in Taken : m \in Queue
  BY DEF Reading, Members, Queue
<1>8. \A m \in Taken : m < n
  <2>1. CASE early
    BY <2>1, NothingTaken DEF Reading, Blind
  <2>2. CASE ~early
    <3>1. PICK k \in 1 .. Len(sent) : k \notin disposed /\ r.idx = sent[k].at /\ Passed(k)
      BY <2>2 DEF Reading, Stands, Joins
    <3>2. k = n
      BY <1>1, <3>1, InLine, SentOnce
    <3> QED
      BY <1>7, <3>1, <3>2 DEF Passed
  <2> QED
    BY <2>1, <2>2
<1>9. /\ got' \in Seq(Nat) /\ Taken' = IF same THEN Taken \cup {n} ELSE Taken
      /\ \A j, k \in DOMAIN got' : j < k => got'[j] < got'[k]
  <2>1. got \in Seq(Nat) /\ \A j, k \in DOMAIN got : j < k => got[j] < got[k]
    BY DEF Reading, Members
  <2>2. /\ Append(got, n) \in Seq(Nat) /\ ToSet(Append(got, n)) = ToSet(got) \cup {n}
        /\ \A j, k \in DOMAIN Append(got, n) : j < k => Append(got, n)[j] < Append(got, n)[k]
    BY <1>2, <1>8, <2>1, Appended DEF Taken
  <2> QED
    BY <1>4, <2>1, <2>2 DEF Taken
<1>10. Queue' = Queue /\ n \in Queue /\ n \notin Taken
  <2>1. n \in Queue
    BY <1>1, <1>2 DEF Queue
  <2>2. \A m \in 1 .. Len(sent) : (m \notin disposed \/ m \in Taken') <=> (m \notin disposed \/ m \in Taken)
    BY <1>1, <1>9
  <2>3. n \notin Taken
    BY <1>2, <1>8
  <2> QED
    BY <1>6, <2>1, <2>2, <2>3 DEF Queue
<1>11. Members'
  <2>1. r.idx # NONE /\ Taken \subseteq disposed /\ Taken \subseteq 1 .. Len(sent)
    BY <1>4 DEF Reading, Members
  <2>2. Taken' \subseteq 1 .. Len(sent)
    BY <1>2, <1>9, <2>1
  <2>3. CASE same
    <3>1. r'.dispose = sent[n].at /\ r'.dispose # NONE /\ n \in Taken' /\ Taken' \ {n} \subseteq disposed
      BY <1>1, <1>5, <1>9, <2>1, <2>3
    <3> QED
      BY <1>1, <1>6, <1>9, <2>2, <3>1 DEF Members
  <2>4. CASE ~same
    <3>1. r'.dispose = NONE /\ Taken' = Taken
      BY <1>5, <1>9, <2>4
    <3> QED
      BY <1>6, <1>9, <2>1, <2>2, <3>1 DEF Members
  <2> QED
    BY <2>3, <2>4
<1>12. Fresh' /\ Blind' /\ Stands'
  BY <1>4 DEF Fresh, Blind, Stands
<1>13. r'.consumed <= Off(r'.idx) + Wrap
  BY <1>2, <1>5, StartsNear
<1>14. ASSUME ~early'
       PROVE  Way(f)' /\ Joins' /\ Ahead'
  <2>1. Shown(n) >= 5
    <3>1. ~early /\ ~Short(r.idx, sent[n].len)
      BY <1>4, <1>14
    <3>2. CASE Whole(n)
      BY <1>2, <3>2, Settings DEF Shown
    <3>3. CASE ~Whole(n)
      <4>1. n = Len(sent) /\ wpc \in {"header", "copy"} /\ Packet.at = r.idx
        BY <1>1, <1>2, <3>3 DEF Whole, RxTypes, Packet
      <4>2. ~(wk < PKTHDRSIZE + sent[n].len) /\ Shown(n) = wk /\ wk \in Nat
        BY <3>1, <3>3, <4>1 DEF Short, Shown, RxTypes
      <4> QED
        BY <1>2, <4>2, Settings DEF PKTHDRSIZE
    <3> QED
      BY <3>2, <3>3
  <2>2. hd = sent[n].conn /\ (fl <=> ~sent[n].more)
    BY <1>1, <2>1, FlagBytes
  <2> HIDE DEF hd, fl
  <2>3. ~early /\ ~r.last
    BY <1>4, <1>14 DEF Reading, Joins
  <2>4. Passed(n)
    <3>1. PICK k \in 1 .. Len(sent) : k \notin disposed /\ r.idx = sent[k].at /\ Passed(k)
      BY <2>3 DEF Reading, Stands
    <3>2. k = n
      BY <1>1, <3>1, InLine, SentOnce
    <3> QED
      BY <3>1, <3>2
  <2>5. \A m \in Queue : m \in 1 .. Len(sent) /\ m \in Nat /\ sent[m].conn # NONE
    BY ConnIs DEF Queue
  <2>6. r'.conn = (IF r.conn = NONE THEN sent[n].conn ELSE r.conn) /\ r'.conn # NONE
    BY <1>5, <1>10, <2>2, <2>5
  <2>7. r.conn = NONE => \A m \in Queue : n <= m /\ m \notin Taken
    <3> SUFFICES ASSUME r.conn = NONE, NEW m \in Queue PROVE n <= m /\ m \notin Taken
      OBVIOUS
    <3>1. Taken = {}
      BY <1>7, <2>3, <2>5 DEF Reading, Joins
    <3>2. ~(m < n)
      BY <2>4, <3>1 DEF Passed
    <3> QED
      BY <1>2, <2>5, <3>1, <3>2
  <2>8. \A m \in Queue : (m < n + 1 /\ r'.conn = sent[m].conn) <=> m \in Taken'
    <3> SUFFICES ASSUME NEW m \in Queue
                 PROVE  (m < n + 1 /\ r'.conn = sent[m].conn) <=> m \in Taken'
      OBVIOUS
    <3>1. m \in Nat /\ (m < n + 1 <=> m < n \/ m = n)
      BY <1>2, <2>5
    <3>2. CASE m = n
      BY <1>2, <1>9, <1>10, <2>2, <2>6, <3>1, <3>2
    <3>3. CASE m # n
      <4>1. m \in Taken' <=> m \in Taken
        BY <1>9, <3>3
      <4>2. CASE r.conn = NONE
        BY <2>7, <1>2, <3>1, <3>3, <4>1, <4>2
      <4>3. CASE r.conn # NONE
        BY <2>4, <2>6, <3>1, <3>3, <4>1, <4>3 DEF Passed
      <4> QED
        BY <4>2, <4>3
    <3> QED
      BY <3>2, <3>3
  <2>9. Passed(n + 1)'
    BY <1>6, <1>10, <2>6, <2>8 DEF Passed
  <2>10. Way(f)'
    BY <1>2, <1>5, <1>6, <1>13, <2>9 DEF Way
  <2>11. Leads(r'.conn)
    <3>1. CASE r.conn = NONE
      BY <1>10, <2>6, <2>7, <3>1 DEF Leads
    <3>2. CASE r.conn # NONE
      BY <2>3, <2>6, <3>2 DEF Reading, Joins
    <3> QED
      BY <3>1, <3>2
  <2>12. \A c : Leads(c) => Leads(c)'
    BY <1>6, <1>10 DEF Leads
  <2>13. Joins'
    <3>1. \A m \in Taken' : m \in Queue /\ sent[m].conn = r'.conn
      BY <1>7, <1>9, <1>10, <2>8
    <3>2. r'.last => n \in Taken' /\ ~sent[n].more
      BY <1>5, <1>9, <2>2, <2>3
    <3>3. \A m \in Taken : sent[m].more
      BY <2>3 DEF Reading, Joins
    <3>4. \A m \in Taken' : m < n => sent[m].more
      BY <1>2, <1>9, <3>3
    <3>5. Taken' = {m \in Queue : m <= n /\ sent[m].conn = r'.conn}
      <4>1. \A m \in Queue : m < n + 1 <=> m <= n
        BY <1>2, <2>5
      <4> QED
        BY <2>8, <3>1, <4>1
    <3>6. ~r'.last => \A m \in Taken' : sent[m].more
      BY <1>5, <1>9, <2>2, <3>3
    <3>7. Leads(r.conn)'
      BY <2>11, <2>12
    <3> QED
      BY <1>4, <1>6, <1>10, <3>1, <3>2, <3>4, <3>5, <3>6, <3>7 DEF Joins
  <2>14. Ahead'
    <3>1. PICK e \in Queue : /\ Shown(e) >= 5 /\ ~sent[e].more /\ Leads(sent[e].conn)
                            /\ r.conn \in {NONE, sent[e].conn}
      BY <2>3 DEF Reading, Ahead
    <3>2. r'.conn = sent[e].conn
      <4>1. CASE r.conn # NONE
        BY <2>6, <3>1, <4>1
      <4>2. CASE r.conn = NONE
        <5>1. PICK o \in Queue : sent[o].conn = sent[e].conn /\ \A m \in Queue : o <= m
          BY <3>1 DEF Leads
        <5>2. o = n
          BY <1>2, <1>10, <2>5, <2>7, <4>2, <5>1
        <5> QED
          BY <2>6, <4>2, <5>1, <5>2
      <4> QED
        BY <4>1, <4>2
    <3>3. r'.idx # NONE
      BY <1>2, <1>5, StartIs, Settings DEF NONE, Inv
    <3>4. Leads(sent[e].conn)'
      BY <1>6, <2>12, <3>1
    <3> QED
      BY <1>6, <1>10, <3>1, <3>2, <3>3, <3>4 DEF Ahead
  <2> QED
    BY <2>10, <2>13, <2>14
<1>15. early' => Way(f)' /\ Joins' /\ Ahead'
  BY <1>6, <1>13 DEF Way, Joins, Ahead
<1> QED
  BY <1>10, <1>11, <1>12, <1>14, <1>15 DEF Reading

LEMMA FragmentReads ==
    ASSUME RxTypes, NEW f, Inv(f), Reading(f), Fragment
    PROVE  Reading(f)'
BY ReturnReads, UseFragmentReads DEF Fragment

LEMMA DisposeReads ==
    ASSUME RxTypes, NEW f, Inv(f), Reading(f), Dispose
    PROVE  Reading(f)' /\ Queue' = Queue
<1>1. /\ rpc = "dispose" /\ ~early /\ early' = early /\ r' = [r EXCEPT !.dispose = NONE]
      /\ pread' = pread /\ pwrite' = pwrite /\ sent' = sent /\ wpc' = wpc /\ wk' = wk /\ got' = got
  BY DEF Dispose, writer, user
<1>2. r'.idx = r.idx /\ r'.dispose = NONE /\ r'.conn = r.conn /\ r'.last = r.last
  BY <1>1 DEF RxTypes, Reads
<1>3. Taken' = Taken /\ \A n : Shown(n)' = Shown(n)
  BY <1>1 DEF Taken, Shown, Whole, Sz
<1>4. CASE r.dispose = NONE
  <2>1. rpc' = "loop" /\ disposed' = disposed
    BY <1>1, <1>4 DEF Dispose
  <2>2. Queue' = Queue /\ \A x : Leads(x) => Leads(x)'
    BY <1>1, <1>3, <2>1 DEF Queue, Leads
  <2>3. Fresh' /\ Way(f)' /\ Blind' /\ Members' /\ Joins'
    BY <1>1, <1>2, <1>3, <1>4, <2>1, <2>2 DEF Reading, Fresh, Way, Blind, Members, Joins
  <2>4. Stands'
    BY <1>1, <1>2, <1>3, <2>1, <2>2 DEF Reading, Stands, Passed
  <2>5. Ahead'
    BY <1>1, <1>2, <1>3, <2>1, <2>2 DEF Reading, Ahead
  <2> QED
    BY <2>2, <2>3, <2>4, <2>5 DEF Reading
<1>5. CASE r.dispose # NONE
  <2>1. PICK m \in Taken : r.dispose = sent[m].at /\ m \notin disposed /\ Taken \ {m} \subseteq disposed
    BY <1>5 DEF Reading, Members
  <2>2. m \in 1 .. Len(sent) /\ m \in f .. Len(sent)
    <3>1. m \in 1 .. Len(sent)
      BY DEF Reading, Members
    <3> QED
      BY <2>1, <3>1, InLine
  <2>3. PacketAt(r.dispose) = m
    BY <2>1, <2>2, PacketAtIs DEF Inv
  <2>4. rpc' = "clean" /\ disposed' = disposed \cup {m}
    BY <1>5, <2>3 DEF Dispose
  <2>5. Queue' = Queue
    <3>1. \A k \in 1 .. Len(sent) : (k \notin disposed' \/ k \in Taken) <=> (k \notin disposed \/ k \in Taken)
      BY <2>4
    <3> QED
      BY <1>1, <1>3, <3>1 DEF Queue
  <2>6. \A x : Leads(x) => Leads(x)'
    BY <1>1, <2>5 DEF Leads
  <2>7. Fresh' /\ Way(f)' /\ Blind' /\ Joins'
    BY <1>1, <1>2, <1>3, <2>4, <2>5, <2>6 DEF Reading, Fresh, Way, Blind, Joins
  <2>8. Members'
    BY <1>1, <1>2, <1>3, <2>1, <2>4 DEF Reading, Members
  <2>9. Stands'
    <3> SUFFICES ASSUME r.idx # NONE, ~r.last
                 PROVE  \E n \in 1 .. Len(sent) : n \notin disposed' /\ r.idx = sent[n].at /\ Passed(n)'
      BY <1>1, <1>2 DEF Stands
    <3>1. PICK n \in 1 .. Len(sent) : n \notin disposed /\ r.idx = sent[n].at /\ Passed(n)
      BY <1>1 DEF Reading, Stands
    <3>2. Off(r.dispose) < Off(r.idx)
      BY <1>1, <1>5 DEF Inv, Using, Adrift
    <3>3. Off(sent[m].at) \in 0 .. Size - 1
      BY <2>2, Sizes
    <3>4. n # m
      BY <2>1, <3>1, <3>2, <3>3, Settings
    <3>5. Passed(n)'
      BY <1>1, <1>2, <1>3, <2>5, <3>1 DEF Passed
    <3> QED
      BY <2>4, <3>1, <3>4, <3>5
  <2>10. Ahead'
    BY <1>1, <1>2, <1>3, <2>4, <2>5, <2>6 DEF Reading, Ahead
  <2> QED
    BY <2>5, <2>7, <2>8, <2>9, <2>10 DEF Reading
<1> QED
  BY <1>4, <1>5

(* While the reader cleans up no packet of the ring says where it is.      *)
LEMMA CleanReads ==
    ASSUME RxTypes, NEW f, Reading(f), Clean, NEW g
    PROVE  Reading(g)'
<1>1. /\ rpc = "clean" /\ rpc' \in {"clean", "loop"} /\ early' = early /\ r' = r /\ got' = got
      /\ disposed' = disposed /\ sent' = sent /\ wpc' = wpc /\ wk' = wk
  BY DEF Clean, writer, user
<1>2. /\ Taken' = Taken /\ \A n : Shown(n)' = Shown(n)
  BY <1>1 DEF Taken, Shown, Whole, Sz
<1>3. Queue' = Queue /\ \A x : Leads(x) => Leads(x)'
  BY <1>1, <1>2 DEF Queue, Leads
<1>4. Fresh' /\ Way(g)' /\ Blind' /\ Members' /\ Joins'
  BY <1>1, <1>2, <1>3 DEF Reading, Fresh, Way, Blind, Members, Joins
<1>5. Stands'
  BY <1>1, <1>2, <1>3 DEF Reading, Stands, Passed
<1>6. Ahead'
  BY <1>1, <1>2, <1>3 DEF Reading, Ahead
<1> QED
  BY <1>4, <1>5, <1>6 DEF Reading

(* The thread's steps inside a packet only add to what is published.       *)
LEMMA WriterReads ==
    ASSUME RxTypes, NEW f, Inv(f), Reading(f), WriterStep
    PROVE  Reading(f)'
<1>1. /\ pread' = pread /\ sent' = sent /\ r' = r /\ got' = got /\ disposed' = disposed
      /\ early' = early /\ (rpc' = rpc \/ (rpc = "asleep" /\ rpc' = "wait"))
  BY DEF WriterStep, WriteByte, PktWrite, WakeUp, ring, reader, user
<1>2. ASSUME NEW n \in 1 .. Len(sent), Shown(n) >= 5 PROVE Shown(n)' >= 5
  <2>1. Len(sent) \in Nat /\ Sz(n) \in 5 .. LinkBufSize + 3 /\ Sz(n)' = Sz(n) /\ wk \in Nat
    <3>1. Sz(n)' = Sz(n)
      BY <1>1 DEF Sz
    <3>2. Sz(n) \in 5 .. LinkBufSize + 3
      BY Sizes
    <3>3. Len(sent) \in Nat /\ wk \in Nat
      BY DEF RxTypes
    <3> QED
      BY <3>1, <3>2, <3>3
  <2>2. Whole(n)' => Shown(n)' >= 5
    BY <2>1, Settings DEF Shown
  <2>3. CASE n < Len(sent)
    BY <1>1, <2>2, <2>3 DEF Whole
  <2>4. CASE n = Len(sent)
    <3>1. CASE WriteByte
      <4>1. wpc = "header" /\ wk \in 0 .. 2
        BY <3>1 DEF WriteByte, Inv, Line
      <4> QED
        BY <1>2, <2>4, <4>1 DEF Shown, Whole
    <3>2. CASE PktWrite
      <4>1. wpc = "copy" /\ wk >= 5
        BY <1>2, <2>4, <3>2 DEF PktWrite, Shown, Whole
      <4> DEFINE todo == Packet.len + PKTHDRSIZE - wk
                 seg  == IF pwrite + todo > Size THEN Size - pwrite ELSE todo
      <4>2. wk' = wk + seg /\ wpc' = IF seg = todo THEN "wake" ELSE "copy"
        BY <3>2 DEF PktWrite
      <4>3. seg # todo => seg = Size - pwrite
        OBVIOUS
      <4> HIDE DEF todo, seg
      <4>4. CASE seg = todo
        BY <2>2, <4>2, <4>4 DEF Whole
      <4>5. CASE seg # todo
        <5>1. Shown(n)' = wk'
          BY <1>1, <2>4, <4>2, <4>5 DEF Shown, Whole
        <5>2. pwrite \in 0 .. Size - 1
          BY DEF RxTypes
        <5> QED
          BY <2>1, <4>1, <4>2, <4>3, <4>5, <5>1, <5>2, Settings
      <4> QED
        BY <4>4, <4>5
    <3>3. CASE WakeUp
      BY <2>2, <3>3 DEF WakeUp, Whole
    <3> QED
      BY <3>1, <3>2, <3>3 DEF WriterStep
  <2> QED
    BY <2>1, <2>3, <2>4
<1>3. /\ Taken' = Taken /\ \A i : Off(i)' = Off(i)
      /\ \A g, b : Start(g, b)' = Start(g, b)
  BY <1>1 DEF Taken, Off, Start, Sz
<1>4. Queue' = Queue /\ \A x : Leads(x) => Leads(x)'
  BY <1>1, <1>3 DEF Queue, Leads
<1>5. Fresh' /\ Blind' /\ Members' /\ Joins'
  BY <1>1, <1>3, <1>4 DEF Reading, Fresh, Blind, Members, Joins
<1>6. Way(f)'
  BY <1>1, <1>3, <1>4 DEF Reading, Way, Passed
<1>7. Stands'
  BY <1>1, <1>3, <1>4 DEF Reading, Stands, Passed
<1>8. Ahead'
  <2> SUFFICES ASSUME ~early, ~r.last, rpc \in {"walk", "frag", "next", "dispose", "clean", "loop"}
               PROVE  /\ r.idx # NONE
                      /\ \E e \in Queue : /\ Shown(e)' >= 5 /\ ~sent[e].more /\ Leads(sent[e].conn)'
                                          /\ r.conn \in {NONE, sent[e].conn}
    BY <1>1, <1>4 DEF Ahead
  <2>1. /\ r.idx # NONE
        /\ \E e \in Queue : /\ Shown(e) >= 5 /\ ~sent[e].more /\ Leads(sent[e].conn)
                            /\ r.conn \in {NONE, sent[e].conn}
    BY DEF Reading, Ahead
  <2>2. Queue \subseteq 1 .. Len(sent)
    BY DEF Queue
  <2> QED
    BY <1>1, <1>2, <1>4, <2>1, <2>2
<1> QED
  BY <1>5, <1>6, <1>7, <1>8 DEF Reading

(* Another fragment comes: it is the last of the queue.                    *)
LEMMA ReadFragmentReads ==
    ASSUME RxTypes, NEW f, Inv(f), Reading(f), NEW L, L = Len(sent),
           NEW c \in Conns, NEW more \in BOOLEAN, NEW len \in Lens, ReadFragment(c, more, len)
    PROVE  Reading(f)' /\ Queue' = Queue \cup {L + 1}
<1> DEFINE p == [conn |-> c, more |-> more, len |-> len, at |-> pwrite]
<1>1. /\ wpc = "idle" /\ sent' = Append(sent, p) /\ wpc' = "header" /\ wk' = 0
      /\ pread' = pread /\ rpc' = rpc /\ r' = r /\ got' = got
      /\ disposed' = disposed /\ early' = early
  BY DEF ReadFragment, ring, reader, user
<1>2. L \in Nat /\ Len(sent') = L + 1 /\ sent'[L + 1] = p /\ p.at = pwrite
      /\ \A n \in 1 .. L : sent'[n] = sent[n]
  <2>1. sent \in Seq(Packets)
    BY DEF RxTypes
  <2> QED
    BY <1>1, <2>1
<1> HIDE DEF p
<1>3. Taken' = Taken /\ Taken \subseteq 1 .. L /\ disposed \subseteq 1 .. L
  BY <1>1 DEF Taken, Reading, Members, RxTypes
<1>4. Queue' = Queue \cup {L + 1} /\ Queue \subseteq 1 .. L
  <2>1. 1 .. L + 1 = (1 .. L) \cup {L + 1} /\ L + 1 \notin 1 .. L
    BY <1>2
  <2>2. Queue' = {m \in 1 .. L + 1 : m \notin disposed \/ m \in Taken}
    BY <1>1, <1>2, <1>3 DEF Queue
  <2>3. Queue = {m \in 1 .. L : m \notin disposed \/ m \in Taken}
    BY DEF Queue
  <2> QED
    BY ONLY <1>3, <2>1, <2>2, <2>3
<1>5. \A n \in 1 .. L : Shown(n)' = Shown(n)
  <2> SUFFICES ASSUME NEW n \in 1 .. L PROVE Shown(n)' = Shown(n)
    OBVIOUS
  <2>1. Whole(n) /\ Whole(n)'
    BY <1>1, <1>2 DEF Whole
  <2>2. Sz(n)' = Sz(n)
    BY <1>2 DEF Sz
  <2> QED
    BY <2>1, <2>2 DEF Shown
<1>6. \A x : Leads(x) => Leads(x)'
  <2> SUFFICES ASSUME NEW x, Leads(x) PROVE Leads(x)'
    OBVIOUS
  <2>1. PICK o \in Queue : sent[o].conn = x /\ \A m \in Queue : o <= m
    BY DEF Leads
  <2>2. o \in Queue' /\ sent'[o].conn = x /\ \A m \in Queue' : o <= m
    BY <1>2, <1>4, <2>1
  <2> QED
    BY <2>2 DEF Leads
<1>7. ASSUME NEW b \in 1 .. L + 1, Passed(b) PROVE Passed(b)'
  <2> SUFFICES ASSUME NEW m \in Queue'
               PROVE  (m < b /\ r.conn \in {NONE, sent'[m].conn}) <=> m \in Taken
    BY <1>1, <1>3 DEF Passed
  <2>1. CASE m = L + 1
    BY <1>2, <1>3, <2>1
  <2>2. CASE m # L + 1
    <3>1. m \in Queue /\ sent'[m] = sent[m]
      BY <1>2, <1>4, <2>2
    <3> QED
      BY <1>7, <3>1 DEF Passed
  <2> QED
    BY <2>1, <2>2
<1>8. Fresh' /\ Blind'
  BY <1>1 DEF Reading, Fresh, Blind
<1>9. Members'
  <2>1. Taken' \subseteq 1 .. Len(sent') /\ \A m \in Taken : sent'[m] = sent[m]
    BY <1>2, <1>3
  <2> QED
    BY <1>1, <1>3, <2>1 DEF Reading, Members
<1>10. Way(f)'
  <2> SUFFICES ASSUME ~early, ~r.last, rpc \in {"cond", "walk", "next"}
               PROVE  /\ r.consumed <= Off(r.idx) + Wrap
                      /\ \E b \in f .. L + 2 :
                           r.idx = Start(f, b)' /\ (Passed(b)' \/ (rpc = "cond" /\ r.conn # NONE))
    <3>1. L + 2 = Len(sent') + 1 /\ Off(r.idx)' = Off(r.idx)
      BY <1>1, <1>2 DEF Off
    <3> QED
      BY <1>1, <3>1 DEF Way
  <2>1. r.consumed <= Off(r.idx) + Wrap
    BY DEF Reading, Way
  <2>2. \E b \in f .. L + 2 : r.idx = Start(f, b)' /\ (Passed(b)' \/ (rpc = "cond" /\ r.conn # NONE))
    <3>1. PICK b \in f .. L + 1 : r.idx = Start(f, b) /\ (Passed(b) \/ (rpc = "cond" /\ r.conn # NONE))
      BY DEF Reading, Way
    <3>2. Start(f, b)' = Start(f, b)
      BY <1>1, <1>2, StartStays
    <3>3. f \in 1 .. L + 1
      BY DEF Inv, Line
    <3>4. b \in f .. L + 2 /\ b \in 1 .. L + 1
      BY <1>2, <3>3
    <3> QED
      BY <1>7, <3>1, <3>2, <3>4
  <2> QED
    BY <2>1, <2>2
<1>11. Stands'
  <2> SUFFICES ASSUME ~early, ~r.last, rpc \in {"frag", "dispose", "clean", "loop"}, r.idx # NONE
               PROVE  \E n \in 1 .. L + 1 : n \notin disposed /\ r.idx = sent'[n].at /\ Passed(n)'
    BY <1>1, <1>2 DEF Stands
  <2>1. PICK n \in 1 .. L : n \notin disposed /\ r.idx = sent[n].at /\ Passed(n)
    BY DEF Reading, Stands
  <2>2. n \in 1 .. L + 1 /\ sent'[n] = sent[n]
    BY <1>2
  <2> QED
    BY <1>7, <2>1, <2>2
<1>12. Joins'
  <2> SUFFICES ASSUME ~early PROVE Joins'
    BY <1>1 DEF Joins
  <2>1. \A m \in Taken : sent'[m] = sent[m]
    BY <1>2, <1>3
  <2>2. ASSUME r.last
        PROVE  \E z \in Taken : /\ ~sent'[z].more /\ \A m \in Taken : m < z => sent'[m].more
                                /\ Taken = {m \in Queue' : m <= z /\ sent'[m].conn = r.conn}
    <3>1. PICK z \in Taken : /\ ~sent[z].more /\ \A m \in Taken : m < z => sent[m].more
                            /\ Taken = {m \in Queue : m <= z /\ sent[m].conn = r.conn}
      BY <2>2 DEF Reading, Joins
    <3>2. \A m \in Queue' : m <= z <=> m \in Queue /\ m <= z
      BY <1>2, <1>3, <1>4
    <3>3. \A m \in Queue : sent'[m] = sent[m]
      BY <1>2, <1>4
    <3>4. Taken = {m \in Queue' : m <= z /\ sent'[m].conn = r.conn}
      BY <1>4, <3>1, <3>2, <3>3
    <3> QED
      BY <2>1, <3>1, <3>4
  <2> QED
    BY <1>1, <1>3, <1>6, <2>1, <2>2 DEF Reading, Joins
<1>13. Ahead'
  <2> SUFFICES ASSUME ~early, ~r.last, rpc \in {"walk", "frag", "next", "dispose", "clean", "loop"}
               PROVE  Ahead'
    BY <1>1 DEF Ahead
  <2>1. PICK e \in Queue : /\ Shown(e) >= 5 /\ ~sent[e].more /\ Leads(sent[e].conn)
                          /\ r.conn \in {NONE, sent[e].conn}
    BY DEF Reading, Ahead
  <2>2. r.idx # NONE
    BY DEF Reading, Ahead
  <2>3. e \in Queue' /\ sent'[e] = sent[e] /\ Shown(e)' >= 5
    BY <1>2, <1>4, <1>5, <2>1
  <2>4. Leads(sent[e].conn)'
    BY <1>6, <2>1, <2>3
  <2> QED
    BY <1>1, <2>1, <2>2, <2>3, <2>4 DEF Ahead
<1> QED
  BY <1>4, <1>8, <1>9, <1>10, <1>11, <1>12, <1>13 DEF Reading

LEMMA RxJInitially == RxInit => RxJInv
<1> SUFFICES ASSUME RxInit PROVE RxJInv
  OBVIOUS
<1>1. RxTypes /\ Len(sent) = 0
  BY RxInitially DEF RxIInv, RxInit
<1>2. PICK f \in 1 .. Len(sent) + 1 : Inv(f)
  BY RxInitially DEF RxIInv
<1>3. Taken = {}
  BY DEF RxInit, Taken, ToSet
<1>4. r.conn = NONE /\ r.dispose = NONE /\ r.last = FALSE /\ got = <<>> /\ rpc = "idle"
  BY DEF RxInit, NoRead
<1>5. Fresh /\ Blind /\ Way(f) /\ Stands /\ Ahead
  BY <1>4 DEF Fresh, Blind, Way, Stands, Ahead
<1>6. Members /\ Joins
  BY <1>3, <1>4 DEF Members, Joins
<1> QED
  BY <1>1, <1>2, <1>5, <1>6 DEF RxJInv, Reading

LEMMA RxJStep == RxJInv /\ [RxNext]_rxvars => RxJInv'
<1> SUFFICES ASSUME RxJInv, [RxNext]_rxvars PROVE RxJInv'
  OBVIOUS
<1>1. RxTypes /\ RxIInv
  BY DEF RxJInv, RxIInv
<1>2. PICK f \in 1 .. Len(sent) + 1 : Inv(f) /\ Reading(f)
  BY DEF RxJInv
<1>3. RxTypes'
  BY <1>1, RxStep DEF RxIInv
<1>4. \A g : Inv(g)' /\ Reading(g)' => RxJInv'
  BY <1>3 DEF RxJInv, Inv, Line
<1>5. CASE \E c \in Conns, more \in BOOLEAN, len \in Lens : ReadFragment(c, more, len)
  <2>1. PICK L : L = Len(sent)
    OBVIOUS
  <2> QED
    BY <1>1, <1>2, <1>4, <1>5, <2>1, ReadFragmentMoves, ReadFragmentReads
<1>6. CASE WriterStep
  <2>1. Inv(f)'
    BY <1>1, <1>2, <1>6, WriteByteMoves, PktWriteMoves, WakeUpMoves DEF WriterStep
  <2> QED
    BY <1>1, <1>2, <1>4, <1>6, <2>1, WriterReads
<1>7. CASE \E n \in Counts : ReadCall(n)
  BY <1>1, <1>2, <1>4, <1>7, ReadCallMoves, ReadCallReads
<1>8. CASE Clean
  <2>1. Inv(f + 1)' \/ Inv(f)'
    BY <1>1, <1>2, <1>8, CleanMoves
  <2>2. Reading(f + 1)' /\ Reading(f)'
    BY <1>1, <1>2, <1>8, CleanReads
  <2> QED
    BY <1>4, <2>1, <2>2
<1>9. CASE Condition
  BY <1>1, <1>2, <1>4, <1>9, ConditionMoves, ConditionReads
<1>10. CASE ConditionFails
  BY <1>1, <1>2, <1>4, <1>10, ConditionFailsMoves, ConditionFailsReads
<1>11. CASE Wait
  BY <1>1, <1>2, <1>4, <1>11, WaitMoves, WaitReads
<1>12. CASE Walk
  BY <1>1, <1>2, <1>4, <1>12, WalkMoves, WalkReads
<1>13. CASE Fragment
  BY <1>1, <1>2, <1>4, <1>13, FragmentMoves, FragmentReads
<1>14. CASE Dispose
  BY <1>1, <1>2, <1>4, <1>14, DisposeMoves, DisposeReads
<1>15. CASE Loop
  BY <1>1, <1>2, <1>4, <1>15, LoopMoves, LoopReads
<1>16. CASE Signal \/ CopyFault
  <2>1. Return
    BY <1>16 DEF Signal, CopyFault
  <2> QED
    BY <1>1, <1>2, <1>4, <1>16, <2>1, SignalMoves, ReturnReads
<1>17. CASE UNCHANGED rxvars
  <2>1. Inv(f)'
    BY <1>2, <1>17 DEF rxvars, ring, writer, reader, user, Inv, Line, Contents, Gone, Looking, Holding, Using,
                       Off, Sz, Shown, Whole, PacketOf, Start
  <2>2. Reading(f)'
    BY <1>2, <1>17 DEF rxvars, ring, writer, reader, user, Reading, Fresh, Members, Blind, Way, Stands, Joins,
                       Ahead, Taken, Queue, Leads, Passed, Off, Sz, Shown, Whole, Start
  <2> QED
    BY <1>4, <2>1, <2>2
<1> QED
  BY <1>5, <1>6, <1>7, <1>8, <1>9, <1>10, <1>11, <1>12, <1>13, <1>14, <1>15, <1>16, <1>17 DEF RxNext, ReaderStep

(* Every read that goes on has found the message, and what it has taken at *)
(* the end belongs to it.                                                  *)
LEMMA RxJImplies == RxJInv => MessageWhole
<1> SUFFICES ASSUME RxJInv, ~early PROVE MessageWhole
  BY DEF MessageWhole
<1>1. PICK f \in 1 .. Len(sent) + 1 : Inv(f) /\ Reading(f)
  BY DEF RxJInv
<1>2. EndIsFound
  BY <1>1 DEF Reading, Joins, Ahead, EndIsFound
<1>3. ASSUME r.last, NEW k \in DOMAIN got
      PROVE  sent[got[k]].conn = r.conn /\ (sent[got[k]].more <=> k < Len(got))
  <2>1. PICK z \in Taken : /\ ~sent[z].more /\ \A m \in Taken : m < z => sent[m].more
                          /\ Taken = {m \in Queue : m <= z /\ sent[m].conn = r.conn}
    BY <1>1, <1>3 DEF Reading, Joins
  <2>2. /\ got \in Seq(Nat) /\ \A i, j \in DOMAIN got : i < j => got[i] < got[j]
    BY <1>1 DEF Reading, Members
  <2>3. /\ Len(got) \in Nat /\ DOMAIN got = 1 .. Len(got) /\ \A i \in 1 .. Len(got) : got[i] \in Nat
    BY <2>2
  <2>4. got[k] \in Taken
    BY DEF Taken, ToSet
  <2>5. PICK j \in 1 .. Len(got) : got[j] = z
    BY <2>3 DEF Taken, ToSet
  <2>6. \A i \in 1 .. Len(got) : got[i] <= z
    <3> SUFFICES ASSUME NEW i \in 1 .. Len(got) PROVE got[i] <= z
      OBVIOUS
    <3>1. got[i] \in Taken
      BY <2>3 DEF Taken, ToSet
    <3> QED
      BY <2>1, <3>1
  <2>7. j = Len(got)
    <3>1. Len(got) \in Nat /\ j \in 1 .. Len(got) /\ Len(got) \in 1 .. Len(got)
      BY <2>3
    <3>2. ~(j < Len(got))
      BY <2>2, <2>3, <2>5, <2>6, <3>1
    <3> QED
      BY ONLY <3>1, <3>2
  <2>8. CASE k = Len(got)
    BY <2>1, <2>3, <2>4, <2>5, <2>7, <2>8
  <2>9. CASE k # Len(got)
    <3>1. k < Len(got) /\ got[k] < z
      BY <2>2, <2>3, <2>5, <2>7, <2>9
    <3> QED
      BY <2>1, <2>4, <3>1
  <2> QED
    BY <2>8, <2>9
<1> QED
  BY <1>2, <1>3 DEF MessageWhole

---------------------------------------------------------------------------
(* The fragments of CaMessages.                                            *)
Rec(n) == [n |-> n, conn |-> sent[n].conn, more |-> sent[n].more]
Waiting == {Rec(n) : n \in Queue}

(* The first message of the queue.                                         *)
EndsOf(c) == {m \in Queue : sent[m].conn = c /\ ~sent[m].more}
MessageOf(c) == {m \in Queue : sent[m].conn = c /\ \A e \in EndsOf(c) : m <= e}

LEMMA FirstMessage ==
    ASSUME RxTypes, NEW c, Leads(c)
    PROVE  /\ Waiting # {} /\ Queue \subseteq Nat
           /\ Messages!Ends = {Rec(m) : m \in EndsOf(c)}
           /\ Messages!Message = {Rec(m) : m \in MessageOf(c)}
<1>1. Queue \subseteq Nat
  BY DEF Queue, RxTypes
<1>2. PICK o \in Queue : sent[o].conn = c /\ \A m \in Queue : o <= m
  BY DEF Leads
<1>3. Rec(o) \in Waiting /\ \A g \in Waiting : Rec(o).n <= g.n
  BY <1>2 DEF Waiting, Rec
<1>4. Messages!Oldest = CHOOSE x \in Waiting : \A g \in Waiting : x.n <= g.n
  BY DEF Messages!Oldest, Waiting, Rec, Queue, Taken
<1>5. Messages!Oldest \in Waiting /\ \A g \in Waiting : Messages!Oldest.n <= g.n
  BY <1>3, <1>4
<1>6. PICK m \in Queue : Messages!Oldest = Rec(m)
  BY <1>5 DEF Waiting
<1>7. m = o
  <2>1. Rec(m).n = m /\ Rec(o).n = o
    BY DEF Rec
  <2>2. m <= o
    BY <1>3, <1>5, <1>6, <2>1
  <2> QED
    BY <1>1, <1>2, <2>2
<1>8. Messages!Oldest.conn = c
  BY <1>2, <1>6, <1>7 DEF Rec
<1>9. Messages!Ends = {Rec(x) : x \in EndsOf(c)}
  <2>1. Messages!Ends = {x \in Waiting : x.conn = Messages!Oldest.conn /\ ~x.more}
    BY DEF Messages!Ends, Waiting, Rec, Queue, Taken
  <2>2. \A k : Rec(k).conn = sent[k].conn /\ Rec(k).more = sent[k].more
    BY DEF Rec
  <2> QED
    BY <1>8, <2>1, <2>2 DEF Waiting, EndsOf
<1>10. Messages!Message = {Rec(x) : x \in MessageOf(c)}
  <2>1. Messages!Message = {x \in Waiting : x.conn = Messages!Oldest.conn /\ \A e \in Messages!Ends : x.n <= e.n}
    BY DEF Messages!Message, Waiting, Rec, Queue, Taken
  <2>2. \A k : Rec(k).conn = sent[k].conn /\ Rec(k).n = k
    BY DEF Rec
  <2>3. \A k : (\A e \in Messages!Ends : k <= e.n) <=> (\A e \in EndsOf(c) : k <= e)
    BY <1>9, <2>2
  <2> QED
    BY <1>8, <2>1, <2>2, <2>3 DEF Waiting, MessageOf
<1> QED
  BY <1>1, <1>3, <1>9, <1>10

(* A step that leaves the queue as it is.                                  *)
LEMMA QueueStays ==
    ASSUME sent' = sent, Queue' = Queue
    PROVE  UNCHANGED Messages!vars
<1>1. Len(sent)' = Len(sent) /\ Waiting' = Waiting
  BY DEF Waiting, Rec
<1> QED
  BY <1>1 DEF Messages!vars, Waiting, Rec, Queue, Taken

(* A fragment that has come waits behind the others.                       *)
LEMMA FragmentIsPut ==
    ASSUME RxTypes, NEW f, Inv(f), Reading(f), NEW L, L = Len(sent),
           NEW c \in Conns, NEW more \in BOOLEAN, NEW len \in Lens, ReadFragment(c, more, len)
    PROVE  Messages!Put
<1> DEFINE p == [conn |-> c, more |-> more, len |-> len, at |-> pwrite]
<1>1. L \in Nat /\ Len(sent') = L + 1 /\ sent'[L + 1] = p /\ \A n \in 1 .. L : sent'[n] = sent[n]
  <2>1. sent \in Seq(Packets) /\ sent' = Append(sent, p)
    BY DEF RxTypes, ReadFragment
  <2> HIDE DEF p
  <2> QED
    BY <2>1
<1>2. Queue' = Queue \cup {L + 1} /\ Queue \subseteq 1 .. L
  BY ReadFragmentReads DEF Queue
<1>3. Rec(L + 1)' = [n |-> L + 1, conn |-> c, more |-> more] /\ \A n \in Queue : Rec(n)' = Rec(n)
  BY <1>1, <1>2 DEF Rec
<1>4. Waiting' = Waiting \cup {[n |-> L + 1, conn |-> c, more |-> more]}
  BY <1>2, <1>3 DEF Waiting
<1> QED
  BY <1>1, <1>4 DEF Messages!Put, Waiting, Rec, Queue, Taken

(* A read that ends gives its packets away.                                *)
LEMMA ReturnTakes ==
    ASSUME RxTypes, NEW f, Inv(f), Reading(f), Return, r.dispose = NONE,
           UNCHANGED <<ring, writer, disposed>>
    PROVE  /\ sent' = sent /\ Queue' = Queue \ Taken
           /\ Waiting' = Waiting \ {Rec(n) : n \in Taken}
<1>1. sent' = sent /\ disposed' = disposed /\ got' = <<>>
  BY DEF Return, writer
<1>2. Taken' = {}
  BY <1>1 DEF Taken, ToSet
<1>3. Taken \subseteq disposed
  BY DEF Reading, Members
<1>4. Queue' = Queue \ Taken
  BY <1>1, <1>2, <1>3 DEF Queue
<1>5. \A n : Rec(n)' = Rec(n) /\ Rec(n).n = n
  BY <1>1 DEF Rec
<1>6. Waiting' = {Rec(n) : n \in Queue \ Taken}
  BY <1>4, <1>5 DEF Waiting
<1>7. {Rec(n) : n \in Queue \ Taken} = Waiting \ {Rec(n) : n \in Taken}
  BY <1>5 DEF Waiting
<1> QED
  BY <1>1, <1>4, <1>6, <1>7

LEMMA NothingReturned ==
    ASSUME RxTypes, NEW f, Inv(f), Reading(f), Return, r.dispose = NONE, got = <<>>,
           UNCHANGED <<ring, writer, disposed>>
    PROVE  UNCHANGED Messages!vars
<1>1. sent' = sent /\ Queue' = Queue
  BY ReturnTakes, NothingTaken
<1> QED
  BY <1>1, QueueStays

(* At the end of a message it is taken whole.                              *)
LEMMA MessageIsGot ==
    ASSUME RxTypes, NEW f, Inv(f), Reading(f), Loop, Return
    PROVE  Messages!Get \/ UNCHANGED Messages!vars
<1>1. rpc = "loop" /\ UNCHANGED <<ring, writer, disposed>> /\ r.dispose = NONE /\ ~early
  BY NothingUsed DEF Loop, Reading, Blind
<1>2. CASE r.last
  <2>1. PICK z \in Taken : /\ ~sent[z].more /\ \A m \in Taken : m < z => sent[m].more
                          /\ Taken = {m \in Queue : m <= z /\ sent[m].conn = r.conn}
    BY <1>1, <1>2 DEF Reading, Joins
  <2>2. z \in 1 .. Len(sent) /\ z \in Queue /\ z \in Nat /\ sent[z].conn = r.conn /\ r.conn # NONE
    <3>1. z \in 1 .. Len(sent) /\ z \in Queue /\ sent[z].conn = r.conn
      BY <2>1 DEF Queue
    <3> QED
      BY <3>1, ConnIs
  <2> DEFINE c == r.conn
  <2>3. Leads(c)
    BY <1>1, <2>2 DEF Reading, Joins
  <2>4. /\ Waiting # {} /\ Queue \subseteq Nat
        /\ Messages!Ends = {Rec(m) : m \in EndsOf(c)}
        /\ Messages!Message = {Rec(m) : m \in MessageOf(c)}
    BY <2>3, FirstMessage
  <2>5. z \in EndsOf(c) /\ \A e \in EndsOf(c) : e \in Queue /\ z <= e
    <3>1. z \in EndsOf(c)
      BY <2>1, <2>2 DEF EndsOf
    <3>2. ASSUME NEW e \in EndsOf(c), e < z PROVE FALSE
      BY <2>1, <2>2, <2>4, <3>2 DEF EndsOf
    <3> QED
      BY <2>2, <2>4, <3>1, <3>2 DEF EndsOf
  <2>6. MessageOf(c) = Taken
    <3>1. ASSUME NEW m \in Queue PROVE (\A e \in EndsOf(c) : m <= e) <=> m <= z
      <4>1. m \in Nat /\ z \in Nat /\ z \in EndsOf(c)
        BY <2>2, <2>4, <2>5
      <4>2. \A e \in EndsOf(c) : e \in Nat /\ z <= e
        BY <2>4, <2>5
      <4> QED
        BY ONLY <4>1, <4>2
    <3> QED
      BY <2>1, <3>1 DEF MessageOf
  <2>7. sent' = sent /\ Waiting' = Waiting \ {Rec(n) : n \in Taken}
    BY <1>1, ReturnTakes
  <2>8. Messages!Ends # {} /\ Waiting' = Waiting \ Messages!Message
    BY <2>4, <2>5, <2>6, <2>7
  <2>9. Waiting = {[n |-> n, conn |-> sent[n].conn, more |-> sent[n].more] :
                     n \in {m \in 1 .. Len(sent) : m \notin disposed \/ m \in ToSet(got)}}
    BY DEF Waiting, Rec, Queue, Taken
  <2>10. Waiting' = {[n |-> n, conn |-> sent'[n].conn, more |-> sent'[n].more] :
                     n \in {m \in 1 .. Len(sent') : m \notin disposed' \/ m \in ToSet(got')}}
    BY DEF Waiting, Rec, Queue, Taken
  <2> QED
    BY <2>4, <2>7, <2>8, <2>9, <2>10 DEF Messages!Get
<1>3. CASE ~r.last
  BY <1>3 DEF Loop, Return
<1> QED
  BY <1>2, <1>3

(* A copy that faults leaves the fragment it was at, and loses those       *)
(* before it.                                                              *)
LEMMA BeginningIsSpoilt ==
    ASSUME RxTypes, NEW f, Inv(f), Reading(f), CopyFault
    PROVE  Messages!Spoil \/ UNCHANGED Messages!vars
<1>1. /\ rpc = "frag" /\ r.idx # NONE /\ SameConnection /\ Return
      /\ UNCHANGED <<ring, writer, disposed>> /\ r.dispose = NONE
  BY NothingUsed DEF CopyFault
<1>2. CASE got = <<>>
  BY <1>1, <1>2, NothingReturned
<1>3. CASE got # <<>>
  <2>1. ~early /\ ~r.last
    BY <1>1, <1>3 DEF Reading, Blind, Joins
  <2>2. PICK n \in 1 .. Len(sent) : n \notin disposed /\ r.idx = sent[n].at /\ Passed(n)
    BY <1>1, <2>1 DEF Reading, Stands
  <2>3. n \in f .. Len(sent) /\ Len(sent) \in Nat /\ f \in 1 .. Len(sent) /\ n \in Queue
    BY <2>2, InLine DEF Queue
  <2> DEFINE c == r.conn
  <2>4. c # NONE /\ \A m \in Taken : sent[m].conn = c /\ sent[m].more /\ m \in Queue
    <3>1. \A m \in Taken : m \in 1 .. Len(sent) /\ m \in Queue /\ sent[m].conn = r.conn /\ sent[m].more
      BY <2>1 DEF Reading, Members, Joins, Queue
    <3>2. Taken # {}
      <4>1. got \in Seq(Nat) /\ got # <<>>
        BY <1>3 DEF Reading, Members
      <4>2. 1 \in DOMAIN got
        BY <4>1
      <4> QED
        BY <4>2 DEF Taken, ToSet
    <3> QED
      BY <3>1, <3>2, ConnIs
  <2>5. Leads(c)
    BY <2>1, <2>4 DEF Reading, Joins
  <2>6. /\ Waiting # {} /\ Queue \subseteq Nat
        /\ Messages!Ends = {Rec(m) : m \in EndsOf(c)}
        /\ Messages!Message = {Rec(m) : m \in MessageOf(c)}
    BY <2>5, FirstMessage
  <2>7. \A e \in EndsOf(c) : e \in Queue /\ e \notin Taken /\ n <= e
    <3> SUFFICES ASSUME NEW e \in EndsOf(c) PROVE e \in Queue /\ e \notin Taken /\ n <= e
      OBVIOUS
    <3>1. e \in Queue /\ sent[e].conn = c /\ ~sent[e].more
      BY DEF EndsOf
    <3>2. e \notin Taken
      BY <2>4, <3>1
    <3>3. ~(e < n)
      BY <2>2, <3>1, <3>2 DEF Passed
    <3>4. e \in Nat /\ n \in Nat
      BY <2>3, <2>6, <3>1
    <3>5. n <= e
      BY ONLY <3>3, <3>4
    <3> QED
      BY <3>1, <3>2, <3>5
  <2>8. PICK e \in Queue : Shown(e) >= 5 /\ ~sent[e].more /\ sent[e].conn = c
    BY <1>1, <2>1, <2>4 DEF Reading, Ahead
  <2>9. e \in EndsOf(c) /\ n <= e /\ e \in 1 .. Len(sent)
    BY <2>7, <2>8 DEF EndsOf, Queue
  <2>10. Shown(n) >= 5
    <3>1. CASE n = e
      BY <2>8, <3>1
    <3>2. CASE n # e
      <4>1. Whole(n)
        BY <2>3, <2>9, <3>2 DEF Whole
      <4>2. Sz(n) \in 5 .. LinkBufSize + 3
        BY <2>2, Sizes
      <4> QED
        BY <4>1, <4>2, Settings DEF Shown
    <3> QED
      BY <3>1, <3>2
  <2>11. sent[n].conn = c
    BY <1>1, <2>2, <2>3, <2>4, <2>10, FlagBytes DEF SameConnection
  <2>12. n \in MessageOf(c)
    BY <2>3, <2>7, <2>11 DEF MessageOf
  <2>13. \A m \in Queue : m \in Taken <=> m \in MessageOf(c) /\ m < n
    <3> SUFFICES ASSUME NEW m \in Queue PROVE m \in Taken <=> m \in MessageOf(c) /\ m < n
      OBVIOUS
    <3>1. m \in Taken <=> m < n /\ sent[m].conn = c
      BY <2>2, <2>4 DEF Passed
    <3>2. m < n => \A x \in EndsOf(c) : m <= x
      <4>1. m \in Nat /\ n \in Nat /\ \A x \in EndsOf(c) : x \in Nat /\ n <= x
        BY <2>3, <2>6, <2>7
      <4> QED
        BY <4>1
    <3> QED
      BY <3>1, <3>2 DEF MessageOf
  <2>14. {x \in Messages!Message : x.n < Rec(n).n} = {Rec(m) : m \in Taken}
    <3>1. \A k : Rec(k).n = k
      BY DEF Rec
    <3>2. \A m \in MessageOf(c) : m \in Queue
      BY DEF MessageOf
    <3> QED
      BY <2>4, <2>6, <2>13, <3>1, <3>2
  <2>15. sent' = sent /\ Waiting' = Waiting \ {Rec(m) : m \in Taken}
    BY <1>1, ReturnTakes
  <2>16. Rec(n) \in Messages!Message /\ Messages!Ends # {}
         /\ Waiting' = Waiting \ {x \in Messages!Message : x.n < Rec(n).n}
    BY <2>6, <2>9, <2>12, <2>14, <2>15
  <2>17. Waiting = {[n |-> m, conn |-> sent[m].conn, more |-> sent[m].more] :
                      m \in {k \in 1 .. Len(sent) : k \notin disposed \/ k \in ToSet(got)}}
    BY DEF Waiting, Rec, Queue, Taken
  <2>18. Waiting' = {[n |-> m, conn |-> sent'[m].conn, more |-> sent'[m].more] :
                      m \in {k \in 1 .. Len(sent') : k \notin disposed' \/ k \in ToSet(got')}}
    BY DEF Waiting, Rec, Queue, Taken
  <2> QED
    BY <2>6, <2>15, <2>16, <2>17, <2>18 DEF Messages!Spoil
<1> QED
  BY <1>2, <1>3

LEMMA FragmentStays ==
    ASSUME RxTypes, NEW f, Inv(f), Reading(f), Fragment
    PROVE  UNCHANGED Messages!vars
<1>1. rpc = "frag" /\ UNCHANGED <<ring, writer, disposed>> /\ r.dispose = NONE /\ sent' = sent
  BY NothingUsed DEF Fragment, writer
<1>2. CASE r.idx = NONE
  <2>1. early
    BY <1>1, <1>2 DEF Reading, Joins, Ahead
  <2>2. got = <<>> /\ Return
    BY <1>1, <1>2, <2>1 DEF Reading, Blind, Fragment
  <2> QED
    BY <1>1, <2>2, NothingReturned
<1>3. CASE r.idx # NONE
  <2>1. UseFragment
    BY <1>3 DEF Fragment
  <2>2. Queue' = Queue
    BY <1>1, <1>3, <2>1, UseFragmentReads
  <2> QED
    BY <1>1, <2>2, QueueStays
<1> QED
  BY <1>2, <1>3

LEMMA ReadsFollow == RxJInv /\ [RxNext]_rxvars => [Messages!Next]_(Messages!vars)
<1> SUFFICES ASSUME RxJInv, [RxNext]_rxvars PROVE [Messages!Next]_(Messages!vars)
  OBVIOUS
<1>1. RxTypes
  BY DEF RxJInv
<1>2. PICK f \in 1 .. Len(sent) + 1 : Inv(f) /\ Reading(f)
  BY DEF RxJInv
<1>3. ASSUME sent' = sent, got' = got, disposed' = disposed PROVE UNCHANGED Messages!vars
  <2>1. Queue' = Queue
    BY <1>3 DEF Queue, Taken
  <2> QED
    BY <1>3, <2>1, QueueStays
<1>4. CASE \E c \in Conns, more \in BOOLEAN, len \in Lens : ReadFragment(c, more, len)
  <2>1. PICK L : L = Len(sent)
    OBVIOUS
  <2>2. Messages!Put
    BY <1>1, <1>2, <1>4, <2>1, FragmentIsPut
  <2> QED
    BY <2>2 DEF Messages!Next
<1>5. CASE WriterStep
  <2>1. sent' = sent /\ got' = got /\ disposed' = disposed
    BY <1>5 DEF WriterStep, WriteByte, PktWrite, WakeUp, reader, user
  <2> QED
    BY <1>3, <2>1
<1>6. CASE (\E n \in Counts : ReadCall(n)) \/ Condition \/ Wait \/ Walk \/ Clean
  <2>1. sent' = sent /\ got' = got /\ disposed' = disposed
    BY <1>6 DEF ReadCall, Condition, Wait, Walk, Clean, writer, user
  <2> QED
    BY <1>3, <2>1
<1>7. CASE ConditionFails \/ Signal
  <2>1. CASE Return
    <3>1. got = <<>> /\ r.dispose = NONE /\ UNCHANGED <<ring, writer, disposed>>
      BY <1>1, <1>2, <1>7, NothingUsed DEF ConditionFails, Signal, Reading, Fresh
    <3> QED
      BY <1>1, <1>2, <2>1, <3>1, NothingReturned
  <2>2. CASE ~Return
    <3>1. sent' = sent /\ got' = got /\ disposed' = disposed
      BY <1>7, <2>2 DEF ConditionFails, Signal, writer, user
    <3> QED
      BY <1>3, <3>1
  <2> QED
    BY <2>1, <2>2
<1>8. CASE Fragment
  BY <1>1, <1>2, <1>8, FragmentStays
<1>9. CASE Dispose
  <2>1. Queue' = Queue /\ sent' = sent
    BY <1>1, <1>2, <1>9, DisposeReads DEF Dispose, writer
  <2> QED
    BY <2>1, QueueStays
<1>10. CASE Loop
  <2>1. CASE Return
    BY <1>1, <1>2, <1>10, <2>1, MessageIsGot DEF Messages!Next
  <2>2. CASE ~Return
    <3>1. sent' = sent /\ got' = got /\ disposed' = disposed
      BY <1>10, <2>2 DEF Loop, writer, user
    <3> QED
      BY <1>3, <3>1
  <2> QED
    BY <2>1, <2>2
<1>11. CASE CopyFault
  BY <1>1, <1>2, <1>11, BeginningIsSpoilt DEF Messages!Next
<1>12. CASE UNCHANGED rxvars
  <2>1. sent' = sent /\ got' = got /\ disposed' = disposed
    BY <1>12 DEF rxvars, writer, reader, user
  <2> QED
    BY <1>3, <2>1
<1> QED
  BY <1>4, <1>5, <1>6, <1>7, <1>8, <1>9, <1>10, <1>11, <1>12 DEF RxNext, ReaderStep

LEMMA MinIs ==
    ASSUME NEW a \in Int, NEW b \in Int
    PROVE  Min({a, b}) = IF a <= b THEN a ELSE b
<1> DEFINE x == IF a <= b THEN a ELSE b
<1>1. x \in {a, b} /\ \A y \in {a, b} : x <= y
  OBVIOUS
<1>2. \A z \in {a, b} : (\A y \in {a, b} : z <= y) => z = x
  OBVIOUS
<1> HIDE DEF x
<1>3. Min({a, b}) = x
  BY <1>1, <1>2 DEF Min
<1> QED
  BY <1>3 DEF x

(* What a fragment adds to the user's buffer is its packet's payload.      *)
LEMMA FragmentIsCopied ==
    ASSUME RxTypes, NEW f, Inv(f), Reading(f), rpc = "frag", r.idx # NONE, UseFragment,
           UNCHANGED <<ring, writer, disposed>>, ~early'
    PROVE  \/ UNCHANGED user
           \/ \E n \in 1 .. Len(sent) : /\ got' = Append(got, n)
                                        /\ ubuf' = ubuf \o Cut(n, r.count - 2 - Len(ubuf))
<1>1. PICK n \in f .. Len(sent) : n \notin disposed /\ r.idx = sent[n].at /\ Shown(n) >= 3
  BY DEF Inv, Holding, Adrift, PKTHDRSIZE
<1>2. /\ n \in 1 .. Len(sent) /\ Len(sent) \in Nat
      /\ sent[n].len \in 2 .. LinkBufSize /\ Sz(n) \in 5 .. LinkBufSize + 3 /\ sent[n].at \in 0 .. Size - 1
      /\ Sz(n) = sent[n].len + 3
  <2>1. n \in 1 .. Len(sent) /\ Len(sent) \in Nat
    BY Fits DEF Inv
  <2> QED
    BY <2>1, Sizes DEF Sz, PKTHDRSIZE
<1>3. LenAt(r.idx) = sent[n].len /\ PacketAt(r.idx) = n
  BY <1>1, HeaderIs, PacketAtIs DEF Inv
<1>4. CASE ~SameConnection
  BY <1>4 DEF UseFragment
<1>5. CASE SameConnection
  <2>1. ubuf' = ubuf \o [k \in 1 .. Fit |-> ByteAt(r.idx, 1 + k)] /\ got' = Append(got, n)
    BY <1>3, <1>5 DEF UseFragment
  <2>2. Shown(n) = Sz(n)
    <3>1. ~Short(r.idx, sent[n].len)
      BY <1>3 DEF UseFragment
    <3>2. CASE Whole(n)
      BY <3>2 DEF Shown
    <3>3. CASE ~Whole(n)
      <4>1. n = Len(sent) /\ wpc \in {"header", "copy"} /\ Packet.at = r.idx
        BY <1>1, <1>2, <3>3 DEF Whole, RxTypes, Packet
      <4>2. ~(wk < PKTHDRSIZE + sent[n].len) /\ Shown(n) = wk /\ wk \in Nat
        BY <3>1, <3>3, <4>1 DEF Short, Shown, RxTypes
      <4>3. Shown(n) \in 0 .. Sz(n)
        BY Fits DEF Inv
      <4> QED
        BY <1>2, <4>2, <4>3, Settings DEF PKTHDRSIZE
    <3> QED
      BY <3>2, <3>3
  <2>3. /\ r.count \in Int /\ r.pktlen \in Int /\ Len(ubuf) \in Int /\ r.pktlen = 2 + Len(ubuf)
        /\ sent[n].len - 2 \in Int /\ r.count - 2 - Len(ubuf) \in Int
    <3>1. r \in Reads /\ r.pktlen = 2 + Len(ubuf) /\ ubuf \in Seq(Nat)
      BY DEF RxTypes
    <3>2. r.count \in Int /\ r.pktlen \in Int /\ Len(ubuf) \in Int
      BY <3>1 DEF Reads
    <3>3. sent[n].len \in Int
      BY <1>2, Settings
    <3> QED
      BY <3>1, <3>2, <3>3
  <2> DEFINE l == sent[n].len
             p == r.pktlen
             c == r.count
             u == Len(ubuf)
             w == Min({l - 2, c - 2 - u})
  <2>4. w = IF l - 2 <= c - 2 - u THEN l - 2 ELSE c - 2 - u
    BY <2>3, MinIs
  <2>5. Fit = IF p >= c THEN 0 ELSE IF p + (l - 2) > c THEN c - p ELSE l - 2
    BY <1>3 DEF Fit
  <2>6. c \in Int /\ p \in Int /\ u \in Int /\ p = 2 + u /\ l \in Int /\ l >= 2
    BY <1>2, <2>3, Settings
  <2> HIDE DEF l, p, c, u, w
  <2>7. 1 .. Fit = 1 .. w /\ \A k \in 1 .. Fit : k \in Int /\ 1 <= k /\ k <= l - 2
    BY <2>4, <2>5, <2>6
  <2>8. ASSUME NEW k \in 1 .. Fit PROVE ByteAt(r.idx, 1 + k) = PayloadByte(n)
    <3> DEFINE i == sent[n].at
    <3>1. k \in Int /\ 1 <= k /\ k <= l - 2 /\ Shown(n) = l + 3 /\ i \in Int
      BY <1>2, <2>2, <2>7, Settings DEF l
    <3> HIDE DEF i
    <3>2. /\ 4 + k \in 0 .. Shown(n) - 1 /\ i + 3 + (1 + k) = i + (4 + k)
          /\ 4 + k # 0 /\ 4 + k # 1 /\ 4 + k # 2 /\ 4 + k # 3 /\ 4 + k # 4
      BY ONLY <2>6, <3>1
    <3>3. data[(i + (4 + k)) % Size] = PacketOf(n, 4 + k)
      BY <3>2 DEF Inv, Contents, i
    <3>4. PacketOf(n, 4 + k) = PayloadByte(n)
      BY <3>2 DEF PacketOf
    <3> QED
      BY <1>1, <3>2, <3>3, <3>4 DEF ByteAt, PKTHDRSIZE, i
  <2>9. [k \in 1 .. Fit |-> ByteAt(r.idx, 1 + k)] = Cut(n, r.count - 2 - Len(ubuf))
    BY <2>7, <2>8 DEF Cut, w, l, c, u
  <2> QED
    BY <1>2, <2>1, <2>9
<1> QED
  BY <1>4, <1>5

LEMMA RxJCopies == RxJInv /\ [RxNext]_rxvars =>
    (~early' => \/ UNCHANGED user \/ user' = <<<<>>, <<>>>>
                \/ \E n \in 1 .. Len(sent) : /\ got' = Append(got, n)
                                             /\ ubuf' = ubuf \o Cut(n, r.count - 2 - Len(ubuf)))
<1> SUFFICES ASSUME RxJInv, [RxNext]_rxvars, ~early', ~UNCHANGED user, user' # <<<<>>, <<>>>>
             PROVE  \E n \in 1 .. Len(sent) : /\ got' = Append(got, n)
                                             /\ ubuf' = ubuf \o Cut(n, r.count - 2 - Len(ubuf))
  OBVIOUS
<1>1. RxTypes
  BY DEF RxJInv
<1>2. PICK f \in 1 .. Len(sent) + 1 : Inv(f) /\ Reading(f)
  BY DEF RxJInv
<1>3. ~Return
  BY DEF Return, user
<1>4. Fragment
  BY <1>3 DEF RxNext, rxvars, WriterStep, ReaderStep, ReadFragment, WriteByte, PktWrite, WakeUp, ReadCall,
              Condition, ConditionFails, Wait, Signal, Walk, CopyFault, Dispose, Clean, Loop, reader
<1>5. rpc = "frag" /\ r.idx # NONE /\ UseFragment /\ UNCHANGED <<ring, writer, disposed>>
  BY <1>3, <1>4 DEF Fragment
<1> QED
  BY <1>1, <1>2, <1>5, FragmentIsCopied

LEMMA NothingWaits == RxInit => Messages!Init
<1> SUFFICES ASSUME RxInit PROVE Messages!Init
  OBVIOUS
<1>1. Len(sent) = 0
  BY DEF RxInit
<1>2. 1 .. Len(sent) = {}
  BY <1>1
<1> QED
  BY <1>1, <1>2 DEF Messages!Init

(* Every read finds the message it saw the end of, and returns fragments   *)
(* of one connection, of which only the last has none after it, for every  *)
(* number of connections and packets, sizes and lengths: what the read     *)
(* condition of dvb_ca_en50221_io_read has seen is still there when        *)
(* io_read walks the ring a second time, whatever the thread has added.    *)
(* It does not hold of a read that went early: that used bytes before they *)
(* were written, or looked past the end of a ring full to its last byte.   *)
THEOREM MessagesAreWhole == RxSpec => []MessageWhole
<1>1. RxInit => RxJInv
  BY RxJInitially
<1>2. RxJInv /\ [RxNext]_rxvars => RxJInv'
  BY RxJStep
<1>3. RxJInv => MessageWhole
  BY RxJImplies
<1> QED
  BY <1>1, <1>2, <1>3, PTL DEF RxSpec

(* What dvb_ca_en50221_io_read copies for a fragment is the payload of the *)
(* packet the CAM sent, cut at the size of the user's buffer: no byte of   *)
(* another packet and none of a header, wherever in the ring it lies.      *)
THEOREM ReadsCopyWhatWasSent == RxSpec => CopiesWhatWasSent
<1>1. RxInit => RxJInv
  BY RxJInitially
<1>2. RxJInv /\ [RxNext]_rxvars => RxJInv'
  BY RxJStep
<1> DEFINE A == ~early' => \/ UNCHANGED user \/ user' = <<<<>>, <<>>>>
                           \/ \E n \in 1 .. Len(sent) : /\ got' = Append(got, n)
                                                        /\ ubuf' = ubuf \o Cut(n, r.count - 2 - Len(ubuf))
<1>3. RxJInv /\ [RxNext]_rxvars => [A]_rxvars
  BY RxJCopies
<1> QED
  BY <1>1, <1>2, <1>3, PTL DEF RxSpec, CopiesWhatWasSent

(* The packet ring, its disposed packets and the two passes of io_read     *)
(* implement CaMessages: each read takes exactly the first message out of  *)
(* a queue, fragments of other connections in between stay, and none is    *)
(* lost or read twice, but for the beginning of a message whose copy       *)
(* faults.                                                                 *)
THEOREM ReadsTakeMessages == RxSpec => ReadsAreMessages
<1>1. RxInit => RxJInv
  BY RxJInitially
<1>2. RxJInv /\ [RxNext]_rxvars => RxJInv'
  BY RxJStep
<1>3. RxInit => Messages!Init
  BY NothingWaits
<1>4. RxJInv /\ [RxNext]_rxvars => [Messages!Next]_(Messages!vars)
  BY ReadsFollow
<1> QED
  BY <1>1, <1>2, <1>3, <1>4, PTL DEF RxSpec, ReadsAreMessages, Messages!Spec

---------------------------------------------------------------------------
(* The state machine (CaSlot)                                              *)

(* Where the three of them can be, on their way to a store or a wake-up    *)
(* too, and what a store has loaded.                                       *)
ThreadPlaces == {"top", "nap", "asleep", "clear", "lock", "unlock", "check", "shutdown", "renew",
                 "handled", "machine", "link", "data", "more", "store"}
IrqPlaces  == {"idle", "inserted", "removed", "count", "ready", "store", "wake"}
UserPlaces == {"closed", "opened", "ready", "fragment", "wlock", "write", "again", "written",
               "reset", "rtype", "rcount", "runlock", "store", "wake"}

Stored(p) == pc[p] = "store" =>
    /\ reg[p].bit \in {"open", "wakeup"} /\ reg[p].val \in BOOLEAN
    /\ reg[p].other \in BOOLEAN /\ reg[p].wake \in BOOLEAN

Then(p) == pc[p] \in {"store", "wake"}

Places ==
    /\ DOMAIN pc = {"thread", "irq", "user"} /\ DOMAIN reg = {"thread", "irq", "user"}
    /\ pc.thread \in ThreadPlaces /\ pc.irq \in IrqPlaces /\ pc.user \in UserPlaces
    /\ Stored("thread") /\ Stored("irq") /\ Stored("user")
    /\ Then("thread") => reg["thread"].then \in {"lock", "unlock"} /\ reg["thread"].wake = FALSE
    /\ Then("irq") => reg["irq"].then = "idle"
    /\ Then("user") => reg["user"].then \in {"opened", "ready", "closed", "again", "runlock"}

(* What the variables hold.                                                *)
Types ==
    /\ IrqMode \in BOOLEAN /\ slot_state \in States /\ type \in {"INSERTED", "REMOVED"}
    /\ count \in Nat /\ ts \in BOOLEAN /\ lock \in {NOBODY, "thread", "user"}
    /\ flags \in [open : BOOLEAN, wakeup : BOOLEAN]
    /\ cams \in Nat /\ cam \in 0 .. cams /\ linked \in 0 .. cams
    /\ events \in 0 .. MaxEvents

(* Before anything happened to the slot nothing has reached it.            *)
Untouched == events = 0 =>
    /\ cam = 0 /\ slot_state = "NONE" /\ type = "REMOVED" /\ count = 0
    /\ pc.irq = "idle" /\ pc.user = "closed" /\ pc.thread \notin {"link", "data", "more"}

(* The changes that are counted, being counted, or to be counted when the  *)
(* CAM that is there will be removed: two for each event.                  *)
One(b) == IF b THEN 1 ELSE 0
Changes == count + One(pc.irq \in {"inserted", "removed", "count"})
                 + One(pc.user \in {"reset", "rtype", "rcount"}) + One(cam # 0)

(* Polled, one change is noted at a time.  A change that the thread        *)
(* handles is counted as long as it handles it.                            *)
Counted ==
    /\ IrqMode => Changes <= 2 * events
    /\ ~IrqMode => count <= 1 /\ pc.irq = "idle" /\ pc.user \notin {"rtype", "rcount"}
    /\ pc.thread \in {"shutdown", "renew", "handled"} => count >= 1

(* The fragments received, since one is an event; the packets of an        *)
(* iteration; the fragments of a write.                                    *)
Received == rx \in Seq(BOOLEAN) /\ Len(rx) <= events
Limited  == pktcount \in 0 .. MaxRx /\ (pc.thread \in {"data", "more"} => pktcount < MaxRx)
Writing  == \/ pc.user \in {"fragment", "wlock", "write", "again"}
            \/ Then("user") /\ reg["user"].then = "again"
Written  == /\ written \in 0 .. 2
            /\ Writing => written <= 1
            /\ ~Writing /\ pc.user # "written" => written = 0

(* A change that is being handled has taken the slot out of RUNNING before *)
(* it is no longer counted.                                                *)
Handling == pc.thread \in {"renew", "handled"} => slot_state # "RUNNING"

(* With no change to handle, the link of a slot that runs is the link of   *)
(* the CAM that is there.                                                  *)
Linked ==
    /\ slot_state = "RUNNING" /\ count = 0 /\ pc.irq \notin {"inserted", "removed", "count"}
         => linked = cam
    /\ slot_state = "NONE" => ~ts

IInv ==
    /\ Places /\ Types /\ Untouched /\ Counted /\ Received /\ Limited /\ Written /\ Handling
    /\ IrqMode => Linked

---------------------------------------------------------------------------
(* The steps, one lemma for each or for a few of a kind; all need these.   *)
USE DEF BoundsAssumption, IInv, Places, Types, Stored, Then, ThreadPlaces, IrqPlaces,
        UserPlaces, States, NOBODY, slot, hw

(* The thread stores one of the bits, and the other with it.               *)
LEMMA ThreadStoreKeeps ==
    ASSUME BoundsAssumption, IInv, Store("thread")
    PROVE  IInv'
<1> USE DEF Store, Go, NoStore
<1>1. Places'
  OBVIOUS
<1>2. Types'
  OBVIOUS
<1>3. Untouched'
  BY DEF Untouched
<1>4. Counted'
  BY DEF Untouched, Counted, Changes, One
<1>5. Received'
  BY DEF Received
<1>6. Limited'
  BY DEF Limited
<1>7. Written'
  BY DEF Written, Writing
<1>8. Handling'
  BY DEF Handling
<1>9. (IrqMode => Linked)'
  BY DEF Linked, Counted, Handling, Untouched
<1> QED
  BY <1>1, <1>2, <1>3, <1>4, <1>5, <1>6, <1>7, <1>8, <1>9

(* The interrupt handler does.                                             *)
LEMMA IrqStoreKeeps ==
    ASSUME BoundsAssumption, IInv, Store("irq")
    PROVE  IInv'
<1> USE DEF Store, Go, NoStore
<1>1. Places'
  OBVIOUS
<1>2. Types'
  OBVIOUS
<1>3. Untouched'
  BY DEF Untouched
<1>4. Counted'
  BY DEF Untouched, Counted, Changes, One
<1>5. Received'
  BY DEF Received
<1>6. Limited'
  BY DEF Limited
<1>7. Written'
  BY DEF Written, Writing
<1>8. Handling'
  BY DEF Handling
<1>9. (IrqMode => Linked)'
  BY DEF Linked, Counted, Handling, Untouched
<1> QED
  BY <1>1, <1>2, <1>3, <1>4, <1>5, <1>6, <1>7, <1>8, <1>9

(* The user does.                                                          *)
LEMMA UserStoreKeeps ==
    ASSUME BoundsAssumption, IInv, Store("user")
    PROVE  IInv'
<1> USE DEF Store, Go, NoStore
<1>1. Places'
  OBVIOUS
<1>2. Types'
  OBVIOUS
<1>3. Untouched'
  BY DEF Untouched
<1>4. Counted'
  BY DEF Untouched, Counted, Changes, One
<1>5. Received'
  BY DEF Received
<1>6. Limited'
  BY DEF Limited
<1>7. Written'
  BY DEF Written, Writing
<1>8. Handling'
  BY DEF Handling
<1>9. (IrqMode => Linked)'
  BY DEF Linked, Counted, Handling, Untouched
<1> QED
  BY <1>1, <1>2, <1>3, <1>4, <1>5, <1>6, <1>7, <1>8, <1>9

(* wake_up_process, called by the interrupt handler.                       *)
LEMMA IrqWakesKeeps ==
    ASSUME BoundsAssumption, IInv, WakeProcess("irq")
    PROVE  IInv'
<1> USE DEF WakeProcess, NoStore
<1>1. Places'
  <2>1. CASE pc.thread = "asleep"
    BY ZenonT(30), <2>1
  <2>2. CASE pc.thread # "asleep"
    <3>1. pc' = [pc EXCEPT !["irq"] = reg["irq"].then]
      BY <2>2
    <3>2. /\ DOMAIN pc' = {"thread", "irq", "user"} /\ DOMAIN reg' = {"thread", "irq", "user"}
          /\ pc'["thread"] = pc["thread"] /\ reg'["thread"] = reg["thread"]
          /\ pc'["user"] = pc["user"] /\ reg'["user"] = reg["user"]
          /\ pc'["irq"] \in {"idle"}
      BY <3>1
    <3> HIDE DEF WakeProcess
    <3>3. Stored("user")' /\ Stored("irq")' /\ Stored("thread")'
      BY <3>2
    <3> QED
      BY <3>2, <3>3
  <2> QED
    BY <2>1, <2>2
<1>2. Types'
  BY ZenonT(30)
<1>3. Untouched'
  BY DEF Untouched
<1>4. Counted'
  BY ZenonT(30) DEF Untouched, Counted, Changes, One
<1>5. Received'
  BY DEF Received
<1>6. Limited'
  BY DEF Limited
<1>7. Written'
  BY ZenonT(30) DEF Written, Writing
<1>8. Handling'
  BY DEF Handling
<1>9. (IrqMode => Linked)'
  BY DEF Linked, Counted, Handling, Untouched
<1> QED
  BY <1>1, <1>2, <1>3, <1>4, <1>5, <1>6, <1>7, <1>8, <1>9

(* ... and by the user's call.                                             *)
LEMMA UserWakesKeeps ==
    ASSUME BoundsAssumption, IInv, WakeProcess("user")
    PROVE  IInv'
<1> USE DEF WakeProcess, NoStore
<1>1. Places'
  <2>1. CASE pc.thread = "asleep"
    BY ZenonT(30), <2>1
  <2>2. CASE pc.thread # "asleep"
    <3>1. pc' = [pc EXCEPT !["user"] = reg["user"].then]
      BY <2>2
    <3>2. /\ DOMAIN pc' = {"thread", "irq", "user"} /\ DOMAIN reg' = {"thread", "irq", "user"}
          /\ pc'["thread"] = pc["thread"] /\ reg'["thread"] = reg["thread"]
          /\ pc'["irq"] = pc["irq"] /\ reg'["irq"] = reg["irq"]
          /\ pc'["user"] \in {"opened", "ready", "closed", "again", "runlock"}
      BY <3>1
    <3> HIDE DEF WakeProcess
    <3>3. Stored("irq")' /\ Stored("user")' /\ Stored("thread")'
      BY <3>2
    <3> QED
      BY <3>2, <3>3
  <2> QED
    BY <2>1, <2>2
<1>2. Types'
  BY ZenonT(30)
<1>3. Untouched'
  BY DEF Untouched
<1>4. Counted'
  <2>1. pc'["user"] \in {"opened", "ready", "closed", "again", "runlock"} /\ pc["user"] = "wake" /\ pc'["irq"] = pc["irq"]
    OBVIOUS
  <2>2. pc'["thread"] \in {"shutdown", "renew", "handled"} => pc["thread"] = pc'["thread"]
    OBVIOUS
  <2>3. Changes' = Changes
    BY <2>1 DEF Changes, One
  <2> QED
    BY <2>1, <2>2, <2>3 DEF Counted
<1>5. Received'
  BY DEF Received
<1>6. Limited'
  BY DEF Limited
<1>7. Written'
  BY DEF Written, Writing
<1>8. Handling'
  BY DEF Handling
<1>9. (IrqMode => Linked)'
  BY DEF Linked, Counted, Handling, Untouched
<1> QED
  BY <1>1, <1>2, <1>3, <1>4, <1>5, <1>6, <1>7, <1>8, <1>9

(* A CAM is inserted: the change will be counted, and its removal later.   *)
LEMMA InsertKeeps ==
    ASSUME BoundsAssumption, IInv, InsertCam
    PROVE  IInv'
<1> USE DEF InsertCam, Event
<1>1. Places'
  OBVIOUS
<1>2. Types'
  OBVIOUS
<1>3. Untouched'
  BY DEF Untouched
<1>4. Counted'
  BY DEF Untouched, Counted, Changes, One
<1>5. Received'
  BY DEF Received
<1>6. Limited'
  BY DEF Limited
<1>7. Written'
  BY DEF Written, Writing
<1>8. Handling'
  BY DEF Handling
<1>9. (IrqMode => Linked)'
  BY DEF Linked, Counted, Handling, Untouched
<1> QED
  BY <1>1, <1>2, <1>3, <1>4, <1>5, <1>6, <1>7, <1>8, <1>9

(* A CAM is removed.                                                       *)
LEMMA RemoveKeeps ==
    ASSUME BoundsAssumption, IInv, RemoveCam
    PROVE  IInv'
<1> USE DEF RemoveCam
<1>1. Places'
  OBVIOUS
<1>2. Types'
  OBVIOUS
<1>3. Untouched'
  BY DEF Untouched
<1>4. Counted'
  BY DEF Untouched, Counted, Changes, One
<1>5. Received'
  BY DEF Received
<1>6. Limited'
  BY DEF Limited
<1>7. Written'
  BY DEF Written, Writing
<1>8. Handling'
  BY DEF Handling
<1>9. (IrqMode => Linked)'
  BY DEF Linked, Counted, Handling, Untouched
<1> QED
  BY <1>1, <1>2, <1>3, <1>4, <1>5, <1>6, <1>7, <1>8, <1>9

(* dvb_ca_en50221_camchange_irq counts the change.                         *)
LEMMA CamChangeCountKeeps ==
    ASSUME BoundsAssumption, IInv, CamChangeCount
    PROVE  IInv'
<1> USE DEF CamChangeCount, ThreadWakeup, Stores, Other
<1>1. Places'
  OBVIOUS
<1>2. Types'
  OBVIOUS
<1>3. Untouched'
  BY DEF Untouched
<1>4. Counted'
  BY DEF Untouched, Counted, Changes, One
<1>5. Received'
  BY DEF Received
<1>6. Limited'
  BY DEF Limited
<1>7. Written'
  BY DEF Written, Writing
<1>8. Handling'
  BY DEF Handling
<1>9. (IrqMode => Linked)'
  BY DEF Linked, Counted, Handling, Untouched
<1> QED
  BY <1>1, <1>2, <1>3, <1>4, <1>5, <1>6, <1>7, <1>8, <1>9

(* dvb_ca_en50221_camready_irq sets the state it has tested before.        *)
LEMMA CamReadySetKeeps ==
    ASSUME BoundsAssumption, IInv, CamReadySet
    PROVE  IInv'
<1> USE DEF CamReadySet, ThreadWakeup, Stores, Other
<1>1. Places'
  OBVIOUS
<1>2. Types'
  OBVIOUS
<1>3. Untouched'
  BY DEF Untouched
<1>4. Counted'
  BY DEF Untouched, Counted, Changes, One
<1>5. Received'
  BY DEF Received
<1>6. Limited'
  BY DEF Limited
<1>7. Written'
  BY DEF Written, Writing
<1>8. Handling'
  BY DEF Handling
<1>9. (IrqMode => Linked)'
  BY DEF Linked, Counted, Handling, Untouched
<1> QED
  BY <1>1, <1>2, <1>3, <1>4, <1>5, <1>6, <1>7, <1>8, <1>9

(* dvb_ca_en50221_frda_irq                                                 *)
LEMMA FrDaKeeps ==
    ASSUME BoundsAssumption, IInv, FrDa
    PROVE  IInv'
<1> USE DEF FrDa, ThreadWakeup, Stores, Other
<1>1. Places'
  OBVIOUS
<1>2. Types'
  OBVIOUS
<1>3. Untouched'
  BY DEF Untouched
<1>4. Counted'
  BY DEF Untouched, Counted, Changes, One
<1>5. Received'
  BY DEF Received
<1>6. Limited'
  BY DEF Limited
<1>7. Written'
  BY DEF Written, Writing
<1>8. Handling'
  BY DEF Handling
<1>9. (IrqMode => Linked)'
  BY DEF Linked, Counted, Handling, Untouched
<1> QED
  BY <1>1, <1>2, <1>3, <1>4, <1>5, <1>6, <1>7, <1>8, <1>9

(* dvb_ca_en50221_thread: ca->wakeup = 0                                   *)
LEMMA ClearWakeupKeeps ==
    ASSUME BoundsAssumption, IInv, ClearWakeup
    PROVE  IInv'
<1> USE DEF ClearWakeup, Stores, Other
<1>1. Places'
  OBVIOUS
<1>2. Types'
  OBVIOUS
<1>3. Untouched'
  BY DEF Untouched
<1>4. Counted'
  BY DEF Untouched, Counted, Changes, One
<1>5. Received'
  BY DEF Received
<1>6. Limited'
  BY DEF Limited
<1>7. Written'
  BY DEF Written, Writing
<1>8. Handling'
  BY DEF Handling
<1>9. (IrqMode => Linked)'
  BY DEF Linked, Counted, Handling, Untouched
<1> QED
  BY <1>1, <1>2, <1>3, <1>4, <1>5, <1>6, <1>7, <1>8, <1>9

(* dvb_ca_en50221_check_camstatus                                          *)
LEMMA CheckCamStatusKeeps ==
    ASSUME BoundsAssumption, IInv, CheckCamStatus
    PROVE  IInv'
<1> USE DEF CheckCamStatus, Go, NoteChange, Changed, Polled
<1>1. Places'
  OBVIOUS
<1>2. Types'
  OBVIOUS
<1>3. Untouched'
  BY DEF Untouched
<1>4. Counted'
  BY DEF Untouched, Counted, Changes, One
<1>5. Received'
  BY DEF Received
<1>6. Limited'
  BY DEF Limited
<1>7. Written'
  BY DEF Written, Writing
<1>8. Handling'
  BY DEF Handling
<1>9. (IrqMode => Linked)'
  BY DEF Linked, Counted, Handling, Untouched
<1> QED
  BY <1>1, <1>2, <1>3, <1>4, <1>5, <1>6, <1>7, <1>8, <1>9

(* A change is handled: the slot is shut down, ...                         *)
LEMMA ChangeShutdownKeeps ==
    ASSUME BoundsAssumption, IInv, ChangeShutdown
    PROVE  IInv'
<1> USE DEF ChangeShutdown, Go, Shutdown
<1>1. Places'
  OBVIOUS
<1>2. Types'
  OBVIOUS
<1>3. Untouched'
  BY DEF Untouched
<1>4. Counted'
  BY DEF Untouched, Counted, Changes, One
<1>5. Received'
  BY DEF Received
<1>6. Limited'
  BY DEF Limited
<1>7. Written'
  BY DEF Written, Writing
<1>8. Handling'
  BY DEF Handling
<1>9. (IrqMode => Linked)'
  BY DEF Linked, Counted, Handling, Untouched
<1> QED
  BY <1>1, <1>2, <1>3, <1>4, <1>5, <1>6, <1>7, <1>8, <1>9

(* ... begins again if there is a CAM, ...                                 *)
LEMMA ChangeRenewKeeps ==
    ASSUME BoundsAssumption, IInv, ChangeRenew
    PROVE  IInv'
<1> USE DEF ChangeRenew, Go
<1>1. Places'
  OBVIOUS
<1>2. Types'
  OBVIOUS
<1>3. Untouched'
  BY DEF Untouched
<1>4. Counted'
  BY DEF Untouched, Counted, Changes, One
<1>5. Received'
  BY DEF Received
<1>6. Limited'
  BY DEF Limited
<1>7. Written'
  BY DEF Written, Writing
<1>8. Handling'
  BY DEF Handling
<1>9. (IrqMode => Linked)'
  BY DEF Linked, Counted, Handling, Untouched
<1> QED
  BY <1>1, <1>2, <1>3, <1>4, <1>5, <1>6, <1>7, <1>8, <1>9

(* ... and the change is no longer counted.                                *)
LEMMA ChangeHandledKeeps ==
    ASSUME BoundsAssumption, IInv, ChangeHandled
    PROVE  IInv'
<1> USE DEF ChangeHandled, Go, Handled
<1>1. Places'
  BY DEF Counted
<1>2. Types'
  BY DEF Counted
<1>3. Untouched'
  BY DEF Untouched, Counted
<1>4. Counted'
  BY DEF Untouched, Counted, Changes, One
<1>5. Received'
  BY DEF Received
<1>6. Limited'
  BY DEF Limited
<1>7. Written'
  BY DEF Written, Writing
<1>8. Handling'
  BY DEF Handling
<1>9. (IrqMode => Linked)'
  BY DEF Linked, Counted, Handling, Untouched
<1> QED
  BY <1>1, <1>2, <1>3, <1>4, <1>5, <1>6, <1>7, <1>8, <1>9

(* The states before the link, and RUNNING.                                *)
LEMMA StateMachineKeeps ==
    ASSUME BoundsAssumption, IInv, StateMachine
    PROVE  IInv'
<1> USE DEF StateMachine, Idle, Uninitialised, WaitReady, Expired, Validate, WaitFr,
            LinkInit, Running, In, Becomes, BecomesAwake, PollCamGone, Polled, Fails,
            Works, Event, Stores, Other
<1>1. Places'
  <2>1. pc["thread"] = "machine"
    OBVIOUS
  <2>2. \/ pc' = [pc EXCEPT !.thread = pc'["thread"]] /\ pc'["thread"] \in {"link", "data", "unlock"} /\ UNCHANGED reg
        \/ \E s \in States : BecomesAwake(s)
    <3> HIDE DEF BecomesAwake
    <3>1. CASE Idle \/ Uninitialised \/ WaitReady \/ Expired
      BY <3>1
    <3>2. CASE Validate \/ WaitFr
      BY <3>2
    <3>3. CASE LinkInit \/ Running
      BY <3>3
    <3> QED
      BY <3>1, <3>2, <3>3
  <2>4. CASE pc'["thread"] \in {"link", "data", "unlock"} /\ UNCHANGED reg /\ pc' = [pc EXCEPT !.thread = pc'["thread"]]
    <3>1. /\ DOMAIN pc' = {"thread", "irq", "user"}
          /\ \A p \in {"irq", "user"} : pc'[p] = pc[p]
      BY <2>4
    <3> HIDE DEF StateMachine, Idle, Uninitialised, WaitReady, Expired, Validate, WaitFr, LinkInit, Running
    <3> QED
      BY <2>1, <2>4, <3>1
  <2>3. CASE \E s \in States : BecomesAwake(s)
    BY <2>1, <2>3
  <2> QED
    BY <2>2, <2>3, <2>4
<1>2. Types'
  OBVIOUS
<1>3. Untouched'
  BY DEF Untouched
<1>4. Counted'
  BY DEF Untouched, Counted, Changes, One
<1>5. Received'
  BY DEF Received
<1>6. Limited'
  BY DEF Limited
<1>7. Written'
  BY DEF Written, Writing
<1>8. Handling'
  BY DEF Handling
<1>9. (IrqMode => Linked)'
  BY DEF Linked, Counted, Handling, Untouched
<1> QED
  BY <1>1, <1>2, <1>3, <1>4, <1>5, <1>6, <1>7, <1>8, <1>9

(* The initialisation of the link fails.                                   *)
LEMMA LinkFailsKeeps ==
    ASSUME BoundsAssumption, IInv, LinkFails
    PROVE  IInv'
<1> USE DEF LinkFails, PollCamGone, Becomes, Polled, Fails, Event
<1>1. Places'
  OBVIOUS
<1>2. Types'
  OBVIOUS
<1>3. Untouched'
  BY DEF Untouched
<1>4. Counted'
  BY DEF Untouched, Counted, Changes, One
<1>5. Received'
  BY DEF Received
<1>6. Limited'
  BY DEF Limited
<1>7. Written'
  BY DEF Written, Writing
<1>8. Handling'
  BY DEF Handling
<1>9. (IrqMode => Linked)'
  BY DEF Linked, Counted, Handling, Untouched
<1> QED
  BY <1>1, <1>2, <1>3, <1>4, <1>5, <1>6, <1>7, <1>8, <1>9

(* It succeeds: the CAM that is there now is the one linked.               *)
LEMMA LinkDoneKeeps ==
    ASSUME BoundsAssumption, IInv, LinkDone
    PROVE  IInv'
<1> USE DEF LinkDone, Works, Becomes
<1>1. Places'
  OBVIOUS
<1>2. Types'
  OBVIOUS
<1>3. Untouched'
  BY DEF Untouched
<1>4. Counted'
  BY DEF Untouched, Counted, Changes, One
<1>5. Received'
  BY DEF Received
<1>6. Limited'
  BY DEF Limited
<1>7. Written'
  BY DEF Written, Writing
<1>8. Handling'
  BY DEF Handling
<1>9. (IrqMode => Linked)'
  BY DEF Linked, Counted, Handling, Untouched
<1> QED
  BY <1>1, <1>2, <1>3, <1>4, <1>5, <1>6, <1>7, <1>8, <1>9

(* dvb_ca_en50221_read_data receives a fragment.                           *)
LEMMA ReadDataKeeps ==
    ASSUME BoundsAssumption, IInv, NEW more \in BOOLEAN, ReadData(more)
    PROVE  IInv'
<1> USE DEF ReadData, Event, Go
<1>1. Places'
  OBVIOUS
<1>2. Types'
  OBVIOUS
<1>3. Untouched'
  BY DEF Untouched
<1>4. Counted'
  BY DEF Untouched, Counted, Changes, One
<1>5. Received'
  BY DEF Received
<1>6. Limited'
  BY DEF Limited
<1>7. Written'
  BY DEF Written, Writing
<1>8. Handling'
  BY DEF Handling
<1>9. (IrqMode => Linked)'
  BY DEF Linked, Counted, Handling, Untouched
<1> QED
  BY <1>1, <1>2, <1>3, <1>4, <1>5, <1>6, <1>7, <1>8, <1>9

(* It meets an error.                                                      *)
LEMMA ReadErrorKeeps ==
    ASSUME BoundsAssumption, IInv, ReadError
    PROVE  IInv'
<1> USE DEF ReadError, Becomes, Fails, Event
<1>1. Places'
  OBVIOUS
<1>2. Types'
  OBVIOUS
<1>3. Untouched'
  BY DEF Untouched
<1>4. Counted'
  BY DEF Untouched, Counted, Changes, One
<1>5. Received'
  BY DEF Received
<1>6. Limited'
  BY DEF Limited
<1>7. Written'
  BY DEF Written, Writing
<1>8. Handling'
  BY DEF Handling
<1>9. (IrqMode => Linked)'
  BY DEF Linked, Counted, Handling, Untouched
<1> QED
  BY <1>1, <1>2, <1>3, <1>4, <1>5, <1>6, <1>7, <1>8, <1>9

(* After a fragment.                                                       *)
LEMMA MoreDataKeeps ==
    ASSUME BoundsAssumption, IInv, MoreData
    PROVE  IInv'
<1> USE DEF MoreData, NoteChange, Changed, Polled, Stores, Other
<1>1. Places'
  <2>1. /\ DOMAIN pc' = {"thread", "irq", "user"} /\ DOMAIN reg' = {"thread", "irq", "user"}
        /\ \A p \in {"irq", "user"} : pc'[p] = pc[p] /\ reg'[p] = reg[p]
    OBVIOUS
  <2>2. pc["thread"] = "more"
    OBVIOUS
  <2>3. \/ pc'["thread"] \in {"data", "unlock"}
        \/ /\ pc'["thread"] = "store"
           /\ reg'["thread"] = [bit |-> "wakeup", val |-> TRUE, wake |-> FALSE, then |-> "unlock", other |-> flags["open"]]
    OBVIOUS
  <2>4. pc'["irq"] = pc["irq"] /\ pc'["user"] = pc["user"] /\ reg'["irq"] = reg["irq"] /\ reg'["user"] = reg["user"]
    BY <2>1
  <2> HIDE DEF MoreData, Stores, NoteChange, Changed
  <2>5. Stored("irq")' /\ Stored("user")' /\ Stored("thread")'
    <3>1. flags["open"] \in BOOLEAN
      OBVIOUS
    <3>2. pc'["thread"] = "store" =>
            /\ reg'["thread"].bit = "wakeup" /\ reg'["thread"].val = TRUE /\ reg'["thread"].wake = FALSE
            /\ reg'["thread"].other = flags["open"]
      BY <2>3
    <3>3. Stored("thread")'
      BY ONLY <3>1, <3>2 DEF Stored
    <3> QED
      BY <2>4, <3>3
  <2>6. pc'["thread"] = "store" => reg'["thread"].then = "unlock" /\ reg'["thread"].wake = FALSE
    BY <2>3
  <2> QED
    BY <2>1, <2>3, <2>4, <2>5, <2>6
<1>2. Types'
  OBVIOUS
<1>3. Untouched'
  BY DEF Untouched
<1>4. Counted'
  BY DEF Untouched, Counted, Changes, One
<1>5. Received'
  BY DEF Received
<1>6. Limited'
  BY DEF Limited
<1>7. Written'
  BY DEF Written, Writing
<1>8. Handling'
  BY DEF Handling
<1>9. (IrqMode => Linked)'
  BY DEF Linked, Counted, Handling, Untouched
<1> QED
  BY <1>1, <1>2, <1>3, <1>4, <1>5, <1>6, <1>7, <1>8, <1>9

(* dvb_ca_en50221_io_read takes a message.                                 *)
LEMMA IoReadKeeps ==
    ASSUME BoundsAssumption, IInv, IoRead
    PROVE  IInv'
<1> USE DEF IoRead
<1>1. Places'
  OBVIOUS
<1>2. Types'
  OBVIOUS
<1>3. Untouched'
  BY DEF Untouched
<1>4. Counted'
  BY DEF Untouched, Counted, Changes, One
<1>5. Received'
  BY DEF Received
<1>6. Limited'
  BY DEF Limited
<1>7. Written'
  BY DEF Written, Writing
<1>8. Handling'
  BY DEF Handling
<1>9. (IrqMode => Linked)'
  BY DEF Linked, Counted, Handling, Untouched
<1> QED
  BY <1>1, <1>2, <1>3, <1>4, <1>5, <1>6, <1>7, <1>8, <1>9

(* dvb_ca_en50221_write_data writes a fragment.                            *)
LEMMA WriteDataKeeps ==
    ASSUME BoundsAssumption, IInv, WriteData
    PROVE  IInv'
<1> USE DEF WriteData, Works
<1>1. Places'
  OBVIOUS
<1>2. Types'
  OBVIOUS
<1>3. Untouched'
  BY DEF Untouched
<1>4. Counted'
  BY DEF Untouched, Counted, Changes, One
<1>5. Received'
  BY DEF Received
<1>6. Limited'
  BY DEF Limited
<1>7. Written'
  BY DEF Written, Writing
<1>8. Handling'
  BY DEF Handling
<1>9. (IrqMode => Linked)'
  BY DEF Linked, Counted, Handling, Untouched
<1> QED
  BY <1>1, <1>2, <1>3, <1>4, <1>5, <1>6, <1>7, <1>8, <1>9

(* It does not.                                                            *)
LEMMA WriteFailsKeeps ==
    ASSUME BoundsAssumption, IInv, WriteFails
    PROVE  IInv'
<1> USE DEF WriteFails, Fails, Event
<1>1. Places'
  OBVIOUS
<1>2. Types'
  OBVIOUS
<1>3. Untouched'
  BY DEF Untouched
<1>4. Counted'
  BY DEF Untouched, Counted, Changes, One
<1>5. Received'
  BY DEF Received
<1>6. Limited'
  BY DEF Limited
<1>7. Written'
  BY DEF Written, Writing
<1>8. Handling'
  BY DEF Handling
<1>9. (IrqMode => Linked)'
  BY DEF Linked, Counted, Handling, Untouched
<1> QED
  BY <1>1, <1>2, <1>3, <1>4, <1>5, <1>6, <1>7, <1>8, <1>9

(* It finds that the CAM has data.                                         *)
LEMMA WriteWakesKeeps ==
    ASSUME BoundsAssumption, IInv, WriteWakes
    PROVE  IInv'
<1> USE DEF WriteWakes, Fails, Event, ThreadWakeup, Stores, Other
<1>1. Places'
  OBVIOUS
<1>2. Types'
  OBVIOUS
<1>3. Untouched'
  BY DEF Untouched
<1>4. Counted'
  BY DEF Untouched, Counted, Changes, One
<1>5. Received'
  BY DEF Received
<1>6. Limited'
  BY DEF Limited
<1>7. Written'
  BY DEF Written, Writing
<1>8. Handling'
  BY DEF Handling
<1>9. (IrqMode => Linked)'
  BY DEF Linked, Counted, Handling, Untouched
<1> QED
  BY <1>1, <1>2, <1>3, <1>4, <1>5, <1>6, <1>7, <1>8, <1>9

(* CA_RESET counts the change it pretends.                                 *)
LEMMA ResetCountKeeps ==
    ASSUME BoundsAssumption, IInv, ResetCount
    PROVE  IInv'
<1> USE DEF ResetCount, ThreadWakeup, Stores, Other
<1>1. Places'
  OBVIOUS
<1>2. Types'
  OBVIOUS
<1>3. Untouched'
  BY DEF Untouched
<1>4. Counted'
  BY DEF Untouched, Counted, Changes, One
<1>5. Received'
  BY DEF Received
<1>6. Limited'
  BY DEF Limited
<1>7. Written'
  BY DEF Written, Writing
<1>8. Handling'
  BY DEF Handling
<1>9. (IrqMode => Linked)'
  BY DEF Linked, Counted, Handling, Untouched
<1> QED
  BY <1>1, <1>2, <1>3, <1>4, <1>5, <1>6, <1>7, <1>8, <1>9

(* Steps of the thread that only move it or take the lock.                 *)
LEMMA ThreadMovesKeeps ==
    ASSUME BoundsAssumption, IInv, Top \/ Sleep \/ Timeout \/ LockSlot \/ UnlockSlot \/ NoData
    PROVE  IInv'
<1> USE DEF Top, Sleep, Timeout, LockSlot, UnlockSlot, NoData, Go
<1>1. Places'
  OBVIOUS
<1>2. Types'
  OBVIOUS
<1>3. Untouched'
  BY DEF Untouched
<1>4. Counted'
  BY DEF Untouched, Counted, Changes, One
<1>5. Received'
  BY DEF Received
<1>6. Limited'
  BY DEF Limited
<1>7. Written'
  BY DEF Written, Writing
<1>8. Handling'
  BY DEF Handling
<1>9. (IrqMode => Linked)'
  <2>1. UNCHANGED <<IrqMode, slot_state, count, ts, cam, linked>> /\ pc'["irq"] = pc["irq"]
    OBVIOUS
  <2> QED
    BY ONLY <2>1, IInv DEF IInv, Linked
<1> QED
  BY <1>1, <1>2, <1>3, <1>4, <1>5, <1>6, <1>7, <1>8, <1>9

(* Calls of the user that end in a store to one of the bits.               *)
LEMMA ToStoreKeeps ==
    ASSUME BoundsAssumption, IInv, IoOpen \/ IoOpenWakes \/ IoRelease \/ ResetUnlock
    PROVE  IInv'
<1> USE DEF IoOpen, IoOpenWakes, IoRelease, ResetUnlock, ThreadWakeup, Stores, Event,
            Other
<1>1. Places'
  <2>1. CASE IoOpen
    BY <2>1
  <2>4. CASE IoOpenWakes
    BY <2>4
  <2>2. CASE IoRelease
    BY <2>2
  <2>3. CASE ResetUnlock
    BY <2>3
  <2> QED
    BY <2>1, <2>2, <2>3, <2>4
<1>2. Types'
  OBVIOUS
<1>3. Untouched'
  BY DEF Untouched
<1>4. Counted'
  BY DEF Untouched, Counted, Changes, One
<1>5. Received'
  BY DEF Received
<1>6. Limited'
  BY DEF Limited
<1>7. Written'
  BY DEF Written, Writing
<1>8. Handling'
  BY DEF Handling
<1>9. (IrqMode => Linked)'
  <2>1. UNCHANGED <<IrqMode, slot_state, count, ts, cam, linked>> /\ pc'["irq"] = pc["irq"]
    OBVIOUS
  <2> QED
    BY ONLY <2>1, IInv DEF IInv, Linked
<1> QED
  BY <1>1, <1>2, <1>3, <1>4, <1>5, <1>6, <1>7, <1>8, <1>9

(* Steps of the user that only move him or take the lock.                  *)
LEMMA UserMovesKeeps ==
    ASSUME BoundsAssumption, IInv, CheckRunning \/ LockWrite \/ WriteAgain \/ WriteReturns \/ IoWrite
    PROVE  IInv'
<1> USE DEF CheckRunning, LockWrite, WriteAgain, WriteReturns, IoWrite, Go, Calls, Event
<1>1. Places'
  OBVIOUS
<1>2. Types'
  OBVIOUS
<1>3. Untouched'
  BY DEF Untouched
<1>4. Counted'
  BY DEF Untouched, Counted, Changes, One
<1>5. Received'
  BY DEF Received
<1>6. Limited'
  BY DEF Limited
<1>7. Written'
  BY DEF Written, Writing
<1>8. Handling'
  BY DEF Handling
<1>9. (IrqMode => Linked)'
  <2>1. UNCHANGED <<IrqMode, slot_state, count, ts, cam, linked>> /\ pc'["irq"] = pc["irq"]
    OBVIOUS
  <2> QED
    BY ONLY <2>1, IInv DEF IInv, Linked
<1> QED
  BY <1>1, <1>2, <1>3, <1>4, <1>5, <1>6, <1>7, <1>8, <1>9

(* CA_RESET up to the count: the slot is shut down.                        *)
LEMMA CaResetKeeps ==
    ASSUME BoundsAssumption, IInv, CaReset \/ ResetShutdown \/ ResetType
    PROVE  IInv'
<1> USE DEF CaReset, ResetShutdown, ResetType, Calls, Event, Shutdown, Go
<1>1. Places'
  OBVIOUS
<1>2. Types'
  <2>1. CASE CaReset \/ ResetType
    BY <2>1
  <2>2. CASE ResetShutdown
    BY ZenonT(30), <2>2
  <2> QED
    BY <2>1, <2>2
<1>3. Untouched'
  BY DEF Untouched
<1>4. Counted'
  BY DEF Untouched, Counted, Changes, One
<1>5. Received'
  BY DEF Received
<1>6. Limited'
  BY DEF Limited
<1>7. Written'
  BY DEF Written, Writing
<1>8. Handling'
  BY DEF Handling
<1>9. (IrqMode => Linked)'
  <2>1. /\ UNCHANGED <<IrqMode, count, cam, linked>> /\ pc'["irq"] = pc["irq"]
        /\ \/ UNCHANGED <<slot_state, ts>>
           \/ (slot_state' = "NONE" /\ ts' = FALSE)
    <3>1. CASE CaReset
      BY <3>1
    <3>2. CASE ResetShutdown
      BY <3>2
    <3>3. CASE ResetType
      BY <3>3
    <3> QED
      BY <3>1, <3>2, <3>3
  <2> QED
    BY ONLY <2>1, IInv DEF IInv, Linked
<1> QED
  BY <1>1, <1>2, <1>3, <1>4, <1>5, <1>6, <1>7, <1>8, <1>9

(* The interrupt handlers up to the count, or the state.                   *)
LEMMA IrqReportsKeeps ==
    ASSUME BoundsAssumption, IInv, CamChangeType \/ CamReady
    PROVE  IInv'
<1> USE DEF CamChangeType, CamReady, Go
<1>1. Places'
  OBVIOUS
<1>2. Types'
  OBVIOUS
<1>3. Untouched'
  BY DEF Untouched
<1>4. Counted'
  BY DEF Untouched, Counted, Changes, One
<1>5. Received'
  BY DEF Received
<1>6. Limited'
  BY DEF Limited
<1>7. Written'
  BY DEF Written, Writing
<1>8. Handling'
  BY DEF Handling
<1>9. (IrqMode => Linked)'
  BY DEF Linked
<1> QED
  BY <1>1, <1>2, <1>3, <1>4, <1>5, <1>6, <1>7, <1>8, <1>9

(* Init establishes the invariant.                                         *)
LEMMA InitIInv == ASSUME BoundsAssumption, Init PROVE IInv
<1> USE DEF Init
<1>1. Places
  BY DEF Places, ThreadPlaces, IrqPlaces, UserPlaces, Stored, Then, NoStore
<1>2. Types
  <2>1. flags \in [open : BOOLEAN, wakeup : BOOLEAN]
    OBVIOUS
  <2>2. cam \in 0 .. cams /\ linked \in 0 .. cams /\ events \in 0 .. MaxEvents /\ count \in Nat
    OBVIOUS
  <2> QED
    BY <2>1, <2>2 DEF Types, States, NOBODY
<1>3. Counted
  BY DEF Counted, Changes, One
<1>4. Written
  BY DEF Written, Writing, Then
<1> QED
  BY <1>1, <1>2, <1>3, <1>4 DEF IInv, Untouched, Received, Limited, Handling, Linked

(* Every step keeps it.                                                    *)
LEMMA NextIInv == ASSUME BoundsAssumption, IInv, [Next]_vars PROVE IInv'
<1>1. CASE Thread
  <2>1. ASSUME NEW more \in BOOLEAN, ReadData(more) PROVE IInv'
    BY <2>1, ReadDataKeeps
  <2> QED
    BY <1>1, <2>1, ThreadStoreKeeps, ThreadMovesKeeps, ClearWakeupKeeps, CheckCamStatusKeeps,
       ChangeShutdownKeeps, ChangeRenewKeeps, ChangeHandledKeeps, StateMachineKeeps, LinkFailsKeeps, LinkDoneKeeps,
       ReadErrorKeeps, MoreDataKeeps
    DEF Thread
<1>2. CASE Irq
  BY <1>2, IrqStoreKeeps, IrqWakesKeeps, IrqReportsKeeps, CamChangeCountKeeps, CamReadySetKeeps
  DEF Irq
<1>3. CASE User
  BY <1>3, UserStoreKeeps, UserWakesKeeps, ToStoreKeeps, UserMovesKeeps, WriteDataKeeps,
     WriteFailsKeeps, WriteWakesKeeps, CaResetKeeps, ResetCountKeeps
  DEF User
<1>4. CASE Environment
  BY <1>4, InsertKeeps, RemoveKeeps, IrqReportsKeeps, FrDaKeeps, ToStoreKeeps, IoReadKeeps,
     UserMovesKeeps, CaResetKeeps
  DEF Environment
<1>5. CASE UNCHANGED vars
  BY <1>5 DEF vars, Untouched, Counted, Changes, One, Received,
     Limited, Written, Writing, Handling, Linked
<1> QED
  BY <1>1, <1>2, <1>3, <1>4, <1>5 DEF Next

(* The state machine of a slot follows its CAM: with a bridge that reports *)
(* the changes, a slot that is RUNNING with no change left to handle has   *)
(* the link of the CAM that is there, and a slot in NONE has no stream,    *)
(* whatever thread, interrupts and user do to it at the same time.         *)
THEOREM CaSlotFollows == Spec => []FollowsCam
<1>1. IInv => FollowsCam
  <2> SUFFICES ASSUME IInv PROVE FollowsCam
    OBVIOUS
  <2> USE BoundsAssumption
  <2>1. count \in 0 .. 2 * MaxEvents
    BY DEF Counted, Changes, One, Untouched, Types
  <2>2. Len(rx) <= MaxEvents /\ pktcount <= MaxRx
    BY DEF Received, Limited, Types
  <2>3. TypeOK
    BY <2>1, <2>2 DEF TypeOK, Types, Written
  <2> QED
    BY <2>3 DEF FollowsCam, Linked
<1> QED
  BY <1>1, InitIInv, NextIInv, BoundsAssumption, PTL DEF Spec
=============================================================================
