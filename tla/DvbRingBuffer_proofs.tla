----------------------- MODULE DvbRingBuffer_proofs -----------------------
(***************************************************************************)
(* Proofs about the ring buffer for every set of buffer sizes and every    *)
(* bound on packets, reads and bytes.                                      *)
(***************************************************************************)
EXTENDS DvbRingBuffer, TLAPS

Used == dvb_ringbuffer_avail

(* What holds of a callback in progress: the bytes it still has to copy    *)
(* fit between pwrite and the byte before pread.                           *)
WriterInv ==
    /\ error # 0 => wpc \in {"idle", "wake"}
    /\ ~running => wpc = "idle"
    /\ wpc = "check" => wtodo >= 1
    /\ wpc # "copy" => wk = 0
    /\ wpc = "copy" =>
         /\ wtodo >= 1 /\ wtodo + Used <= size - 1 /\ wk <= wseg
         /\ wsplit > 0 => wsplit = size - pwrite /\ wsplit < wtodo
         /\ wsplit = 0 => pwrite + wtodo <= size

(* The bytes of the current memcpy that are already in the memory.         *)
WrittenInv ==
    wpc = "copy" => \A j \in 0 .. size - 1 : j < wk => data[pwrite + j] = wstamp + j

(* What holds of a read in progress: what it is going to copy is unread.   *)
ReaderInv ==
    /\ rpc = "idle" => rdone = 0 /\ rcopied = 0
    /\ rpc # "idle" => rtodo >= 1 /\ rdone + rtodo <= MaxCount
    /\ rpc # "copy" => rcopied = rdone
    /\ rpc = "woken" => Used >= 1 \/ error # 0
    /\ rpc = "avail" => Used >= 1
    /\ rpc \in {"flush", "clear"} => error # 0
    /\ rpc = "clear" => pread = pwrite
    /\ rpc = "copy" =>
         /\ rlen >= 1 /\ rlen <= Used /\ rk <= rseg
         /\ rdone <= rcopied /\ rcopied + rlen <= rdone + rtodo
         /\ rsplit > 0 => rsplit = size - pread /\ rsplit < rlen
         /\ rsplit = 0 => pread + rlen <= size

(* The inductive invariant.                                                *)
IInv ==
    /\ TypeOK
    /\ WriterInv
    /\ WrittenInv
    /\ ReaderInv
    /\ UnreadIntact
    /\ ReadIsContiguous
    /\ NoSilentLoss

---------------------------------------------------------------------------
(* Every proof below may use the assumptions on the constants and expand   *)
(* the groups of variables and the pointer arithmetic.                     *)
USE SizesAssumption, BoundsAssumption
    DEF ring, writer, reader, call, Used

(* The remainder that a pointer update takes, for a sum of at most size.   *)
LEMMA ModWrap ==
    ASSUME NEW s \in Nat, s > 0, NEW x \in 0 .. s
    PROVE  x % s = IF x = s THEN 0 ELSE x
  OBVIOUS

(* A read that ends leaves its variables well typed.                       *)
LEMMA EndCallTyped ==
    ASSUME EndCall
    PROVE  /\ nonblock' \in BOOLEAN
           /\ rtodo' \in Nat /\ rlen' \in Nat /\ rsplit' \in Nat /\ rk' \in Nat
           /\ rdone' \in Nat /\ rcopied' \in Nat
           /\ ubuf' \in [0 .. MaxCount - 1 -> Nat]
<1>1. nonblock' \in BOOLEAN  BY Zenon DEF EndCall
<1>2. ubuf' \in [0 .. MaxCount - 1 -> Nat]  BY DEF EndCall
<1> QED BY <1>1, <1>2 DEF EndCall

(* The ring's positions and fill level are integers in range.              *)
LEMMA RingTyped ==
    ASSUME TypeOK
    PROVE  /\ size \in Int /\ size >= 1 /\ size <= MaxSize /\ MaxSize \in Int
           /\ pread \in Int /\ 0 <= pread /\ pread < size
           /\ pwrite \in Int /\ 0 <= pwrite /\ pwrite < size
           /\ Used \in Int /\ 0 <= Used /\ Used < size
  BY DEF TypeOK, dvb_ringbuffer_avail

(* Publishing a copy of the writer makes exactly its bytes readable, also  *)
(* when the copy ends at the last byte of the memory.                      *)
LEMMA WriteAdvances ==
    ASSUME TypeOK, WriterInv, PublishWrite
    PROVE  /\ wseg \in Int /\ wseg >= 1 /\ pwrite + wseg <= size /\ wseg + Used < size
           /\ pwrite' = IF pwrite + wseg = size THEN 0 ELSE pwrite + wseg
           /\ Used' = Used + wseg
<1>1. wseg \in Int /\ wseg >= 1 /\ pwrite + wseg <= size /\ wseg + Used < size
  BY SMTT(20), RingTyped DEF TypeOK, WriterInv, PublishWrite, wseg
<1>2. (pwrite + wseg) % size = IF pwrite + wseg = size THEN 0 ELSE pwrite + wseg
  BY <1>1, RingTyped, ModWrap
<1>3. pwrite' = IF pwrite + wseg = size THEN 0 ELSE pwrite + wseg
  BY <1>1, <1>2, RingTyped DEF TypeOK, WriterInv, PublishWrite, Advance, wseg
<1>4. size' = size /\ pread' = pread
  BY DEF PublishWrite
<1> QED BY <1>1, <1>3, <1>4, RingTyped DEF dvb_ringbuffer_avail

(* Publishing a copy of the reader frees exactly its bytes.                *)
LEMMA ReadAdvances ==
    ASSUME TypeOK, ReaderInv, PublishRead
    PROVE  /\ rseg \in Int /\ rseg >= 1 /\ pread + rseg <= size /\ rseg <= Used
           /\ pread' = IF pread + rseg = size THEN 0 ELSE pread + rseg
           /\ Used' = Used - rseg
<1>1. rseg \in Int /\ rseg >= 1 /\ pread + rseg <= size /\ rseg <= Used
  <2>1. rpc = "copy"  BY DEF PublishRead
  <2>2. rlen \in Nat /\ rsplit \in Nat  BY DEF TypeOK
  <2> QED BY <2>1, <2>2, RingTyped DEF ReaderInv, rseg
<1>2. (pread + rseg) % size = IF pread + rseg = size THEN 0 ELSE pread + rseg
  BY <1>1, RingTyped, ModWrap
<1>3. pread' = IF pread + rseg = size THEN 0 ELSE pread + rseg
  <2>1. rpc = "copy" /\ pread' = Advance(pread, rsplit, rseg)  BY DEF PublishRead
  <2>2. rlen \in Nat /\ rsplit \in Nat  BY DEF TypeOK
  <2> QED BY <1>1, <1>2, <2>1, <2>2, RingTyped DEF ReaderInv, Advance, rseg
<1>4. size' = size /\ pwrite' = pwrite
  BY DEF PublishRead
<1> QED BY <1>1, <1>3, <1>4, RingTyped DEF dvb_ringbuffer_avail

(* A new packet disturbs nothing but the callback's own variables.         *)
LEMMA TsCallbackPreserves ==
    ASSUME NEW n \in 1 .. MaxPacket, IInv, TsCallback(n)
    PROVE  IInv'
<1>1. TypeOK'
  BY DEF IInv, TsCallback, TypeOK, EOVERFLOW, EWOULDBLOCK, EFAULT, ERESTARTSYS
<1>2. WriterInv' /\ WrittenInv'
  BY DEF IInv, TsCallback, TypeOK, WriterInv, WrittenInv, dvb_ringbuffer_avail, wseg, rseg
<1>3. ReaderInv'
  BY DEF IInv, TsCallback, TypeOK, WriterInv, ReaderInv, EndCall, dvb_ringbuffer_avail,
       wseg, rseg
<1>4. UnreadIntact' /\ NoSilentLoss'
  BY DEF IInv, TsCallback, TypeOK, WriterInv, ReaderInv, UnreadIntact, NoSilentLoss,
       Dist, dvb_ringbuffer_avail, wseg, rseg
<1>5. ReadIsContiguous'
  BY DEF IInv, TsCallback, TypeOK, ReaderInv, ReadIsContiguous, UnreadIntact, EndCall,
       dvb_ringbuffer_avail, wseg, rseg
<1> QED BY <1>1, <1>2, <1>3, <1>4, <1>5 DEF IInv

(* The test of the free space establishes that the whole packet fits.      *)
LEMMA BufferWritePreserves ==
    ASSUME IInv, BufferWrite
    PROVE  IInv'
<1>1. TypeOK'
  BY DEF IInv, BufferWrite, dvb_ringbuffer_free, Split, EOVERFLOW, TypeOK, EOVERFLOW,
       EWOULDBLOCK, EFAULT, ERESTARTSYS
<1>2. WriterInv' /\ WrittenInv'
  BY SMTT(20) DEF IInv, BufferWrite, dvb_ringbuffer_free, Split, EOVERFLOW, TypeOK, WriterInv,
       WrittenInv, dvb_ringbuffer_avail, wseg, rseg
<1>3. ReaderInv'
  BY DEF IInv, BufferWrite, dvb_ringbuffer_free, Split, EOVERFLOW, TypeOK, WriterInv,
       ReaderInv, EndCall, dvb_ringbuffer_avail, wseg, rseg
<1>4. UnreadIntact' /\ NoSilentLoss'
  <2>1. UNCHANGED <<size, data, pread, pwrite, rnext>>  BY DEF BufferWrite
  <2>2. UnreadIntact'  BY <2>1 DEF IInv, UnreadIntact, Dist, dvb_ringbuffer_avail
  <2>3. CASE error' = 0
    <3>1. error = 0 /\ wstamp' = wstamp  BY <2>3 DEF BufferWrite, EOVERFLOW
    <3> QED BY <2>1, <2>2, <3>1 DEF IInv, NoSilentLoss, dvb_ringbuffer_avail
  <2> QED BY <2>2, <2>3 DEF NoSilentLoss
<1>5. ReadIsContiguous'
  BY DEF IInv, BufferWrite, dvb_ringbuffer_free, Split, EOVERFLOW, TypeOK, ReaderInv,
       ReadIsContiguous, UnreadIntact, EndCall, dvb_ringbuffer_avail, wseg, rseg
<1> QED BY <1>1, <1>2, <1>3, <1>4, <1>5 DEF IInv

(* A byte copied in lands outside the unread part of the ring.             *)
LEMMA CopyInPreserves ==
    ASSUME IInv, CopyIn
    PROVE  IInv'
<1>1. TypeOK'  BY DEF IInv, CopyIn, TypeOK, WriterInv, wseg
<1>2. WriterInv' /\ ReaderInv' /\ ReadIsContiguous' /\ NoSilentLoss'
  BY DEF IInv, CopyIn, TypeOK, WriterInv, wseg, ReaderInv, ReadIsContiguous,
       NoSilentLoss, dvb_ringbuffer_avail, rseg
<1>3. WrittenInv'
  <2> SUFFICES ASSUME NEW j \in 0 .. size - 1, j < wk + 1
               PROVE  data'[pwrite + j] = wstamp + j
    BY DEF CopyIn, WrittenInv
  <2>1. /\ wk \in Nat /\ pwrite \in Nat /\ size \in 1 .. MaxSize
        /\ pwrite + wk < size /\ data \in [0 .. MaxSize - 1 -> Nat]
    BY DEF IInv, CopyIn, TypeOK, WriterInv, wseg
  <2>2. CASE j < wk
    BY <2>1, <2>2 DEF IInv, CopyIn, WrittenInv
  <2>3. CASE j = wk
    BY <2>1, <2>3 DEF CopyIn
  <2> QED BY <2>1, <2>2, <2>3
<1>4. UnreadIntact'
  BY DEF IInv, CopyIn, TypeOK, WriterInv, wseg, UnreadIntact, Dist, dvb_ringbuffer_avail
<1> QED BY <1>1, <1>2, <1>3, <1>4 DEF IInv

(* The published bytes continue the unread part of the ring.               *)
LEMMA PublishWritePreserves ==
    ASSUME IInv, PublishWrite
    PROVE  IInv'
<1>1. /\ wseg \in Int /\ wseg >= 1 /\ pwrite + wseg <= size /\ wseg + Used < size
      /\ pwrite' = IF pwrite + wseg = size THEN 0 ELSE pwrite + wseg
      /\ Used' = Used + wseg
  BY WriteAdvances DEF IInv
<1>2. /\ wpc = "copy" /\ wk = wseg /\ error = 0 /\ wstamp = rnext + Used
      /\ wstamp' = wstamp + wseg
      /\ UNCHANGED <<running, size, data, pread, error, reader>>
  BY DEF IInv, PublishWrite, WriterInv, NoSilentLoss
<1>r. /\ size \in Int /\ size >= 1 /\ size <= MaxSize /\ MaxSize \in Int
      /\ pread \in Int /\ 0 <= pread /\ pread < size
      /\ pwrite \in Int /\ 0 <= pwrite /\ pwrite < size
      /\ Used \in Int /\ 0 <= Used /\ Used < size
      /\ rnext \in Nat /\ wstamp \in Nat /\ wtodo \in Nat /\ wsplit \in Nat
  BY RingTyped DEF IInv, TypeOK
<1>w. /\ wtodo' = wtodo - wseg /\ wsplit' = 0 /\ wk' = 0
      /\ wpc' = IF wsplit > 0 THEN "copy" ELSE "wake"
  BY DEF PublishWrite
<1>3. TypeOK'
  <2>1. pwrite' \in 0 .. size - 1 /\ wstamp' \in Nat
    BY <1>1, <1>2, <1>r
  <2>2. wtodo' \in Nat
    BY <1>1, <1>2, <1>r, <1>w DEF IInv, WriterInv, wseg
  <2> QED BY <1>2, <1>w, <2>1, <2>2 DEF IInv, TypeOK
<1>4. WriterInv' /\ WrittenInv'
  BY <1>1, <1>2, <1>r, <1>w DEF IInv, WriterInv, WrittenInv, wseg
<1>5. ReaderInv'
  <2>1. Used' >= Used /\ Used' \in Int  BY <1>1, <1>r
  <2> QED BY <1>2, <1>r, <2>1 DEF IInv, TypeOK, ReaderInv, rseg
<1>6. UnreadIntact'
  <2> SUFFICES ASSUME NEW i \in 0 .. size - 1, Dist(pread, i) < Used + wseg
               PROVE  data[i] = rnext + Dist(pread, i)
    BY <1>1, <1>2 DEF UnreadIntact, Dist
  <2>1. CASE Dist(pread, i) < Used
    BY <2>1 DEF IInv, UnreadIntact
  <2>2. CASE Dist(pread, i) >= Used
    <3>1. /\ i - pwrite \in 0 .. size - 1 /\ i - pwrite < wk
          /\ Dist(pread, i) = Used + (i - pwrite)
      BY <1>1, <1>2, <2>2, RingTyped DEF IInv, Dist, dvb_ringbuffer_avail
    <3>2. data[pwrite + (i - pwrite)] = wstamp + (i - pwrite)
      BY <1>2, <3>1 DEF IInv, WrittenInv
    <3> QED BY <1>2, <1>r, <3>1, <3>2
  <2> QED BY <2>1, <2>2, RingTyped DEF IInv, Dist
<1>7. ReadIsContiguous'
  BY <1>2 DEF IInv, TypeOK, ReadIsContiguous
<1>8. NoSilentLoss'
  BY SMTT(20), <1>1, <1>2, RingTyped DEF IInv, TypeOK, NoSilentLoss
<1> QED BY <1>3, <1>4, <1>5, <1>6, <1>7, <1>8 DEF IInv

(* Waking the reader changes no data.                                      *)
LEMMA WakeUpPreserves ==
    ASSUME IInv, WakeUp
    PROVE  IInv'
<1>1. TypeOK'
  BY DEF IInv, WakeUp, TypeOK, EOVERFLOW, EWOULDBLOCK, EFAULT, ERESTARTSYS
<1>2. WriterInv' /\ WrittenInv'
  BY DEF IInv, WakeUp, TypeOK, WriterInv, WrittenInv, dvb_ringbuffer_avail, wseg, rseg
<1>3. ReaderInv'
  BY DEF IInv, WakeUp, TypeOK, WriterInv, ReaderInv, EndCall, dvb_ringbuffer_avail, wseg,
       rseg
<1>4. UnreadIntact' /\ NoSilentLoss'
  BY DEF IInv, WakeUp, TypeOK, WriterInv, ReaderInv, UnreadIntact, NoSilentLoss, Dist,
       dvb_ringbuffer_avail, wseg, rseg
<1>5. ReadIsContiguous'
  BY DEF IInv, WakeUp, TypeOK, ReaderInv, ReadIsContiguous, UnreadIntact, EndCall,
       dvb_ringbuffer_avail, wseg, rseg
<1> QED BY <1>1, <1>2, <1>3, <1>4, <1>5 DEF IInv

(* A read starts with nothing copied.                                      *)
LEMMA ReadCallPreserves ==
    ASSUME NEW count \in 1 .. MaxCount, NEW nb \in BOOLEAN, IInv, ReadCall(count, nb)
    PROVE  IInv'
<1>1. TypeOK'
  BY DEF IInv, ReadCall, TypeOK, EOVERFLOW, EWOULDBLOCK, EFAULT, ERESTARTSYS
<1>2. WriterInv' /\ WrittenInv'
  BY DEF IInv, ReadCall, TypeOK, WriterInv, WrittenInv, dvb_ringbuffer_avail, wseg, rseg
<1>3. ReaderInv'
  BY DEF IInv, ReadCall, TypeOK, WriterInv, ReaderInv, EndCall, dvb_ringbuffer_avail,
       wseg, rseg
<1>4. UnreadIntact' /\ NoSilentLoss'
  BY DEF IInv, ReadCall, TypeOK, WriterInv, ReaderInv, UnreadIntact, NoSilentLoss, Dist,
       dvb_ringbuffer_avail, wseg, rseg
<1>5. ReadIsContiguous'
  BY DEF IInv, ReadCall, TypeOK, ReaderInv, ReadIsContiguous, UnreadIntact, EndCall,
       dvb_ringbuffer_avail, wseg, rseg
<1> QED BY <1>1, <1>2, <1>3, <1>4, <1>5 DEF IInv

(* The head of the loop ends the read or goes on to wait.                  *)
LEMMA ReadLoopPreserves ==
    ASSUME IInv, ReadLoop
    PROVE  IInv'
<1>1. TypeOK'
  <2>1. EndCall => /\ nonblock' \in BOOLEAN /\ ubuf' \in [0 .. MaxCount - 1 -> Nat]
                   /\ rtodo' \in Nat /\ rlen' \in Nat /\ rsplit' \in Nat
                   /\ rk' \in Nat /\ rdone' \in Nat /\ rcopied' \in Nat
    BY EndCallTyped
  <2>2. CASE EndCall
    <3>1. rpc' \in {"idle", "wait"} /\ rret' \in Int
      BY DEF IInv, ReadLoop, Return, TypeOK, EWOULDBLOCK
    <3>2. UNCHANGED <<running, ring, writer, rnext>>  BY DEF ReadLoop
    <3> QED BY <2>1, <2>2, <3>1, <3>2 DEF IInv, TypeOK
  <2>3. CASE ~EndCall
    BY <2>3 DEF IInv, ReadLoop, Return, TypeOK
  <2> QED BY <2>2, <2>3
<1>2. WriterInv' /\ WrittenInv'
  BY DEF IInv, ReadLoop, Return, EndCall, TypeOK, WriterInv, WrittenInv,
       dvb_ringbuffer_avail, wseg, rseg
<1>3. ReaderInv'
  BY DEF IInv, ReadLoop, Return, EndCall, TypeOK, WriterInv, ReaderInv, EndCall,
       dvb_ringbuffer_avail, wseg, rseg
<1>4. UnreadIntact' /\ NoSilentLoss'
  BY DEF IInv, ReadLoop, Return, EndCall, TypeOK, WriterInv, ReaderInv, UnreadIntact,
       NoSilentLoss, Dist, dvb_ringbuffer_avail, wseg, rseg
<1>5. ReadIsContiguous'
  BY DEF IInv, ReadLoop, Return, EndCall, TypeOK, ReaderInv, ReadIsContiguous,
       UnreadIntact, EndCall, dvb_ringbuffer_avail, wseg, rseg
<1> QED BY <1>1, <1>2, <1>3, <1>4, <1>5 DEF IInv

(* A reader is only woken to bytes or to an error.                         *)
LEMMA ReadWaitPreserves ==
    ASSUME IInv, ReadWait
    PROVE  IInv'
<1>1. TypeOK'
  BY DEF IInv, ReadWait, dvb_ringbuffer_empty, TypeOK, EOVERFLOW, EWOULDBLOCK, EFAULT,
       ERESTARTSYS
<1>2. WriterInv' /\ WrittenInv'
  BY DEF IInv, ReadWait, dvb_ringbuffer_empty, TypeOK, WriterInv, WrittenInv,
       dvb_ringbuffer_avail, wseg, rseg
<1>3. ReaderInv'
  BY DEF IInv, ReadWait, dvb_ringbuffer_empty, TypeOK, WriterInv, ReaderInv, EndCall,
       dvb_ringbuffer_avail, wseg, rseg
<1>4. UnreadIntact' /\ NoSilentLoss'
  BY DEF IInv, ReadWait, dvb_ringbuffer_empty, TypeOK, WriterInv, ReaderInv,
       UnreadIntact, NoSilentLoss, Dist, dvb_ringbuffer_avail, wseg, rseg
<1>5. ReadIsContiguous'
  BY DEF IInv, ReadWait, dvb_ringbuffer_empty, TypeOK, ReaderInv, ReadIsContiguous,
       UnreadIntact, EndCall, dvb_ringbuffer_avail, wseg, rseg
<1> QED BY <1>1, <1>2, <1>3, <1>4, <1>5 DEF IInv

(* A signal ends the read.                                                 *)
LEMMA ReadSignalPreserves ==
    ASSUME IInv, ReadSignal
    PROVE  IInv'
<1>1. TypeOK'
  <2>1. EndCall => /\ nonblock' \in BOOLEAN /\ ubuf' \in [0 .. MaxCount - 1 -> Nat]
                   /\ rtodo' \in Nat /\ rlen' \in Nat /\ rsplit' \in Nat
                   /\ rk' \in Nat /\ rdone' \in Nat /\ rcopied' \in Nat
    BY EndCallTyped
  <2> QED BY SMTT(20), <2>1 DEF IInv, ReadSignal, Return, TypeOK, EOVERFLOW, EWOULDBLOCK, EFAULT,
      ERESTARTSYS
<1>2. WriterInv' /\ WrittenInv'
  BY DEF IInv, ReadSignal, Return, EndCall, TypeOK, WriterInv, WrittenInv,
       dvb_ringbuffer_avail, wseg, rseg
<1>3. ReaderInv'
  BY DEF IInv, ReadSignal, Return, EndCall, TypeOK, WriterInv, ReaderInv, EndCall,
       dvb_ringbuffer_avail, wseg, rseg
<1>4. UnreadIntact' /\ NoSilentLoss'
  BY DEF IInv, ReadSignal, Return, EndCall, TypeOK, WriterInv, ReaderInv, UnreadIntact,
       NoSilentLoss, Dist, dvb_ringbuffer_avail, wseg, rseg
<1>5. ReadIsContiguous'
  BY DEF IInv, ReadSignal, Return, EndCall, TypeOK, ReaderInv, ReadIsContiguous,
       UnreadIntact, EndCall, dvb_ringbuffer_avail, wseg, rseg
<1> QED BY <1>1, <1>2, <1>3, <1>4, <1>5 DEF IInv

(* With no error there are bytes to read.                                  *)
LEMMA ReadTestErrorPreserves ==
    ASSUME IInv, ReadTestError
    PROVE  IInv'
<1>1. TypeOK'
  BY DEF IInv, ReadTestError, TypeOK, EOVERFLOW, EWOULDBLOCK, EFAULT, ERESTARTSYS
<1>2. WriterInv' /\ WrittenInv'
  BY DEF IInv, ReadTestError, TypeOK, WriterInv, WrittenInv, dvb_ringbuffer_avail, wseg,
       rseg
<1>3. ReaderInv'
  BY DEF IInv, ReadTestError, TypeOK, WriterInv, ReaderInv, EndCall,
       dvb_ringbuffer_avail, wseg, rseg
<1>4. UnreadIntact' /\ NoSilentLoss'
  BY DEF IInv, ReadTestError, TypeOK, WriterInv, ReaderInv, UnreadIntact, NoSilentLoss,
       Dist, dvb_ringbuffer_avail, wseg, rseg
<1>5. ReadIsContiguous'
  BY DEF IInv, ReadTestError, TypeOK, ReaderInv, ReadIsContiguous, UnreadIntact, EndCall,
       dvb_ringbuffer_avail, wseg, rseg
<1> QED BY <1>1, <1>2, <1>3, <1>4, <1>5 DEF IInv

(* The read takes no more than what is unread.                             *)
LEMMA ReadAvailPreserves ==
    ASSUME IInv, ReadAvail
    PROVE  IInv'
<1>1. TypeOK'
  <2>1. rlen' \in Nat /\ rsplit' \in Nat
    BY RingTyped DEF IInv, ReadAvail, Split, TypeOK
  <2> QED BY <2>1 DEF IInv, ReadAvail, TypeOK
<1>2. WriterInv' /\ WrittenInv'
  BY DEF IInv, ReadAvail, Split, TypeOK, WriterInv, WrittenInv, dvb_ringbuffer_avail,
       wseg, rseg
<1>3. ReaderInv'
  BY DEF IInv, ReadAvail, Split, TypeOK, WriterInv, ReaderInv, EndCall,
       dvb_ringbuffer_avail, wseg, rseg
<1>4. UnreadIntact' /\ NoSilentLoss'
  BY DEF IInv, ReadAvail, Split, TypeOK, WriterInv, ReaderInv, UnreadIntact,
       NoSilentLoss, Dist, dvb_ringbuffer_avail, wseg, rseg
<1>5. ReadIsContiguous'
  BY DEF IInv, ReadAvail, Split, TypeOK, ReaderInv, ReadIsContiguous, UnreadIntact,
       EndCall, dvb_ringbuffer_avail, wseg, rseg
<1> QED BY <1>1, <1>2, <1>3, <1>4, <1>5 DEF IInv

(* A byte copied out is the next one of the stream.                        *)
LEMMA CopyOutPreserves ==
    ASSUME IInv, CopyOut
    PROVE  IInv'
<1>1. TypeOK'
  <2>1. pread + rk \in 0 .. MaxSize - 1 /\ data[pread + rk] \in Nat
    BY RingTyped DEF IInv, CopyOut, TypeOK, ReaderInv, rseg
  <2>2. ubuf' \in [0 .. MaxCount - 1 -> Nat] /\ rk' \in Nat
    <3>1. /\ ubuf \in [0 .. MaxCount - 1 -> Nat] /\ rk \in Nat /\ rk' = rk + 1
          /\ ubuf' = [ubuf EXCEPT ![rcopied + rk] = data[pread + rk]]
      BY DEF IInv, CopyOut, TypeOK
    <3>2. ubuf' \in [0 .. MaxCount - 1 -> Nat]
      BY <2>1, <3>1, Zenon
    <3> QED BY <3>1, <3>2
  <2>3. UNCHANGED <<running, ring, writer, rpc, nonblock, rtodo, rlen, rsplit,
                    rdone, rcopied, rret, rnext>>
    BY DEF CopyOut
  <2> QED BY <2>2, <2>3 DEF IInv, TypeOK
<1>2. /\ WriterInv' /\ WrittenInv' /\ ReaderInv'
      /\ UnreadIntact' /\ NoSilentLoss'
  BY DEF IInv, CopyOut, TypeOK, WriterInv, WrittenInv, ReaderInv, UnreadIntact,
         NoSilentLoss, Dist, dvb_ringbuffer_avail, wseg, rseg
<1>3. ReadIsContiguous'
  <2>1. data[pread + rk] = rnext + rk
    <3>1. /\ pread + rk \in 0 .. size - 1
          /\ Dist(pread, pread + rk) = rk /\ rk < Used
      BY SMTT(20), RingTyped DEF IInv, CopyOut, TypeOK, ReaderInv, Dist, rseg
    <3> QED BY <3>1 DEF IInv, UnreadIntact
  <2> SUFFICES ASSUME NEW j \in 0 .. MaxCount - 1, j < rcopied + rk + 1
               PROVE  ubuf'[j] = rnext - rcopied + j
    BY DEF IInv, TypeOK, CopyOut, ReadIsContiguous
  <2>2. CASE j < rcopied + rk
    BY <2>2 DEF IInv, CopyOut, TypeOK, ReadIsContiguous
  <2>3. CASE j = rcopied + rk
    BY <2>1, <2>3 DEF IInv, CopyOut, TypeOK
  <2> QED BY <2>2, <2>3 DEF IInv, TypeOK
<1> QED BY <1>1, <1>2, <1>3 DEF IInv

(* A fault ends the read where the last published copy ended.              *)
LEMMA CopyFaultPreserves ==
    ASSUME IInv, CopyFault
    PROVE  IInv'
<1>1. TypeOK'
  <2>1. EndCall => /\ nonblock' \in BOOLEAN /\ ubuf' \in [0 .. MaxCount - 1 -> Nat]
                   /\ rtodo' \in Nat /\ rlen' \in Nat /\ rsplit' \in Nat
                   /\ rk' \in Nat /\ rdone' \in Nat /\ rcopied' \in Nat
    BY EndCallTyped
  <2> QED BY SMTT(20), <2>1 DEF IInv, CopyFault, Return, TypeOK, EOVERFLOW, EWOULDBLOCK, EFAULT,
      ERESTARTSYS
<1>2. WriterInv' /\ WrittenInv'
  BY DEF IInv, CopyFault, Return, EndCall, TypeOK, WriterInv, WrittenInv,
       dvb_ringbuffer_avail, wseg, rseg
<1>3. ReaderInv'
  BY DEF IInv, CopyFault, Return, EndCall, TypeOK, WriterInv, ReaderInv, EndCall,
       dvb_ringbuffer_avail, wseg, rseg
<1>4. UnreadIntact' /\ NoSilentLoss'
  BY DEF IInv, CopyFault, Return, EndCall, TypeOK, WriterInv, ReaderInv, UnreadIntact,
       NoSilentLoss, Dist, dvb_ringbuffer_avail, wseg, rseg
<1>5. ReadIsContiguous'
  BY DEF IInv, CopyFault, Return, EndCall, TypeOK, ReaderInv, ReadIsContiguous,
       UnreadIntact, EndCall, dvb_ringbuffer_avail, wseg, rseg
<1> QED BY <1>1, <1>2, <1>3, <1>4, <1>5 DEF IInv

(* The bytes passed by pread are gone, the others keep their places.       *)
LEMMA PublishReadPreserves ==
    ASSUME IInv, PublishRead
    PROVE  IInv'
<1>1. /\ rseg \in Int /\ rseg >= 1 /\ pread + rseg <= size /\ rseg <= Used
      /\ pread' = IF pread + rseg = size THEN 0 ELSE pread + rseg
      /\ Used' = Used - rseg
  BY ReadAdvances DEF IInv
<1>2. /\ rpc = "copy" /\ rk = rseg /\ rnext' = rnext + rseg
      /\ UNCHANGED <<running, size, data, pwrite, error, wpc, wtodo, wsplit, wk, wstamp>>
  BY DEF PublishRead
<1>3. \/ /\ rsplit > 0 /\ rpc' = "copy"
         /\ rlen' = rlen - rseg /\ rsplit' = 0 /\ rk' = 0 /\ rcopied' = rcopied + rseg
         /\ UNCHANGED <<rret, nonblock, rtodo, rdone, ubuf>>
      \/ /\ rsplit = 0 /\ rpc' = "loop"
         /\ rcopied + rseg < rdone + rtodo
         /\ rlen' = 0 /\ rk' = 0 /\ rcopied' = rcopied + rseg /\ rdone' = rcopied + rseg
         /\ rtodo' = rtodo - (rcopied + rseg - rdone)
         /\ UNCHANGED <<rret, nonblock, rsplit, ubuf>>
      \/ /\ rpc' = "idle" /\ EndCall
         /\ rret' = IF rdone + rtodo > 0 THEN rdone + rtodo ELSE 0
  BY <1>2 DEF PublishRead, Return
<1>4. /\ nonblock' \in BOOLEAN /\ ubuf' \in [0 .. MaxCount - 1 -> Nat]
      /\ rtodo' \in Nat /\ rlen' \in Nat /\ rsplit' \in Nat /\ rk' \in Nat
      /\ rdone' \in Nat /\ rcopied' \in Nat /\ rret' \in Int
  <2>1. CASE EndCall
    BY <2>1, <1>3, EndCallTyped DEF IInv, TypeOK
  <2>2. CASE ~EndCall
    <3>1. nonblock' = nonblock /\ ubuf' = ubuf /\ rret' = rret
      BY <1>3, <2>2
    <3>2. /\ rtodo' \in Nat /\ rlen' \in Nat /\ rsplit' \in Nat /\ rk' \in Nat
          /\ rdone' \in Nat /\ rcopied' \in Nat
      <4>1. /\ rlen \in Nat /\ rdone \in Nat /\ rcopied \in Nat /\ rtodo \in Nat
            /\ rsplit \in Nat /\ rdone <= rcopied /\ rseg <= rlen
            /\ rcopied + rlen <= rdone + rtodo
        BY <1>2 DEF IInv, TypeOK, ReaderInv, rseg
      <4> QED BY <1>1, <1>3, <2>2, <4>1
    <3> QED BY <3>1, <3>2 DEF IInv, TypeOK
  <2> QED BY <2>1, <2>2
<1>5. TypeOK'
  <2>1. pread' \in 0 .. size - 1 /\ rnext' \in Nat
    BY <1>1, <1>2, RingTyped DEF IInv, TypeOK
  <2> QED BY <1>2, <1>3, <1>4, <2>1 DEF IInv, TypeOK
<1>6. WriterInv' /\ WrittenInv'
  BY SMTT(20), <1>1, <1>2, RingTyped DEF IInv, TypeOK, WriterInv, WrittenInv, wseg
<1>7. ReaderInv'
  <2> DEFINE R == /\ rlen \in Nat /\ rdone \in Nat /\ rcopied \in Nat /\ rtodo \in Nat
                  /\ rsplit \in Nat /\ rdone <= rcopied /\ rcopied + rlen <= rdone + rtodo
                  /\ rtodo >= 1 /\ rdone + rtodo <= MaxCount /\ rlen <= Used
                  /\ rsplit > 0 => rsplit = size - pread /\ rsplit < rlen
  <2>0. R  BY <1>2 DEF IInv, TypeOK, ReaderInv
  <2>1. CASE rpc' = "copy"
    <3>1. /\ rseg = rsplit /\ pread' = 0 /\ rlen' = rlen - rsplit /\ rsplit' = 0 /\ rk' = 0
          /\ rcopied' = rcopied + rsplit /\ UNCHANGED <<rdone, rtodo, size>>
      BY <1>1, <1>2, <1>3, <2>0, <2>1, RingTyped DEF IInv, rseg
    <3>2. rlen' <= size'
      BY <1>1, <2>0, <3>1, RingTyped DEF IInv
    <3>3. Used \in Int /\ size \in Int  BY RingTyped DEF IInv
    <3>4. rsplit > 0  BY <1>1, <3>1
    <3> QED BY <1>1, <2>0, <2>1, <3>1, <3>2, <3>3, <3>4 DEF ReaderInv, rseg
  <2>2. CASE rpc' = "loop"
    BY <1>1, <1>2, <1>3, <2>0, <2>2 DEF ReaderInv, rseg
  <2>3. CASE rpc' = "idle"
    BY <1>3, <2>3 DEF ReaderInv, EndCall
  <2> QED BY <1>3, <2>1, <2>2, <2>3
<1>8. UnreadIntact'
  <2> SUFFICES ASSUME NEW i \in 0 .. size - 1, Dist(pread', i) < Used - rseg
               PROVE  data[i] = rnext + rseg + Dist(pread', i)
    BY <1>1, <1>2 DEF UnreadIntact, Dist
  <2>1. Dist(pread, i) = Dist(pread', i) + rseg /\ Dist(pread', i) \in Int
    BY <1>1, <1>2, RingTyped DEF IInv, Dist
  <2>2. data[i] = rnext + Dist(pread, i)
    BY <1>1, <2>1, RingTyped DEF IInv, UnreadIntact
  <2> QED BY <1>1, <2>1, <2>2 DEF IInv, TypeOK
<1>9. ReadIsContiguous'
  <2>1. CASE rpc' = "idle"
    BY <2>1 DEF ReadIsContiguous
  <2>2. CASE rpc' # "idle"
    BY <1>1, <1>2, <1>3, <2>2 DEF IInv, TypeOK, ReadIsContiguous
  <2> QED BY <2>1, <2>2
<1>10. NoSilentLoss'
  BY SMTT(20), <1>1, <1>2, RingTyped DEF IInv, TypeOK, NoSilentLoss
<1> QED BY <1>5, <1>6, <1>7, <1>8, <1>9, <1>10 DEF IInv

(* The flush makes the ring empty.                                         *)
LEMMA FlushPointerPreserves ==
    ASSUME IInv, FlushPointer
    PROVE  IInv'
<1>1. TypeOK'
  BY SMTT(20), RingTyped DEF IInv, FlushPointer, TypeOK
<1>2. WriterInv' /\ WrittenInv'
  BY DEF IInv, FlushPointer, TypeOK, WriterInv, WrittenInv, dvb_ringbuffer_avail, wseg, rseg
<1>3. ReaderInv'
  BY DEF IInv, FlushPointer, TypeOK, WriterInv, ReaderInv, EndCall, dvb_ringbuffer_avail,
       wseg, rseg
<1>4. UnreadIntact' /\ NoSilentLoss'
  BY DEF IInv, FlushPointer, TypeOK, WriterInv, ReaderInv, UnreadIntact, NoSilentLoss,
       Dist, dvb_ringbuffer_avail, wseg, rseg
<1>5. ReadIsContiguous'
  BY DEF IInv, FlushPointer, TypeOK, ReaderInv, ReadIsContiguous, UnreadIntact, EndCall,
       dvb_ringbuffer_avail, wseg, rseg
<1> QED BY <1>1, <1>2, <1>3, <1>4, <1>5 DEF IInv

(* Only an empty ring loses its error mark.                                *)
LEMMA FlushErrorPreserves ==
    ASSUME IInv, FlushError
    PROVE  IInv'
<1>1. TypeOK'
  <2>1. EndCall => /\ nonblock' \in BOOLEAN /\ ubuf' \in [0 .. MaxCount - 1 -> Nat]
                   /\ rtodo' \in Nat /\ rlen' \in Nat /\ rsplit' \in Nat
                   /\ rk' \in Nat /\ rdone' \in Nat /\ rcopied' \in Nat
    BY EndCallTyped
  <2> QED BY SMTT(20), <2>1 DEF IInv, FlushError, Return, TypeOK, EOVERFLOW, EWOULDBLOCK, EFAULT,
      ERESTARTSYS
<1>2. WriterInv' /\ WrittenInv'
  BY DEF IInv, FlushError, Return, EndCall, TypeOK, WriterInv, WrittenInv,
       dvb_ringbuffer_avail, wseg, rseg
<1>3. ReaderInv'
  BY DEF IInv, FlushError, Return, EndCall, TypeOK, WriterInv, ReaderInv, EndCall,
       dvb_ringbuffer_avail, wseg, rseg
<1>4. UnreadIntact' /\ NoSilentLoss'
  BY DEF IInv, FlushError, Return, EndCall, TypeOK, WriterInv, ReaderInv, UnreadIntact,
       NoSilentLoss, Dist, dvb_ringbuffer_avail, wseg, rseg
<1>5. ReadIsContiguous'
  BY DEF IInv, FlushError, Return, EndCall, TypeOK, ReaderInv, ReadIsContiguous,
       UnreadIntact, EndCall, dvb_ringbuffer_avail, wseg, rseg
<1> QED BY <1>1, <1>2, <1>3, <1>4, <1>5 DEF IInv

(* A stopped filter has an empty ring.                                     *)
LEMMA FilterStopPreserves ==
    ASSUME IInv, FilterStop
    PROVE  IInv'
<1>1. TypeOK'
  BY DEF IInv, FilterStop, TypeOK, EOVERFLOW, EWOULDBLOCK, EFAULT, ERESTARTSYS
<1>2. WriterInv' /\ WrittenInv'
  BY DEF IInv, FilterStop, TypeOK, WriterInv, WrittenInv, dvb_ringbuffer_avail, wseg, rseg
<1>3. ReaderInv'
  BY DEF IInv, FilterStop, TypeOK, WriterInv, ReaderInv, EndCall, dvb_ringbuffer_avail,
       wseg, rseg
<1>4. UnreadIntact' /\ NoSilentLoss'
  BY DEF IInv, FilterStop, TypeOK, WriterInv, ReaderInv, UnreadIntact, NoSilentLoss,
       Dist, dvb_ringbuffer_avail, wseg, rseg
<1>5. ReadIsContiguous'
  BY DEF IInv, FilterStop, TypeOK, ReaderInv, ReadIsContiguous, UnreadIntact, EndCall,
       dvb_ringbuffer_avail, wseg, rseg
<1> QED BY <1>1, <1>2, <1>3, <1>4, <1>5 DEF IInv

(* A started filter has an empty ring.                                     *)
LEMMA FilterStartPreserves ==
    ASSUME IInv, FilterStart
    PROVE  IInv'
<1>1. TypeOK'
  BY DEF IInv, FilterStart, TypeOK, EOVERFLOW, EWOULDBLOCK, EFAULT, ERESTARTSYS
<1>2. WriterInv' /\ WrittenInv'
  BY DEF IInv, FilterStart, TypeOK, WriterInv, WrittenInv, dvb_ringbuffer_avail, wseg, rseg
<1>3. ReaderInv'
  BY DEF IInv, FilterStart, TypeOK, WriterInv, ReaderInv, EndCall, dvb_ringbuffer_avail,
       wseg, rseg
<1>4. UnreadIntact' /\ NoSilentLoss'
  BY DEF IInv, FilterStart, TypeOK, WriterInv, ReaderInv, UnreadIntact, NoSilentLoss,
       Dist, dvb_ringbuffer_avail, wseg, rseg
<1>5. ReadIsContiguous'
  BY DEF IInv, FilterStart, TypeOK, ReaderInv, ReadIsContiguous, UnreadIntact, EndCall,
       dvb_ringbuffer_avail, wseg, rseg
<1> QED BY <1>1, <1>2, <1>3, <1>4, <1>5 DEF IInv

(* New memory comes with fresh pointers.                                   *)
LEMMA SetBufferSizePreserves ==
    ASSUME NEW z \in Sizes, IInv, SetBufferSize(z)
    PROVE  IInv'
<1>1. TypeOK'
  BY DEF IInv, SetBufferSize, TypeOK, EOVERFLOW, EWOULDBLOCK, EFAULT, ERESTARTSYS
<1>2. WriterInv' /\ WrittenInv'
  BY DEF IInv, SetBufferSize, TypeOK, WriterInv, WrittenInv, dvb_ringbuffer_avail, wseg,
       rseg
<1>3. ReaderInv'
  BY DEF IInv, SetBufferSize, TypeOK, WriterInv, ReaderInv, EndCall,
       dvb_ringbuffer_avail, wseg, rseg
<1>4. UnreadIntact' /\ NoSilentLoss'
  BY DEF IInv, SetBufferSize, TypeOK, WriterInv, ReaderInv, UnreadIntact, NoSilentLoss,
       Dist, dvb_ringbuffer_avail, wseg, rseg
<1>5. ReadIsContiguous'
  BY DEF IInv, SetBufferSize, TypeOK, ReaderInv, ReadIsContiguous, UnreadIntact, EndCall,
       dvb_ringbuffer_avail, wseg, rseg
<1> QED BY <1>1, <1>2, <1>3, <1>4, <1>5 DEF IInv

(* The initial states satisfy the invariant.                               *)
LEMMA InitIInv == Init => IInv
<1> SUFFICES ASSUME Init PROVE IInv
  OBVIOUS
<1>1. TypeOK
  <2>1. /\ data \in [0 .. MaxSize - 1 -> Nat]
        /\ ubuf \in [0 .. MaxCount - 1 -> Nat]
    BY DEF Init
  <2>2. size \in Sizes /\ size >= 1 /\ size \in Int  BY DEF Init
  <2>3. running \in BOOLEAN /\ nonblock \in BOOLEAN  BY Zenon DEF Init
  <2> QED BY <2>1, <2>2, <2>3 DEF Init, TypeOK
<1>2. WriterInv /\ WrittenInv /\ ReaderInv
  BY DEF Init, WriterInv, WrittenInv, ReaderInv
<1>3. UnreadIntact /\ ReadIsContiguous /\ NoSilentLoss
  BY <1>1 DEF Init, TypeOK, UnreadIntact, ReadIsContiguous, NoSilentLoss,
              dvb_ringbuffer_avail, Dist
<1> QED BY <1>1, <1>2, <1>3 DEF IInv

(* Every step of the writer, the reader and the ioctls preserves the       *)
(* invariant.                                                              *)
LEMMA NextIInv == IInv /\ [Next]_vars => IInv'
<1> SUFFICES ASSUME IInv, [Next]_vars PROVE IInv'
  OBVIOUS
<1>1. ASSUME NEW n \in 1 .. MaxPacket, TsCallback(n) PROVE IInv'
  BY <1>1, TsCallbackPreserves
<1>2. CASE WriterStep
  BY <1>2, BufferWritePreserves, CopyInPreserves, PublishWritePreserves, WakeUpPreserves
     DEF WriterStep
<1>3. ASSUME NEW count \in 1 .. MaxCount, NEW nb \in BOOLEAN, ReadCall(count, nb) PROVE IInv'
  BY <1>3, ReadCallPreserves
<1>4. CASE ReaderStep
  BY <1>4, ReadLoopPreserves, ReadWaitPreserves, ReadTestErrorPreserves,
     ReadAvailPreserves, CopyOutPreserves, PublishReadPreserves,
     FlushPointerPreserves, FlushErrorPreserves
     DEF ReaderStep
<1>5. CASE ReadSignal \/ CopyFault \/ FilterStop \/ FilterStart
  BY <1>5, ReadSignalPreserves, CopyFaultPreserves, FilterStopPreserves,
       FilterStartPreserves
<1>6. ASSUME NEW z \in Sizes, SetBufferSize(z) PROVE IInv'
  BY <1>6, SetBufferSizePreserves
<1>7. CASE UNCHANGED vars
  BY <1>7 DEF vars, IInv, TypeOK, WriterInv, WrittenInv, ReaderInv, UnreadIntact,
     ReadIsContiguous, NoSilentLoss, dvb_ringbuffer_avail, Dist, wseg, rseg
<1> QED BY <1>1, <1>2, <1>3, <1>4, <1>5, <1>6, <1>7 DEF Next

(* The invariant holds in every reachable state.                           *)
THEOREM Invariance == Spec => []IInv
<1> QED BY InitIInv, NextIInv, PTL DEF Spec

(* The positions and the copies of dvb_ringbuffer_write and                *)
(* dvb_ringbuffer_read_user stay inside the buffer for every size, packet  *)
(* and read length.                                                        *)
THEOREM TypeCorrect == Spec => []TypeOK
<1>1. IInv => TypeOK  BY DEF IInv
<1> QED BY <1>1, Invariance, PTL

(* dvb_ringbuffer_write never overwrites an unread byte.                   *)
THEOREM UnreadIsIntact == Spec => []UnreadIntact
<1>1. IInv => UnreadIntact  BY DEF IInv
<1> QED BY <1>1, Invariance, PTL

(* What dvb_dmxdev_buffer_read copies to the user is one stretch of the    *)
(* stream.                                                                 *)
THEOREM ReadsAreContiguous == Spec => []ReadIsContiguous
<1>1. IInv => ReadIsContiguous  BY DEF IInv
<1> QED BY <1>1, Invariance, PTL

(* A loss always leaves an error for the reader.                           *)
THEOREM LossIsMarked == Spec => []NoSilentLoss
<1>1. IInv => NoSilentLoss  BY DEF IInv
<1> QED BY <1>1, Invariance, PTL

---------------------------------------------------------------------------
(* The ring buffer implements the byte stream.                             *)

(* The initial states map to the empty stream.                             *)
LEMMA InitRefines == Init => Stream!Init
  BY DEF Init, Stream!Init, dvb_ringbuffer_avail

(* Every step is a step of the stream or leaves it alone.                  *)
LEMMA StepRefines == IInv /\ [Next]_vars => [Stream!Next]_(Stream!vars)
<1> SUFFICES ASSUME IInv, [Next]_vars PROVE [Stream!Next]_(Stream!vars)
  OBVIOUS
<1> USE DEF Stream!Next, Stream!vars
<1>r. /\ size \in Int /\ size <= MaxSize /\ MaxSize \in Int
      /\ Used \in Int /\ 0 <= Used /\ Used < size
      /\ rnext \in Nat /\ wstamp \in Nat
  BY RingTyped DEF IInv, TypeOK
<1>1. ASSUME NEW n \in 1 .. MaxPacket, TsCallback(n)
      PROVE  Stream!Lose \/ UNCHANGED Stream!vars
  BY <1>1, <1>r DEF TsCallback, Stream!Lose, dvb_ringbuffer_avail
<1>2. ASSUME BufferWrite PROVE Stream!Lose \/ UNCHANGED Stream!vars
  <2>1. UNCHANGED <<size, pread, pwrite, rnext>> /\ wtodo \in Nat /\ wtodo >= 1
    BY <1>2 DEF BufferWrite, IInv, TypeOK, WriterInv
  <2> QED BY <1>2, <1>r, <2>1 DEF BufferWrite, Stream!Lose, EOVERFLOW, dvb_ringbuffer_avail
<1>3. ASSUME PublishWrite PROVE Stream!Put
  <2>1. /\ wseg \in Int /\ wseg >= 1 /\ wseg + Used < size
        /\ Used' = Used + wseg
    BY <1>3, WriteAdvances DEF IInv
  <2>2. /\ error = 0 /\ wstamp = rnext + Used
        /\ wstamp' = wstamp + wseg /\ UNCHANGED <<rnext, error>>
    BY <1>3 DEF IInv, PublishWrite, WriterInv, NoSilentLoss
  <2> QED BY <1>r, <2>1, <2>2 DEF Stream!Put
<1>4. ASSUME PublishRead PROVE Stream!Take
  <2>1. rseg \in Int /\ rseg >= 1 /\ rseg <= Used /\ Used' = Used - rseg
    BY <1>4, ReadAdvances DEF IInv
  <2>2. rnext' = rnext + rseg /\ UNCHANGED <<error, wstamp>>
    BY <1>4 DEF PublishRead
  <2> QED BY <1>r, <2>1, <2>2 DEF Stream!Take
<1>5. ASSUME FlushPointer PROVE Stream!Drop
  <2>1. /\ error # 0 /\ rnext' = rnext + Used /\ Used' = 0
        /\ UNCHANGED <<error, wstamp>>
    BY <1>5, <1>r DEF IInv, TypeOK, ReaderInv, FlushPointer, dvb_ringbuffer_avail
  <2> QED BY <1>r, <2>1 DEF Stream!Drop
<1>6. ASSUME FlushError \/ FilterStop \/ FilterStart PROVE Stream!Resync
  <2>1. rnext' = wstamp /\ error' = 0 /\ wstamp' = wstamp
    BY <1>6 DEF FlushError, FilterStop, FilterStart
  <2>2. pread' = pwrite' /\ pwrite' = pwrite
    BY <1>6 DEF FlushError, FilterStop, FilterStart, IInv, ReaderInv
  <2>3. Used' = 0
    BY <2>2 DEF IInv, TypeOK, dvb_ringbuffer_avail
  <2> QED BY <1>r, <2>1, <2>3 DEF Stream!Resync
<1>7. ASSUME NEW z \in Sizes, SetBufferSize(z) PROVE Stream!Resync
  <2>1. rnext' = wstamp /\ error' = 0 /\ wstamp' = wstamp /\ Used' = 0
    BY <1>7 DEF SetBufferSize, dvb_ringbuffer_avail
  <2> QED BY <1>r, <2>1 DEF Stream!Resync
<1>8. ASSUME \/ CopyIn \/ WakeUp
             \/ \E count \in 1 .. MaxCount, nb \in BOOLEAN : ReadCall(count, nb)
             \/ ReadLoop \/ ReadWait \/ ReadTestError \/ ReadAvail \/ CopyOut
             \/ ReadSignal \/ CopyFault \/ UNCHANGED vars
      PROVE  UNCHANGED Stream!vars
  <2>1. UNCHANGED <<size, pread, pwrite, error, wstamp, rnext>>
    BY <1>8 DEF CopyIn, WakeUp, ReadCall, ReadLoop, ReadWait, ReadTestError, ReadAvail,
                CopyOut, ReadSignal, CopyFault, vars
  <2> QED BY <2>1 DEF dvb_ringbuffer_avail
<1> QED
  BY <1>1, <1>2, <1>3, <1>4, <1>5, <1>6, <1>7, <1>8 DEF Next, WriterStep, ReaderStep

(* The ring buffer with its lockless reader and writer is a byte stream.   *)
THEOREM RingIsStream == Spec => StreamSpec
<1> QED BY InitRefines, StepRefines, Invariance, PTL DEF Spec, StreamSpec, Stream!Spec
===========================================================================
