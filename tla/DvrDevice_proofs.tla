-------------------------- MODULE DvrDevice_proofs --------------------------
(***************************************************************************)
(* The accesses to the memory of the dvr ring, for every size of the ring, *)
(* number of blocks, length of a packet or a read, and number of calls.    *)
(***************************************************************************)
EXTENDS DvrDevice, DmxdevExit, TLAPS, FiniteSetTheorems

RingTypes ==
    /\ data \in Blocks \cup {0} /\ mem \in Blocks \cup {0}
    /\ size \in Nat /\ pread \in Nat /\ pwrite \in Nat
    /\ len \in [Blocks -> Nat] /\ written \in [Blocks -> SUBSET Int]

StepTypes ==
    /\ mpc \in {"none", "data", "size", "free"}
    /\ rpc \in {"closed", "idle", "wait", "split", "copy1", "rest", "copy2"}
    /\ wpc \in {"idle", "copy1", "copy2"}
    /\ odd \subseteq Oddities

AccessTypes ==
    /\ rlen \in Int /\ racc.block \in Blocks \cup {0} /\ racc.from \in Nat /\ racc.n \in Int
    /\ wlen \in Int /\ wacc.block \in Blocks \cup {0} /\ wacc.from \in Nat /\ wacc.n \in Int

Types == RingTypes /\ StepTypes /\ AccessTypes

(* The pointers are positions of the ring.                                 *)
Pointers ==
    /\ "grown" \notin odd /\ size > 0 => pread < size /\ pwrite < size
    /\ "grown" \notin odd /\ mpc \in {"data", "size"} => size <= DVR_BUFFER_SIZE
    /\ size = 0 => pread = 0 /\ pwrite = 0 /\ wpc = "idle" /\ rpc = "closed" /\ ~initialised

(* The part of a copy that lies before the end is not all of it.           *)
Splits ==
    /\ rpc = "copy1" => rlen > racc.n
    /\ wpc = "copy1" => wlen > wacc.n
    /\ wpc # "idle" => wlen > 0 /\ wacc.n > 0

(* The ring has at least the memory its size says, and what the callback   *)
(* writes to is not what dvb_dvr_set_buffer_size is about to free.         *)
Bounded ==
    odd \cap {"early", "grown"} = {} =>
      /\ ~initialised => pread = 0 /\ wpc # "copy1" /\ rpc = "closed" /\ mpc \in {"none", "free"}
      /\ data # 0 => 0 < size /\ size <= len[data]
      /\ mpc \in {"data", "size"} => mem # 0 /\ len[mem] = DVR_BUFFER_SIZE
      /\ mpc = "size" => data = mem
      /\ mpc = "free" /\ mem # 0 => data # mem /\ (wpc # "idle" => wacc.block # mem)
      /\ wpc # "idle" => wacc.block # 0 /\ wacc.from + wacc.n <= len[wacc.block]
      /\ wpc = "copy1" => data # 0 /\ wlen - wacc.n < size

(* Who owns the memory at each step of the calls that exchange it.         *)
Allocated == {b \in Blocks : len[b] > 0}

Owned ==
    odd \cap {"early", "write only"} = {} =>
      /\ ~initialised => data = 0 /\ mpc = "none" /\ rpc = "closed"
      /\ mpc = "none" => (data # 0 <=> rpc # "closed") /\ Allocated = {data} \ {0}
      /\ mpc = "data" => data = 0 /\ mem # 0 /\ rpc = "closed" /\ Allocated = {mem}
      /\ mpc = "size" => data = mem /\ mem # 0 /\ rpc = "closed" /\ Allocated = {mem}
      /\ mpc = "free" => data # 0 /\ mem # 0 /\ data # mem /\ rpc # "closed" /\ Allocated = {data, mem}

(* The positions that hold what is to be read.                             *)
Used(p) == IF pread <= pwrite THEN pread <= p /\ p < pwrite
                              ELSE (pread <= p /\ p < size) \/ (0 <= p /\ p < pwrite)

Filled ==
    odd = {} =>
      /\ data # 0 => \A p \in Int : Used(p) => p \in written[data]
      /\ data = 0 => wpc = "idle"
      /\ mpc = "data" => pread = 0 /\ pwrite = 0
      /\ mpc = "size" => pread = 0

(* What the callback is writing is free, and what the reader is reading is *)
(* not, whatever the other has done since each of them looked.             *)
Writing ==
    odd = {} =>
      /\ wpc # "idle" => wlen <= Free /\ wacc.block = data /\ wacc.from = pwrite
      /\ wpc = "copy1" => pwrite + wlen > size /\ wacc.n = size - pwrite
      /\ wpc = "copy2" => pwrite + wlen <= size /\ wacc.n = wlen

Reading ==
    odd = {} =>
      /\ rpc \in {"split", "copy1", "rest", "copy2"} => 0 < rlen /\ rlen <= Avail
      /\ rpc \in {"copy1", "copy2"} => racc.block = data /\ racc.from = pread
      /\ rpc = "copy1" => pread + rlen > size /\ racc.n = size - pread
      /\ rpc \in {"rest", "copy2"} => pread + rlen <= size
      /\ rpc = "copy2" => racc.n = rlen

IInv == Types /\ Pointers /\ Splits /\ Bounded /\ Owned /\ Filled /\ Writing /\ Reading

(* The constants one by one.                                               *)
LEMMA Constants ==
    /\ DVR_BUFFER_SIZE \in Nat /\ DVR_BUFFER_SIZE > 0 /\ InitialSize \in Nat /\ InitialSize > 0
    /\ InitialSize <= DVR_BUFFER_SIZE /\ MaxPacket \in Nat /\ MaxCount \in Nat
    /\ 0 \notin Blocks /\ \A s \in Sizes : s \in Nat /\ s > 0
BY DvrAssumption

(* Init establishes the invariant.                                         *)
LEMMA InitIInv == Init => IInv
<1> SUFFICES ASSUME Init PROVE IInv
  OBVIOUS
<1> USE Constants DEF Init, Nothing, Stretch
<1>1. Types /\ Pointers /\ Splits
  BY DEF Types, RingTypes, StepTypes, AccessTypes, Pointers, Splits, Oddities
<1>2. Bounded /\ Owned
  BY DEF Bounded, Owned, Allocated
<1>3. Filled /\ Writing /\ Reading
  BY DEF Filled, Writing, Reading
<1> QED
  BY <1>1, <1>2, <1>3 DEF IInv

(* Remainders are positions of the ring.                                   *)
LEMMA ModRange ==
    \A a \in Int, n \in Nat \ {0} :
      a % n \in Nat /\ a % n < n /\ (0 <= a /\ a < n => a % n = a) /\ (a = n => a % n = 0)
OBVIOUS

(* What a copy leaves behind.                                              *)
LEMMA CopiedIs ==
    ASSUME RingTypes, AccessTypes, Copied
    PROVE  /\ written' \in [Blocks -> SUBSET Int]
           /\ \A b \in Blocks : written[b] \subseteq written'[b]
           /\ \A b \in Blocks : b = wacc.block =>
                 \A p \in Int : wacc.from <= p /\ p < wacc.from + wacc.n => p \in written'[b]
<1>1. wacc.from \in Int /\ wacc.n \in Int
  BY DEF AccessTypes
<1>2. /\ Positions(wacc) \subseteq Int
      /\ \A p \in Int : wacc.from <= p /\ p < wacc.from + wacc.n => p \in Positions(wacc)
  BY <1>1 DEF Positions
<1> QED
  BY <1>2 DEF RingTypes, Copied

---------------------------------------------------------------------------
(* dvb_dmxdev_init gives the ring its first size.                          *)
LEMMA InitRingKeeps == IInv /\ InitRing => IInv'
<1> SUFFICES ASSUME IInv, InitRing PROVE IInv'
  OBVIOUS
<1> USE DEF IInv, Types
<1>2. RingTypes'
  BY Constants DEF InitRing, memory, reader, writer, RingTypes
<1>3. StepTypes'
  BY Constants DEF InitRing, memory, reader, writer, StepTypes, Oddities
<1>4. AccessTypes'
  BY Constants DEF InitRing, memory, reader, writer, RingTypes, AccessTypes
<1>5. Pointers'
  BY Constants DEF InitRing, memory, reader, writer, RingTypes, Pointers, Free
<1>6. Splits'
  BY Constants DEF InitRing, memory, reader, writer, RingTypes, AccessTypes, Pointers, Splits,
     Free
<1>7. Bounded'
  BY Constants DEF InitRing, memory, reader, writer, RingTypes, StepTypes, AccessTypes,
     Pointers, Splits, Bounded, Free
<1>8. Owned'
  BY Constants DEF InitRing, memory, reader, writer, RingTypes, Owned, Allocated
<1>9. Filled'
  BY Constants DEF InitRing, memory, reader, writer, RingTypes, StepTypes, AccessTypes,
     Pointers, Splits, Bounded, Owned, Allocated, Filled, Used, Writing, Reading, Free, Avail
<1>10. Writing'
  BY Constants DEF InitRing, memory, reader, writer, RingTypes, StepTypes, AccessTypes,
     Pointers, Splits, Bounded, Owned, Filled, Writing, Reading, Free, Avail
<1>11. Reading'
  BY Constants DEF InitRing, memory, reader, writer, RingTypes, StepTypes, AccessTypes,
     Pointers, Splits, Bounded, Owned, Filled, Writing, Reading, Free, Avail
<1> QED
  BY <1>2, <1>3, <1>4, <1>5, <1>6, <1>7, <1>8, <1>9, <1>10, <1>11

(* An open for reading allocates the memory,                               *)
LEMMA OpenReaderKeeps == IInv /\ OpenReader => IInv'
<1> SUFFICES ASSUME IInv, OpenReader PROVE IInv'
  OBVIOUS
<1> USE DEF IInv, Types
<1>0. PICK b \in Blocks :
        /\ mpc = "none" /\ rpc = "closed" /\ mpc' = "data" /\ mem' = b /\ pread' = 0 /\ pwrite' = 0
        /\ len[b] = 0 /\ len' = [len EXCEPT ![b] = DVR_BUFFER_SIZE] /\ written' = [written EXCEPT ![b] = {}]
        /\ odd' \subseteq odd \cup {"early", "grown"} /\ odd \subseteq odd'
        /\ ("early" \notin odd' => initialised) /\ ("grown" \notin odd' => size <= DVR_BUFFER_SIZE)
        /\ UNCHANGED <<data, size, error, initialised, rpc, rlen, racc, wpc, wlen, wacc>>
  <2>1. PICK b \in Blocks : Allocate(b, DVR_BUFFER_SIZE) /\ mem' = b
    BY DEF OpenReader
  <2>2. /\ odd' \subseteq odd \cup {"early", "grown"} /\ odd \subseteq odd'
        /\ ("early" \notin odd' => initialised) /\ ("grown" \notin odd' => ~(size > DVR_BUFFER_SIZE))
    BY DEF OpenReader
  <2>3. "grown" \notin odd' => size <= DVR_BUFFER_SIZE
    BY <2>2, Constants DEF RingTypes
  <2> QED
    BY <2>1, <2>2, <2>3 DEF OpenReader, Lock, Allocate, reader, writer
<1>2. RingTypes'
  BY Constants, <1>0 DEF RingTypes
<1>3. StepTypes'
  BY Constants, <1>0 DEF StepTypes, Oddities
<1>4. AccessTypes'
  BY Constants, <1>0 DEF RingTypes, AccessTypes
<1>5. Pointers'
  BY Constants, <1>0 DEF RingTypes, Pointers, Free
<1>6. Splits'
  BY Constants, <1>0 DEF RingTypes, AccessTypes, Pointers, Splits, Free
<1>7. Bounded'
  BY Constants, <1>0 DEF RingTypes, StepTypes, AccessTypes, Pointers, Splits, Bounded, Free
<1>8. Owned'
  <2>1. Allocated' = Allocated \cup {b}
    BY <1>0, Constants DEF Allocated, RingTypes
  <2>2. mem' # 0
    BY <1>0, Constants
  <2> QED
    BY <1>0, <2>1, <2>2 DEF Owned
<1>9. Filled'
  BY Constants, <1>0 DEF RingTypes, StepTypes, AccessTypes, Pointers, Splits, Bounded, Owned,
     Allocated, Filled, Used, Writing, Reading, Free, Avail
<1>10. Writing'
  BY Constants, <1>0 DEF RingTypes, StepTypes, AccessTypes, Pointers, Splits, Bounded, Owned,
     Filled, Writing, Reading, Free, Avail
<1>11. Reading'
  BY Constants, <1>0 DEF RingTypes, StepTypes, AccessTypes, Pointers, Splits, Bounded, Owned,
     Filled, Writing, Reading, Free, Avail
<1> QED
  BY <1>2, <1>3, <1>4, <1>5, <1>6, <1>7, <1>8, <1>9, <1>10, <1>11

(* gives it to the ring,                                                   *)
LEMMA OpenDataKeeps == IInv /\ OpenData => IInv'
<1> SUFFICES ASSUME IInv, OpenData PROVE IInv'
  OBVIOUS
<1> USE DEF IInv, Types
<1>0. /\ mpc = "data" /\ mpc' = "size" /\ data' = mem
      /\ UNCHANGED <<size, pread, pwrite, len, written, initialised, mem, rpc, rlen, racc, wpc, wlen, wacc, odd>>
  BY DEF OpenData, memory, reader, writer
<1>2. RingTypes'
  BY Constants, <1>0 DEF RingTypes
<1>3. StepTypes'
  BY Constants, <1>0 DEF StepTypes, Oddities
<1>4. AccessTypes'
  BY Constants, <1>0 DEF RingTypes, AccessTypes
<1>5. Pointers'
  BY Constants, <1>0 DEF RingTypes, Pointers, Free
<1>6. Splits'
  BY Constants, <1>0 DEF RingTypes, AccessTypes, Pointers, Splits, Free
<1>7. Bounded'
  BY Constants, <1>0 DEF RingTypes, StepTypes, AccessTypes, Pointers, Splits, Bounded, Free
<1>8. Owned'
  BY Constants, <1>0 DEF RingTypes, Owned, Allocated
<1>9. Filled'
  BY Constants, <1>0 DEF RingTypes, StepTypes, AccessTypes, Pointers, Splits, Bounded, Owned,
     Allocated, Filled, Used, Writing, Reading, Free, Avail
<1>10. Writing'
  BY Constants, <1>0 DEF RingTypes, StepTypes, AccessTypes, Pointers, Splits, Bounded, Owned,
     Filled, Writing, Reading, Free, Avail
<1>11. Reading'
  BY Constants, <1>0 DEF RingTypes, StepTypes, AccessTypes, Pointers, Splits, Bounded, Owned,
     Filled, Writing, Reading, Free, Avail
<1> QED
  BY <1>2, <1>3, <1>4, <1>5, <1>6, <1>7, <1>8, <1>9, <1>10, <1>11

(* and sets the size.                                                      *)
LEMMA OpenSizeKeeps == IInv /\ OpenSize => IInv'
<1> SUFFICES ASSUME IInv, OpenSize PROVE IInv'
  OBVIOUS
<1> USE DEF IInv, Types
<1>0. /\ mpc = "size" /\ mpc' = "none" /\ mem' = 0 /\ size' = DVR_BUFFER_SIZE /\ rpc' = "idle"
      /\ UNCHANGED <<data, pread, pwrite, len, written, initialised, rlen, racc, wpc, wlen, wacc, odd>>
  BY DEF OpenSize, memory, writer
<1>2. RingTypes'
  BY Constants, <1>0 DEF RingTypes
<1>3. StepTypes'
  BY Constants, <1>0 DEF StepTypes, Oddities
<1>4. AccessTypes'
  BY Constants, <1>0 DEF RingTypes, AccessTypes
<1>5. Pointers'
  BY Constants, <1>0 DEF RingTypes, Pointers, Free
<1>6. Splits'
  BY Constants, <1>0 DEF RingTypes, AccessTypes, Pointers, Splits, Free
<1>7. Bounded'
  BY Constants, <1>0 DEF RingTypes, StepTypes, AccessTypes, Pointers, Splits, Bounded, Free
<1>8. Owned'
  BY Constants, <1>0 DEF RingTypes, Owned, Allocated
<1>9. Filled'
  BY Constants, <1>0 DEF RingTypes, StepTypes, AccessTypes, Pointers, Splits, Bounded, Owned,
     Allocated, Filled, Used, Writing, Reading, Free, Avail
<1>10. Writing'
  BY Constants, <1>0 DEF RingTypes, StepTypes, AccessTypes, Pointers, Splits, Bounded, Owned,
     Filled, Writing, Reading, Free, Avail
<1>11. Reading'
  BY Constants, <1>0 DEF RingTypes, StepTypes, AccessTypes, Pointers, Splits, Bounded, Owned,
     Filled, Writing, Reading, Free, Avail
<1> QED
  BY <1>2, <1>3, <1>4, <1>5, <1>6, <1>7, <1>8, <1>9, <1>10, <1>11

(* A close frees the memory: no callback is writing to it.                 *)
LEMMA CloseReaderKeeps == IInv /\ CloseReader => IInv'
<1> SUFFICES ASSUME IInv, CloseReader PROVE IInv'
  OBVIOUS
<1> USE DEF IInv, Types
<1>0. /\ mpc = "none" /\ rpc = "idle" /\ rpc' = "closed" /\ (data # 0 => wpc = "idle") /\ data' = 0
      /\ len' = [c \in Blocks |-> IF c = data THEN 0 ELSE len[c]]
      /\ written' = [c \in Blocks |-> IF c = data THEN {} ELSE written[c]]
      /\ UNCHANGED <<size, pread, pwrite, initialised, mpc, mem, rlen, racc, wpc, wlen, wacc, odd>>
  BY DEF CloseReader, Lock, Released, writer
<1>2. RingTypes'
  BY Constants, <1>0 DEF RingTypes
<1>3. StepTypes'
  BY Constants, <1>0 DEF StepTypes, Oddities
<1>4. AccessTypes'
  BY Constants, <1>0 DEF RingTypes, AccessTypes
<1>5. Pointers'
  BY Constants, <1>0 DEF RingTypes, Pointers, Free
<1>6. Splits'
  BY Constants, <1>0 DEF RingTypes, AccessTypes, Pointers, Splits, Free
<1>7. Bounded'
  BY Constants, <1>0 DEF RingTypes, StepTypes, AccessTypes, Pointers, Splits, Bounded, Free
<1>8. Owned'
  <2>1. Allocated' = Allocated \ {data}
    BY <1>0 DEF Allocated, RingTypes
  <2> QED
    BY <1>0, <2>1 DEF Owned
<1>9. Filled'
  BY Constants, <1>0 DEF RingTypes, StepTypes, AccessTypes, Pointers, Splits, Bounded, Owned,
     Allocated, Filled, Used, Writing, Reading, Free, Avail
<1>10. Writing'
  BY Constants, <1>0 DEF RingTypes, StepTypes, AccessTypes, Pointers, Splits, Bounded, Owned,
     Filled, Writing, Reading, Free, Avail
<1>11. Reading'
  BY Constants, <1>0 DEF RingTypes, StepTypes, AccessTypes, Pointers, Splits, Bounded, Owned,
     Filled, Writing, Reading, Free, Avail
<1> QED
  BY <1>2, <1>3, <1>4, <1>5, <1>6, <1>7, <1>8, <1>9, <1>10, <1>11

(* A file for writing is opened                                            *)
LEMMA OpenWriterKeeps == IInv /\ OpenWriter => IInv'
<1> SUFFICES ASSUME IInv, OpenWriter PROVE IInv'
  OBVIOUS
<1> USE DEF IInv, Types
<1>2. RingTypes'
  BY DEF OpenWriter, Lock, Call, ring, memory, reader, writer, RingTypes
<1>3. StepTypes'
  BY DEF OpenWriter, Lock, Call, ring, memory, reader, writer, StepTypes, Oddities
<1>4. AccessTypes'
  BY DEF OpenWriter, Lock, Call, ring, memory, reader, writer, RingTypes, AccessTypes
<1>5. Pointers'
  BY DEF OpenWriter, Lock, Call, ring, memory, reader, writer, RingTypes, Pointers, Free
<1>6. Splits'
  BY DEF OpenWriter, Lock, Call, ring, memory, reader, writer, RingTypes, AccessTypes,
     Pointers, Splits, Free
<1>7. Bounded'
  BY DEF OpenWriter, Lock, Call, ring, memory, reader, writer, RingTypes, StepTypes,
     AccessTypes, Pointers, Splits, Bounded, Free
<1>8. Owned'
  BY DEF OpenWriter, Lock, Call, ring, memory, reader, writer, RingTypes, Owned, Allocated
<1>9. Filled'
  BY DEF OpenWriter, Lock, Call, ring, memory, reader, writer, RingTypes, StepTypes,
     AccessTypes, Pointers, Splits, Bounded, Owned, Allocated, Filled, Used, Writing, Reading,
     Free, Avail
<1>10. Writing'
  BY DEF OpenWriter, Lock, Call, ring, memory, reader, writer, RingTypes, StepTypes,
     AccessTypes, Pointers, Splits, Bounded, Owned, Filled, Writing, Reading, Free, Avail
<1>11. Reading'
  BY DEF OpenWriter, Lock, Call, ring, memory, reader, writer, RingTypes, StepTypes,
     AccessTypes, Pointers, Splits, Bounded, Owned, Filled, Writing, Reading, Free, Avail
<1> QED
  BY <1>2, <1>3, <1>4, <1>5, <1>6, <1>7, <1>8, <1>9, <1>10, <1>11

(* and closed.                                                             *)
LEMMA CloseWriterKeeps == IInv /\ CloseWriter => IInv'
<1> SUFFICES ASSUME IInv, CloseWriter PROVE IInv'
  OBVIOUS
<1> USE DEF IInv, Types
<1>2. RingTypes'
  BY DEF CloseWriter, Lock, ring, memory, reader, writer, RingTypes
<1>3. StepTypes'
  BY DEF CloseWriter, Lock, ring, memory, reader, writer, StepTypes, Oddities
<1>4. AccessTypes'
  BY DEF CloseWriter, Lock, ring, memory, reader, writer, RingTypes, AccessTypes
<1>5. Pointers'
  BY DEF CloseWriter, Lock, ring, memory, reader, writer, RingTypes, Pointers, Free
<1>6. Splits'
  BY DEF CloseWriter, Lock, ring, memory, reader, writer, RingTypes, AccessTypes, Pointers,
     Splits, Free
<1>7. Bounded'
  BY DEF CloseWriter, Lock, ring, memory, reader, writer, RingTypes, StepTypes, AccessTypes,
     Pointers, Splits, Bounded, Free
<1>8. Owned'
  BY DEF CloseWriter, Lock, ring, memory, reader, writer, RingTypes, Owned, Allocated
<1>9. Filled'
  BY DEF CloseWriter, Lock, ring, memory, reader, writer, RingTypes, StepTypes, AccessTypes,
     Pointers, Splits, Bounded, Owned, Allocated, Filled, Used, Writing, Reading, Free, Avail
<1>10. Writing'
  BY DEF CloseWriter, Lock, ring, memory, reader, writer, RingTypes, StepTypes, AccessTypes,
     Pointers, Splits, Bounded, Owned, Filled, Writing, Reading, Free, Avail
<1>11. Reading'
  BY DEF CloseWriter, Lock, ring, memory, reader, writer, RingTypes, StepTypes, AccessTypes,
     Pointers, Splits, Bounded, Owned, Filled, Writing, Reading, Free, Avail
<1> QED
  BY <1>2, <1>3, <1>4, <1>5, <1>6, <1>7, <1>8, <1>9, <1>10, <1>11

(* DMX_SET_BUFFER_SIZE exchanges the memory                                *)
LEMMA ResizeKeeps == IInv /\ Resize => IInv'
<1> SUFFICES ASSUME IInv, Resize PROVE IInv'
  OBVIOUS
<1> USE DEF IInv, Types
<1>0. PICK s \in Nat, b \in Blocks :
        /\ s > 0 /\ mpc = "none" /\ wpc = "idle" /\ mpc' = "free" /\ mem' = data
        /\ len[b] = 0 /\ len' = [len EXCEPT ![b] = s] /\ written' = [written EXCEPT ![b] = {}]
        /\ data' = b /\ size' = s /\ pread' = 0 /\ pwrite' = 0
        /\ odd' \subseteq odd \cup {"read", "write only"} /\ odd \subseteq odd'
        /\ (rpc = "closed" => "write only" \in odd') /\ (rpc \notin {"closed", "idle"} => "read" \in odd')
        /\ UNCHANGED <<initialised, rpc, rlen, racc, wpc, wlen, wacc>>
  <2>1. PICK s \in Sizes, b \in Blocks : Allocate(b, s) /\ data' = b /\ size' = s
    BY DEF Resize
  <2>2. s \in Nat /\ s > 0
    BY Constants
  <2> QED
    BY <2>1, <2>2 DEF Resize, Lock, ResizeCalled, Odd, Allocate, reader, writer
<1>2. RingTypes'
  BY Constants, <1>0 DEF RingTypes
<1>3. StepTypes'
  BY Constants, <1>0 DEF StepTypes, Oddities
<1>4. AccessTypes'
  BY Constants, <1>0 DEF RingTypes, AccessTypes
<1>5. Pointers'
  <2>1. size' \in Nat /\ size' > 0 /\ pread' = 0 /\ pwrite' = 0 /\ mpc' = "free"
    BY <1>0
  <2> QED
    BY <2>1 DEF Pointers
<1>6. Splits'
  BY Constants, <1>0 DEF RingTypes, AccessTypes, Pointers, Splits, Free
<1>7. Bounded'
  <2>1. b # 0
    BY Constants
  <2>2. odd \cap {"early", "grown"} = {} /\ data # 0 => data # b
    <3>1. len[b] = 0
      BY <1>0
    <3>2. odd \cap {"early", "grown"} = {} /\ data # 0 => len[data] # 0
      BY DEF Bounded, RingTypes
    <3> QED
      BY <3>1, <3>2
  <2>3. /\ pread' = 0 /\ wpc' = "idle" /\ mpc' = "free" /\ mem' = data /\ data' = b
        /\ size' > 0 /\ size' <= len'[b]
    <3>1. size' \in Nat /\ size' > 0 /\ len'[b] = size'
      BY <1>0 DEF RingTypes
    <3>2. pread' = 0 /\ wpc' = "idle" /\ mpc' = "free" /\ mem' = data /\ data' = b
      BY <1>0
    <3> QED
      BY <3>1, <3>2
  <2>4. odd' \cap {"early", "grown"} = {} => odd \cap {"early", "grown"} = {}
    BY <1>0
  <2>5. initialised' = initialised /\ rpc' = rpc
    BY <1>0
  <2> QED
    BY <2>1, <2>2, <2>3, <2>4, <2>5 DEF Bounded
<1>8. Owned'
  <2>1. b # 0
    BY Constants
  <2>2. b \notin Allocated
    <3>1. len[b] = 0
      BY <1>0
    <3> QED
      BY <3>1 DEF Allocated
  <2>3. Allocated' = Allocated \cup {b}
    <3>1. len'[b] > 0 /\ \A c \in Blocks \ {b} : len'[c] = len[c]
      BY <1>0 DEF RingTypes
    <3> QED
      BY <3>1 DEF Allocated
  <2> QED
    BY <1>0, <2>1, <2>2, <2>3 DEF Owned
<1>9. Filled'
  <2>1. b # 0
    BY Constants
  <2>2. pread' = 0 /\ pwrite' = 0 /\ data' = b /\ mpc' = "free"
    BY <1>0
  <2>3. \A p \in Int : ~Used(p)'
    BY <2>2 DEF Used
  <2> QED
    BY <2>1, <2>2, <2>3 DEF Filled
<1>10. Writing'
  BY Constants, <1>0 DEF RingTypes, StepTypes, AccessTypes, Pointers, Splits, Bounded, Owned,
     Filled, Writing, Reading, Free, Avail
<1>11. Reading'
  BY Constants, <1>0 DEF RingTypes, StepTypes, AccessTypes, Pointers, Splits, Bounded, Owned,
     Filled, Writing, Reading, Free, Avail
<1> QED
  BY <1>2, <1>3, <1>4, <1>5, <1>6, <1>7, <1>8, <1>9, <1>10, <1>11

(* and frees the old one.                                                  *)
LEMMA ResizeFreesKeeps == IInv /\ ResizeFrees => IInv'
<1> SUFFICES ASSUME IInv, ResizeFrees PROVE IInv'
  OBVIOUS
<1> USE DEF IInv, Types
<1>0. /\ mpc = "free" /\ mpc' = "none" /\ mem' = 0
      /\ len' = [c \in Blocks |-> IF c = mem THEN 0 ELSE len[c]]
      /\ written' = [c \in Blocks |-> IF c = mem THEN {} ELSE written[c]]
      /\ UNCHANGED <<data, size, pread, pwrite, initialised, rpc, rlen, racc, wpc, wlen, wacc, odd>>
  BY DEF ResizeFrees, Released, ring, reader, writer
<1>2. RingTypes'
  BY Constants, <1>0 DEF RingTypes
<1>3. StepTypes'
  BY Constants, <1>0 DEF StepTypes, Oddities
<1>4. AccessTypes'
  BY Constants, <1>0 DEF RingTypes, AccessTypes
<1>5. Pointers'
  BY Constants, <1>0 DEF RingTypes, Pointers, Free
<1>6. Splits'
  BY Constants, <1>0 DEF RingTypes, AccessTypes, Pointers, Splits, Free
<1>7. Bounded'
  BY Constants, <1>0 DEF RingTypes, StepTypes, AccessTypes, Pointers, Splits, Bounded, Free
<1>8. Owned'
  <2>1. Allocated' = Allocated \ {mem}
    BY <1>0 DEF Allocated, RingTypes
  <2> QED
    BY <1>0, <2>1 DEF Owned
<1>9. Filled'
  BY Constants, <1>0 DEF RingTypes, StepTypes, AccessTypes, Pointers, Splits, Bounded, Owned,
     Allocated, Filled, Used, Writing, Reading, Free, Avail
<1>10. Writing'
  BY Constants, <1>0 DEF RingTypes, StepTypes, AccessTypes, Pointers, Splits, Bounded, Owned,
     Filled, Writing, Reading, Free, Avail
<1>11. Reading'
  BY Constants, <1>0 DEF RingTypes, StepTypes, AccessTypes, Pointers, Splits, Bounded, Owned,
     Filled, Writing, Reading, Free, Avail
<1> QED
  BY <1>2, <1>3, <1>4, <1>5, <1>6, <1>7, <1>8, <1>9, <1>10, <1>11

(* A read looks for an error,                                              *)
LEMMA ReadCallKeeps == IInv /\ ReadCall => IInv'
<1> SUFFICES ASSUME IInv, ReadCall PROVE IInv'
  OBVIOUS
<1> USE DEF IInv, Types
<1>2. RingTypes'
  BY DEF ReadCall, Flush, memory, writer, RingTypes
<1>3. StepTypes'
  BY DEF ReadCall, Flush, memory, writer, StepTypes, Oddities
<1>4. AccessTypes'
  BY DEF ReadCall, Flush, memory, writer, RingTypes, AccessTypes
<1>5. Pointers'
  BY DEF ReadCall, Flush, memory, writer, RingTypes, Pointers, Free
<1>6. Splits'
  BY DEF ReadCall, Flush, memory, writer, RingTypes, AccessTypes, Pointers, Splits, Free
<1>7. Bounded'
  BY DEF ReadCall, Flush, memory, writer, RingTypes, StepTypes, AccessTypes, Pointers, Splits,
     Bounded, Free
<1>8. Owned'
  BY DEF ReadCall, Flush, memory, writer, RingTypes, Owned, Allocated
<1>9. Filled'
  BY DEF ReadCall, Flush, memory, writer, RingTypes, StepTypes, AccessTypes, Pointers, Splits,
     Bounded, Owned, Allocated, Filled, Used, Writing, Reading, Free, Avail
<1>10. Writing'
  BY DEF ReadCall, Flush, memory, writer, RingTypes, StepTypes, AccessTypes, Pointers, Splits,
     Bounded, Owned, Filled, Writing, Reading, Free, Avail
<1>11. Reading'
  BY DEF ReadCall, Flush, memory, writer, RingTypes, StepTypes, AccessTypes, Pointers, Splits,
     Bounded, Owned, Filled, Writing, Reading, Free, Avail
<1> QED
  BY <1>2, <1>3, <1>4, <1>5, <1>6, <1>7, <1>8, <1>9, <1>10, <1>11

(* returns without a byte,                                                 *)
LEMMA ReadLeavesKeeps == IInv /\ ReadLeaves => IInv'
<1> SUFFICES ASSUME IInv, ReadLeaves PROVE IInv'
  OBVIOUS
<1> USE DEF IInv, Types
<1>2. RingTypes'
  BY DEF ReadLeaves, ring, memory, writer, RingTypes
<1>3. StepTypes'
  BY DEF ReadLeaves, ring, memory, writer, StepTypes, Oddities
<1>4. AccessTypes'
  BY DEF ReadLeaves, ring, memory, writer, RingTypes, AccessTypes
<1>5. Pointers'
  BY DEF ReadLeaves, ring, memory, writer, RingTypes, Pointers, Free
<1>6. Splits'
  BY DEF ReadLeaves, ring, memory, writer, RingTypes, AccessTypes, Pointers, Splits, Free
<1>7. Bounded'
  BY DEF ReadLeaves, ring, memory, writer, RingTypes, StepTypes, AccessTypes, Pointers,
     Splits, Bounded, Free
<1>8. Owned'
  BY DEF ReadLeaves, ring, memory, writer, RingTypes, Owned, Allocated
<1>9. Filled'
  BY DEF ReadLeaves, ring, memory, writer, RingTypes, StepTypes, AccessTypes, Pointers,
     Splits, Bounded, Owned, Allocated, Filled, Used, Writing, Reading, Free, Avail
<1>10. Writing'
  BY DEF ReadLeaves, ring, memory, writer, RingTypes, StepTypes, AccessTypes, Pointers,
     Splits, Bounded, Owned, Filled, Writing, Reading, Free, Avail
<1>11. Reading'
  BY DEF ReadLeaves, ring, memory, writer, RingTypes, StepTypes, AccessTypes, Pointers,
     Splits, Bounded, Owned, Filled, Writing, Reading, Free, Avail
<1> QED
  BY <1>2, <1>3, <1>4, <1>5, <1>6, <1>7, <1>8, <1>9, <1>10, <1>11

(* finds bytes or an error,                                                *)
LEMMA ReadWakesKeeps == IInv /\ ReadWakes => IInv'
<1> SUFFICES ASSUME IInv, ReadWakes PROVE IInv'
  OBVIOUS
<1> USE DEF IInv, Types
<1>0. /\ rpc = "wait"
      /\ \/ rpc' = "idle" /\ pread' = pwrite /\ rlen' = rlen
         \/ /\ rpc' = "split" /\ pread' = pread /\ rlen' \in Int
            /\ pread # pwrite /\ rlen' <= Avail /\ (Avail > 0 => rlen' > 0)
      /\ UNCHANGED <<data, size, pwrite, len, written, initialised, mpc, mem, racc, wpc, wlen, wacc, odd>>
  <2>1. Avail \in Int
    BY DEF Avail, RingTypes
  <2>2. \A count \in 1 .. MaxCount :
            /\ Least(Avail, count) \in Int /\ Least(Avail, count) <= Avail
            /\ Avail > 0 => Least(Avail, count) > 0
    BY <2>1, Constants DEF Least
  <2> QED
    BY <2>2 DEF ReadWakes, Flush, memory, writer
<1>2. RingTypes'
  BY <1>0 DEF RingTypes
<1>3. StepTypes'
  BY <1>0 DEF StepTypes, Oddities
<1>4. AccessTypes'
  BY <1>0 DEF RingTypes, AccessTypes
<1>5. Pointers'
  BY <1>0 DEF RingTypes, Pointers, Free
<1>6. Splits'
  BY <1>0 DEF RingTypes, AccessTypes, Pointers, Splits, Free
<1>7. Bounded'
  BY <1>0 DEF RingTypes, StepTypes, AccessTypes, Pointers, Splits, Bounded, Free
<1>8. Owned'
  BY <1>0 DEF RingTypes, Owned, Allocated
<1>9. Filled'
  BY <1>0 DEF RingTypes, StepTypes, AccessTypes, Pointers, Splits, Bounded, Owned, Allocated,
     Filled, Used, Writing, Reading, Free, Avail
<1>10. Writing'
  BY <1>0 DEF RingTypes, StepTypes, AccessTypes, Pointers, Splits, Bounded, Owned, Filled,
     Writing, Reading, Free, Avail
<1>11. Reading'
  BY <1>0 DEF RingTypes, StepTypes, AccessTypes, Pointers, Splits, Bounded, Owned, Filled,
     Writing, Reading, Free, Avail
<1> QED
  BY <1>2, <1>3, <1>4, <1>5, <1>6, <1>7, <1>8, <1>9, <1>10, <1>11

(* copies up to the end of the memory,                                     *)
LEMMA ReadSplitKeeps == IInv /\ ReadSplit => IInv'
<1> SUFFICES ASSUME IInv, ReadSplit PROVE IInv'
  OBVIOUS
<1> USE DEF IInv, Types
<1>0. /\ rpc = "split"
      /\ \/ /\ rpc' = "copy1" /\ pread + rlen > size /\ size > pread
            /\ racc'.block = data /\ racc'.from = pread /\ racc'.n = size - pread
         \/ rpc' = "rest" /\ racc' = racc /\ (pread + rlen <= size \/ size <= pread)
      /\ UNCHANGED <<data, size, pread, pwrite, len, written, initialised, mpc, mem, rlen, wpc, wlen, wacc, odd>>
  <2>1. Split(pread, rlen) \in Int
    BY DEF Split, RingTypes, AccessTypes
  <2>2. CASE Split(pread, rlen) > 0
    <3>1. pread + rlen > size /\ size > pread /\ Split(pread, rlen) = size - pread
      BY <2>2 DEF Split, RingTypes, AccessTypes
    <3> QED
      BY <2>2, <3>1 DEF ReadSplit, Stretch, ring, memory, writer
  <2>3. CASE ~(Split(pread, rlen) > 0)
    <3>1. pread + rlen <= size \/ size <= pread
      BY <2>3 DEF Split, RingTypes, AccessTypes
    <3> QED
      BY <2>3, <3>1 DEF ReadSplit, ring, memory, writer
  <2> QED
    BY <2>2, <2>3
<1>2. RingTypes'
  BY <1>0 DEF RingTypes
<1>3. StepTypes'
  BY <1>0 DEF StepTypes, Oddities
<1>4. AccessTypes'
  BY <1>0 DEF RingTypes, AccessTypes
<1>5. Pointers'
  BY <1>0 DEF RingTypes, Pointers, Free
<1>6. Splits'
  BY <1>0 DEF RingTypes, AccessTypes, Pointers, Splits, Free
<1>7. Bounded'
  BY <1>0 DEF RingTypes, StepTypes, AccessTypes, Pointers, Splits, Bounded, Free
<1>8. Owned'
  BY <1>0 DEF RingTypes, Owned, Allocated
<1>9. Filled'
  BY <1>0 DEF RingTypes, StepTypes, AccessTypes, Pointers, Splits, Bounded, Owned, Allocated,
     Filled, Used, Writing, Reading, Free, Avail
<1>10. Writing'
  BY <1>0 DEF RingTypes, StepTypes, AccessTypes, Pointers, Splits, Bounded, Owned, Filled,
     Writing, Reading, Free, Avail
<1>11. Reading'
  BY <1>0 DEF RingTypes, StepTypes, AccessTypes, Pointers, Splits, Bounded, Owned, Filled,
     Writing, Reading, Free, Avail
<1> QED
  BY <1>2, <1>3, <1>4, <1>5, <1>6, <1>7, <1>8, <1>9, <1>10, <1>11

(* goes on at its beginning,                                               *)
LEMMA ReadSplitDoneKeeps == IInv /\ ReadSplitDone => IInv'
<1> SUFFICES ASSUME IInv, ReadSplitDone PROVE IInv'
  OBVIOUS
<1> USE DEF IInv, Types
<1>0. /\ rpc = "copy1" /\ rpc' = "rest" /\ pread' = 0 /\ rlen' = rlen - racc.n
      /\ racc'.block = 0 /\ racc'.from = 0 /\ racc'.n = 0
      /\ UNCHANGED <<data, size, pwrite, len, written, initialised, mpc, mem, wpc, wlen, wacc, odd>>
  BY DEF ReadSplitDone, Nothing, Stretch, memory, writer
<1>2. RingTypes'
  BY <1>0 DEF RingTypes
<1>3. StepTypes'
  BY <1>0 DEF StepTypes, Oddities
<1>4. AccessTypes'
  BY <1>0 DEF RingTypes, AccessTypes
<1>5. Pointers'
  BY <1>0 DEF RingTypes, Pointers, Free
<1>6. Splits'
  BY <1>0 DEF RingTypes, AccessTypes, Pointers, Splits, Free
<1>7. Bounded'
  BY <1>0 DEF RingTypes, StepTypes, AccessTypes, Pointers, Splits, Bounded, Free
<1>8. Owned'
  BY <1>0 DEF RingTypes, Owned, Allocated
<1>9. Filled'
  BY <1>0 DEF RingTypes, StepTypes, AccessTypes, Pointers, Splits, Bounded, Owned, Allocated,
     Filled, Used, Writing, Reading, Free, Avail
<1>10. Writing'
  BY <1>0 DEF RingTypes, StepTypes, AccessTypes, Pointers, Splits, Bounded, Owned, Filled,
     Writing, Reading, Free, Avail
<1>11. Reading'
  BY <1>0 DEF RingTypes, StepTypes, AccessTypes, Pointers, Splits, Bounded, Owned, Filled,
     Writing, Reading, Free, Avail
<1> QED
  BY <1>2, <1>3, <1>4, <1>5, <1>6, <1>7, <1>8, <1>9, <1>10, <1>11

(* copies the rest,                                                        *)
LEMMA ReadRestKeeps == IInv /\ ReadRest => IInv'
<1> SUFFICES ASSUME IInv, ReadRest PROVE IInv'
  OBVIOUS
<1> USE DEF IInv, Types
<1>2. RingTypes'
  BY DEF ReadRest, Stretch, ring, memory, writer, RingTypes
<1>3. StepTypes'
  BY DEF ReadRest, Stretch, ring, memory, writer, StepTypes, Oddities
<1>4. AccessTypes'
  BY DEF ReadRest, Stretch, ring, memory, writer, RingTypes, AccessTypes
<1>5. Pointers'
  BY DEF ReadRest, Stretch, ring, memory, writer, RingTypes, Pointers, Free
<1>6. Splits'
  BY DEF ReadRest, Stretch, ring, memory, writer, RingTypes, AccessTypes, Pointers, Splits,
     Free
<1>7. Bounded'
  BY DEF ReadRest, Stretch, ring, memory, writer, RingTypes, StepTypes, AccessTypes, Pointers,
     Splits, Bounded, Free
<1>8. Owned'
  BY DEF ReadRest, Stretch, ring, memory, writer, RingTypes, Owned, Allocated
<1>9. Filled'
  BY DEF ReadRest, Stretch, ring, memory, writer, RingTypes, StepTypes, AccessTypes, Pointers,
     Splits, Bounded, Owned, Allocated, Filled, Used, Writing, Reading, Free, Avail
<1>10. Writing'
  BY DEF ReadRest, Stretch, ring, memory, writer, RingTypes, StepTypes, AccessTypes, Pointers,
     Splits, Bounded, Owned, Filled, Writing, Reading, Free, Avail
<1>11. Reading'
  BY DEF ReadRest, Stretch, ring, memory, writer, RingTypes, StepTypes, AccessTypes, Pointers,
     Splits, Bounded, Owned, Filled, Writing, Reading, Free, Avail
<1> QED
  BY <1>2, <1>3, <1>4, <1>5, <1>6, <1>7, <1>8, <1>9, <1>10, <1>11

(* moves the read pointer,                                                 *)
LEMMA ReadRestDoneKeeps == IInv /\ ReadRestDone => IInv'
<1> SUFFICES ASSUME IInv, ReadRestDone PROVE IInv'
  OBVIOUS
<1> USE DEF IInv, Types
<1>0. /\ rpc = "copy2" /\ rpc' \in {"wait", "idle"} /\ pread' = (pread + rlen) % size /\ rlen' = 0
      /\ racc'.block = 0 /\ racc'.from = 0 /\ racc'.n = 0
      /\ UNCHANGED <<data, size, pwrite, len, written, initialised, mpc, mem, wpc, wlen, wacc, odd>>
  BY DEF ReadRestDone, Nothing, Stretch, memory, writer
<1>1. /\ size > 0 /\ pread' \in Nat /\ pread' < size
      /\ 0 <= pread + rlen /\ pread + rlen < size => pread' = pread + rlen
      /\ pread + rlen = size => pread' = 0
  <2>1. size \in Nat \ {0} /\ pread + rlen \in Int
    BY <1>0 DEF RingTypes, AccessTypes, Pointers
  <2> QED
    BY <1>0, <2>1, ModRange
<1>2. RingTypes'
  BY <1>0, <1>1 DEF RingTypes
<1>3. StepTypes'
  BY <1>0, <1>1 DEF StepTypes, Oddities
<1>4. AccessTypes'
  BY <1>0, <1>1 DEF RingTypes, AccessTypes
<1>5. Pointers'
  BY <1>0, <1>1 DEF RingTypes, Pointers, Free
<1>6. Splits'
  BY <1>0, <1>1 DEF RingTypes, AccessTypes, Pointers, Splits, Free
<1>7. Bounded'
  BY <1>0, <1>1 DEF RingTypes, StepTypes, AccessTypes, Pointers, Splits, Bounded, Free
<1>8. Owned'
  BY <1>0, <1>1 DEF RingTypes, Owned, Allocated
<1>9. Filled'
  BY <1>0, <1>1 DEF RingTypes, StepTypes, AccessTypes, Pointers, Splits, Bounded, Owned,
     Allocated, Filled, Used, Writing, Reading, Free, Avail
<1>10. Writing'
  BY <1>0, <1>1 DEF RingTypes, StepTypes, AccessTypes, Pointers, Splits, Bounded, Owned,
     Filled, Writing, Reading, Free, Avail
<1>11. Reading'
  BY <1>0, <1>1 DEF RingTypes, StepTypes, AccessTypes, Pointers, Splits, Bounded, Owned,
     Filled, Writing, Reading, Free, Avail
<1> QED
  BY <1>2, <1>3, <1>4, <1>5, <1>6, <1>7, <1>8, <1>9, <1>10, <1>11

(* or fails.                                                               *)
LEMMA ReadFaultsKeeps == IInv /\ ReadFaults => IInv'
<1> SUFFICES ASSUME IInv, ReadFaults PROVE IInv'
  OBVIOUS
<1> USE DEF IInv, Types
<1>0. /\ rpc \in {"copy1", "copy2"} /\ rpc' = "idle" /\ rlen' = 0
      /\ racc'.block = 0 /\ racc'.from = 0 /\ racc'.n = 0
      /\ UNCHANGED <<data, size, pread, pwrite, len, written, initialised, mpc, mem, wpc, wlen, wacc, odd>>
  BY DEF ReadFaults, Nothing, Stretch, ring, memory, writer
<1>2. RingTypes'
  BY <1>0 DEF RingTypes
<1>3. StepTypes'
  BY <1>0 DEF StepTypes, Oddities
<1>4. AccessTypes'
  BY <1>0 DEF RingTypes, AccessTypes
<1>5. Pointers'
  BY <1>0 DEF RingTypes, Pointers, Free
<1>6. Splits'
  BY <1>0 DEF RingTypes, AccessTypes, Pointers, Splits, Free
<1>7. Bounded'
  BY <1>0 DEF RingTypes, StepTypes, AccessTypes, Pointers, Splits, Bounded, Free
<1>8. Owned'
  BY <1>0 DEF RingTypes, Owned, Allocated
<1>9. Filled'
  BY <1>0 DEF RingTypes, StepTypes, AccessTypes, Pointers, Splits, Bounded, Owned, Allocated,
     Filled, Used, Writing, Reading, Free, Avail
<1>10. Writing'
  BY <1>0 DEF RingTypes, StepTypes, AccessTypes, Pointers, Splits, Bounded, Owned, Filled,
     Writing, Reading, Free, Avail
<1>11. Reading'
  BY <1>0 DEF RingTypes, StepTypes, AccessTypes, Pointers, Splits, Bounded, Owned, Filled,
     Writing, Reading, Free, Avail
<1> QED
  BY <1>2, <1>3, <1>4, <1>5, <1>6, <1>7, <1>8, <1>9, <1>10, <1>11

(* The callback finds no room,                                             *)
LEMMA OverflowKeeps == IInv /\ Overflow => IInv'
<1> SUFFICES ASSUME IInv, Overflow PROVE IInv'
  OBVIOUS
<1> USE DEF IInv, Types
<1>2. RingTypes'
  BY DEF Overflow, memory, reader, writer, RingTypes
<1>3. StepTypes'
  BY DEF Overflow, memory, reader, writer, StepTypes, Oddities
<1>4. AccessTypes'
  BY DEF Overflow, memory, reader, writer, RingTypes, AccessTypes
<1>5. Pointers'
  BY DEF Overflow, memory, reader, writer, RingTypes, Pointers, Free
<1>6. Splits'
  BY DEF Overflow, memory, reader, writer, RingTypes, AccessTypes, Pointers, Splits, Free
<1>7. Bounded'
  BY DEF Overflow, memory, reader, writer, RingTypes, StepTypes, AccessTypes, Pointers,
     Splits, Bounded, Free
<1>8. Owned'
  BY DEF Overflow, memory, reader, writer, RingTypes, Owned, Allocated
<1>9. Filled'
  BY DEF Overflow, memory, reader, writer, RingTypes, StepTypes, AccessTypes, Pointers,
     Splits, Bounded, Owned, Allocated, Filled, Used, Writing, Reading, Free, Avail
<1>10. Writing'
  BY DEF Overflow, memory, reader, writer, RingTypes, StepTypes, AccessTypes, Pointers,
     Splits, Bounded, Owned, Filled, Writing, Reading, Free, Avail
<1>11. Reading'
  BY DEF Overflow, memory, reader, writer, RingTypes, StepTypes, AccessTypes, Pointers,
     Splits, Bounded, Owned, Filled, Writing, Reading, Free, Avail
<1> QED
  BY <1>2, <1>3, <1>4, <1>5, <1>6, <1>7, <1>8, <1>9, <1>10, <1>11

(* or begins to write,                                                     *)
LEMMA WriteKeeps == IInv /\ Write => IInv'
<1> SUFFICES ASSUME IInv, Write PROVE IInv'
  OBVIOUS
<1> USE DEF IInv, Types
<1>0. PICK n \in Int :
        /\ wpc = "idle" /\ data # 0 /\ n > 0 /\ n <= Free /\ wlen' = n
        /\ wacc'.block = data /\ wacc'.from = pwrite
        /\ \/ wpc' = "copy1" /\ pwrite + n > size /\ size > pwrite /\ wacc'.n = size - pwrite
           \/ wpc' = "copy2" /\ (pwrite + n <= size \/ size <= pwrite) /\ wacc'.n = n
        /\ UNCHANGED <<data, size, pread, pwrite, len, written, initialised, mpc, mem, rpc, rlen, racc, odd>>
  <2>1. Free \in Int
    BY DEF Free, RingTypes
  <2>2. PICK n \in 1 .. Least(MaxPacket, Free) :
          /\ wlen' = n
          /\ IF Split(pwrite, n) > 0 THEN wacc' = Stretch(data, pwrite, Split(pwrite, n)) /\ wpc' = "copy1"
                                     ELSE wacc' = Stretch(data, pwrite, n) /\ wpc' = "copy2"
    BY DEF Write
  <2>3. n \in Int /\ n > 0 /\ n <= Free
    BY <2>1, Constants DEF Least
  <2>4. CASE Split(pwrite, n) > 0
    <3>1. pwrite + n > size /\ size > pwrite /\ Split(pwrite, n) = size - pwrite
      BY <2>3, <2>4 DEF Split, RingTypes
    <3> QED
      BY <2>2, <2>3, <2>4, <3>1 DEF Write, Stretch, ring, memory, reader
  <2>5. CASE ~(Split(pwrite, n) > 0)
    <3>1. pwrite + n <= size \/ size <= pwrite
      BY <2>3, <2>5 DEF Split, RingTypes
    <3> QED
      BY <2>2, <2>3, <2>5, <3>1 DEF Write, Stretch, ring, memory, reader
  <2> QED
    BY <2>4, <2>5
<1>2. RingTypes'
  BY <1>0 DEF RingTypes
<1>3. StepTypes'
  BY <1>0 DEF StepTypes, Oddities
<1>4. AccessTypes'
  BY <1>0 DEF RingTypes, AccessTypes
<1>5. Pointers'
  BY <1>0 DEF RingTypes, Pointers, Free
<1>6. Splits'
  BY <1>0 DEF RingTypes, AccessTypes, Pointers, Splits, Free
<1>7. Bounded'
  BY <1>0 DEF RingTypes, StepTypes, AccessTypes, Pointers, Splits, Bounded, Free
<1>8. Owned'
  BY <1>0 DEF RingTypes, Owned, Allocated
<1>9. Filled'
  BY <1>0 DEF RingTypes, StepTypes, AccessTypes, Pointers, Splits, Bounded, Owned, Allocated,
     Filled, Used, Writing, Reading, Free, Avail
<1>10. Writing'
  BY <1>0 DEF RingTypes, StepTypes, AccessTypes, Pointers, Splits, Bounded, Owned, Filled,
     Writing, Reading, Free, Avail
<1>11. Reading'
  BY <1>0 DEF RingTypes, StepTypes, AccessTypes, Pointers, Splits, Bounded, Owned, Filled,
     Writing, Reading, Free, Avail
<1> QED
  BY <1>2, <1>3, <1>4, <1>5, <1>6, <1>7, <1>8, <1>9, <1>10, <1>11

(* goes on at the beginning of the memory,                                 *)
LEMMA WriteRestKeeps == IInv /\ WriteRest => IInv'
<1> SUFFICES ASSUME IInv, WriteRest PROVE IInv'
  OBVIOUS
<1> USE DEF IInv, Types
<1>0. /\ wpc = "copy1" /\ wpc' = "copy2" /\ pwrite' = 0 /\ wlen' = wlen - wacc.n
      /\ wacc'.block = data /\ wacc'.from = 0 /\ wacc'.n = wlen - wacc.n
      /\ written' \in [Blocks -> SUBSET Int]
      /\ \A b \in Blocks : written[b] \subseteq written'[b]
      /\ \A b \in Blocks : b = wacc.block =>
            \A p \in Int : wacc.from <= p /\ p < wacc.from + wacc.n => p \in written'[b]
      /\ UNCHANGED <<data, size, pread, len, initialised, mpc, mem, rpc, rlen, racc, odd>>
  <2>1. /\ written' \in [Blocks -> SUBSET Int]
        /\ \A b \in Blocks : written[b] \subseteq written'[b]
        /\ \A b \in Blocks : b = wacc.block =>
              \A p \in Int : wacc.from <= p /\ p < wacc.from + wacc.n => p \in written'[b]
    BY CopiedIs DEF WriteRest
  <2> QED
    BY <2>1 DEF WriteRest, Nothing, Stretch, reader
<1>2. RingTypes'
  BY <1>0 DEF RingTypes
<1>3. StepTypes'
  BY <1>0 DEF StepTypes, Oddities
<1>4. AccessTypes'
  BY <1>0 DEF RingTypes, AccessTypes
<1>5. Pointers'
  BY <1>0 DEF RingTypes, Pointers, Free
<1>6. Splits'
  BY <1>0 DEF RingTypes, AccessTypes, Pointers, Splits, Free
<1>7. Bounded'
  BY <1>0 DEF RingTypes, StepTypes, AccessTypes, Pointers, Splits, Bounded, Free
<1>8. Owned'
  BY <1>0 DEF RingTypes, Owned, Allocated
<1>9. Filled'
  BY <1>0 DEF RingTypes, StepTypes, AccessTypes, Pointers, Splits, Bounded, Owned, Allocated,
     Filled, Used, Writing, Reading, Free, Avail
<1>10. Writing'
  BY <1>0 DEF RingTypes, StepTypes, AccessTypes, Pointers, Splits, Bounded, Owned, Filled,
     Writing, Reading, Free, Avail
<1>11. Reading'
  BY <1>0 DEF RingTypes, StepTypes, AccessTypes, Pointers, Splits, Bounded, Owned, Filled,
     Writing, Reading, Free, Avail
<1> QED
  BY <1>2, <1>3, <1>4, <1>5, <1>6, <1>7, <1>8, <1>9, <1>10, <1>11

(* and moves the write pointer.                                            *)
LEMMA WriteDoneKeeps == IInv /\ WriteDone => IInv'
<1> SUFFICES ASSUME IInv, WriteDone PROVE IInv'
  OBVIOUS
<1> USE DEF IInv, Types
<1>0. /\ wpc = "copy2" /\ wpc' = "idle" /\ pwrite' = (pwrite + wlen) % size /\ wlen' = 0
      /\ wacc'.block = 0 /\ wacc'.from = 0 /\ wacc'.n = 0
      /\ written' \in [Blocks -> SUBSET Int]
      /\ \A b \in Blocks : written[b] \subseteq written'[b]
      /\ \A b \in Blocks : b = wacc.block =>
            \A p \in Int : wacc.from <= p /\ p < wacc.from + wacc.n => p \in written'[b]
      /\ UNCHANGED <<data, size, pread, len, initialised, mpc, mem, rpc, rlen, racc, odd>>
  <2>1. /\ written' \in [Blocks -> SUBSET Int]
        /\ \A b \in Blocks : written[b] \subseteq written'[b]
        /\ \A b \in Blocks : b = wacc.block =>
              \A p \in Int : wacc.from <= p /\ p < wacc.from + wacc.n => p \in written'[b]
    BY CopiedIs DEF WriteDone
  <2> QED
    BY <2>1 DEF WriteDone, Nothing, Stretch, reader
<1>1. /\ size > 0 /\ pwrite' \in Nat /\ pwrite' < size
      /\ 0 <= pwrite + wlen /\ pwrite + wlen < size => pwrite' = pwrite + wlen
      /\ pwrite + wlen = size => pwrite' = 0
  <2>1. size \in Nat \ {0} /\ pwrite + wlen \in Int
    BY <1>0 DEF RingTypes, AccessTypes, Pointers
  <2> QED
    BY <1>0, <2>1, ModRange
<1>2. RingTypes'
  BY <1>0, <1>1 DEF RingTypes
<1>3. StepTypes'
  BY <1>0, <1>1 DEF StepTypes, Oddities
<1>4. AccessTypes'
  BY <1>0, <1>1 DEF RingTypes, AccessTypes
<1>5. Pointers'
  BY <1>0, <1>1 DEF RingTypes, Pointers, Free
<1>6. Splits'
  BY <1>0, <1>1 DEF RingTypes, AccessTypes, Pointers, Splits, Free
<1>7. Bounded'
  BY <1>0, <1>1 DEF RingTypes, StepTypes, AccessTypes, Pointers, Splits, Bounded, Free
<1>8. Owned'
  BY <1>0, <1>1 DEF RingTypes, Owned, Allocated
<1>9. Filled'
  BY <1>0, <1>1 DEF RingTypes, StepTypes, AccessTypes, Pointers, Splits, Bounded, Owned,
     Allocated, Filled, Used, Writing, Reading, Free, Avail
<1>10. Writing'
  BY <1>0, <1>1 DEF RingTypes, StepTypes, AccessTypes, Pointers, Splits, Bounded, Owned,
     Filled, Writing, Reading, Free, Avail
<1>11. Reading'
  BY <1>0, <1>1 DEF RingTypes, StepTypes, AccessTypes, Pointers, Splits, Bounded, Owned,
     Filled, Writing, Reading, Free, Avail
<1> QED
  BY <1>2, <1>3, <1>4, <1>5, <1>6, <1>7, <1>8, <1>9, <1>10, <1>11

---------------------------------------------------------------------------
(* Every step keeps the invariant.                                         *)
LEMMA NextIInv == IInv /\ [Next]_vars => IInv'
<1> SUFFICES ASSUME IInv, [Next]_vars PROVE IInv'
  OBVIOUS
<1>1. CASE UNCHANGED vars
  <2>1. /\ UNCHANGED <<data, size, pread, pwrite, len, written, initialised, mpc, mem>>
        /\ UNCHANGED <<rpc, rlen, racc, wpc, wlen, wacc, odd>>
    BY <1>1 DEF vars, ring, memory, reader, writer
  <2>2. Types' /\ Pointers' /\ Splits'
    BY <2>1 DEF IInv, Types, RingTypes, StepTypes, AccessTypes, Pointers, Splits
  <2>3. Bounded' /\ Owned'
    BY <2>1 DEF IInv, Bounded, Owned, Allocated
  <2>4. Filled' /\ Writing' /\ Reading'
    BY <2>1 DEF IInv, Filled, Used, Writing, Free, Reading, Avail
  <2> QED
    BY <2>2, <2>3, <2>4 DEF IInv
<1> QED
  BY <1>1, InitRingKeeps, OpenReaderKeeps, OpenDataKeeps, OpenSizeKeeps, CloseReaderKeeps, OpenWriterKeeps,
     CloseWriterKeeps, ResizeKeeps, ResizeFreesKeeps, ReadCallKeeps, ReadLeavesKeeps, ReadWakesKeeps,
     ReadSplitKeeps, ReadSplitDoneKeeps, ReadRestKeeps, ReadRestDoneKeeps, ReadFaultsKeeps, OverflowKeeps,
     WriteKeeps, WriteRestKeeps, WriteDoneKeeps DEF Next

(* The invariant holds in every reachable state.                           *)
LEMMA Invariant == Spec => []IInv
<1> QED
  BY InitIInv, NextIInv, PTL DEF Spec

(* dvb_dvr_read copies only bytes that were written into memory that is    *)
(* still allocated, although it takes no lock, if DMX_SET_BUFFER_SIZE is   *)
(* not called during a read or without a reader, and the callback writes   *)
(* inside the memory of the ring, unless a reader opened the device before *)
(* dvb_dmxdev_init was through or after a ring that was larger than his.   *)
THEOREM RingAccessesAreSound == Spec => []AccessesAreSound
<1>1. IInv => TypeOK
  BY DEF IInv, Types, RingTypes, StepTypes, Pointers, Splits, TypeOK
<1>2. ASSUME IInv, odd = {}, rpc \in {"copy1", "copy2"}, racc.n > 0
      PROVE  racc.block # 0 /\ Positions(racc) \subseteq written[racc.block]
  <2>1. data # 0 /\ racc.block = data /\ racc.from = pread /\ racc.n \in Int /\ pread \in Nat
    BY <1>2 DEF IInv, Types, RingTypes, StepTypes, AccessTypes, Owned, Reading
  <2>2. \A p \in Int : pread <= p /\ p < pread + racc.n => Used(p)
    BY <1>2, <2>1
       DEF IInv, Types, RingTypes, AccessTypes, Pointers, Bounded, Reading, Avail, Used
  <2>3. \A p \in Positions(racc) : p \in Int /\ pread <= p /\ p < pread + racc.n
    BY <2>1 DEF Positions
  <2>4. \A p \in Int : Used(p) => p \in written[data]
    BY <1>2, <2>1 DEF IInv, Filled
  <2> QED
    BY <2>1, <2>2, <2>3, <2>4
<1>3. ASSUME IInv, odd \cap {"early", "grown"} = {}, wpc \in {"copy1", "copy2"}
      PROVE  wacc.from + wacc.n <= len[wacc.block]
  BY <1>3 DEF IInv, Bounded
<1>4. IInv => AccessesAreSound
  BY <1>1, <1>2, <1>3 DEF AccessesAreSound
<1> QED
  BY <1>4, Invariant, PTL

(* Between the calls that hold dmxdev->mutex the ring has memory exactly   *)
(* while there is a reader, and no other block is allocated: dvb_dvr_open, *)
(* dvb_dvr_release and dvb_dvr_set_buffer_size leave nothing behind, if no *)
(* file for writing was given a ring.                                      *)
THEOREM NothingLeaks == Spec => []RingHasReader
<1>1. IInv => RingHasReader
  BY DEF IInv, Owned, Allocated, RingHasReader
<1> QED
  BY <1>1, Invariant, PTL

---------------------------------------------------------------------------
(* The end of the demux (module DmxdevExit): no release frees the device   *)
(* of an open file, for every number of files.                             *)

(* The files that count as users of a device, and the ones on their way.   *)
Held(d) == {f \in Files : Device(f) = d /\ fpc[f] \in {"open", "reading"}}
Opening(f) == fpc[f] \in {"opening", "storing"}

PastDvr == {"unregister demux", "unregister dvr", "done"}
PastDemux == {"dvr", "dvr asleep"} \cup PastDvr

ExitTypes ==
    /\ exit \in BOOLEAN /\ raced \in BOOLEAN /\ freed \subseteq Devices
    /\ word \in [Files -> BOOLEAN]
    /\ fpc \in [Files -> {"closed", "opening", "storing", "open", "reading", "wakes"}]
    /\ relpc \in {"idle", "demux", "demux asleep"} \cup PastDemux
    /\ mutex \in Files \cup {NoFile}

(* dvbdev->users starts at 1 and counts the open files.                    *)
Counted == users = [d \in Devices |-> Cardinality(Held(d)) + 1]

(* dmxdev->mutex belongs to the open that is under way.                    *)
Holder == \A f \in Files : Opening(f) <=> mutex = f

(* Unless an open races with it, the release that is past a device's wait  *)
(* has no file of that device left and finds none coming.                  *)
Waited ==
    ~raced /\ relpc # "idle" =>
      /\ mutex = NoFile
      /\ relpc \in PastDemux => Held("demux") = {}
      /\ relpc \in PastDvr => Held("dvr") = {}

FreedLate ==
    /\ "demux" \in freed => relpc \in {"unregister dvr", "done"}
    /\ "dvr" \in freed => relpc = "done"

ExitIInv == ExitTypes /\ Counted /\ Holder /\ Waited /\ FreedLate

(* The users of a device are finitely many, no more than there are files.  *)
LEMMA HeldFinite ==
    ASSUME NEW d
    PROVE  /\ IsFiniteSet(Held(d))
           /\ Cardinality(Held(d)) \in Nat
           /\ Cardinality(Held(d)) <= Cardinality(Files)
           /\ Cardinality(Held(d)) = 0 <=> Held(d) = {}
           /\ Cardinality(Files) \in Nat
<1>1. Held(d) \in SUBSET Files
  BY DEF Held
<1>2. IsFiniteSet(Held(d)) /\ Cardinality(Held(d)) <= Cardinality(Files)
  BY <1>1, FS_Subset, ExitAssumption
<1> QED
  BY <1>2, FS_CardinalityType, FS_EmptySet, ExitAssumption

(* The end of an open makes its file a user of its device.                 *)
LEMMA OpenAdds ==
    ASSUME ExitTypes, NEW f \in Files, fpc[f] = "storing",
           fpc' = [fpc EXCEPT ![f] = "open"], NEW d \in Devices
    PROVE  /\ f \notin Held(d)
           /\ Held(d)' = IF d = Device(f) THEN Held(d) \cup {f} ELSE Held(d)
BY DEF Held, ExitTypes, Device

(* A close removes it.                                                     *)
LEMMA CloseRemoves ==
    ASSUME ExitTypes, NEW f \in Files, fpc[f] = "open",
           fpc' \in [Files -> {"closed", "opening", "storing", "open", "reading", "wakes"}],
           fpc'[f] \in {"closed", "wakes"},
           \A g \in Files \ {f} : fpc'[g] = fpc[g], NEW d \in Devices
    PROVE  /\ d = Device(f) => f \in Held(d)
           /\ Held(d)' = IF d = Device(f) THEN Held(d) \ {f} ELSE Held(d)
BY DEF Held, ExitTypes, Device

(* Every other step of a file leaves the users alone.                      *)
LEMMA HeldSame ==
    ASSUME ExitTypes,
           \A f \in Files : fpc[f] \in {"open", "reading"} <=> fpc'[f] \in {"open", "reading"}
    PROVE  \A d \in Devices : Held(d)' = Held(d)
BY DEF Held, Device

(* ExitInit establishes the invariant.                                     *)
LEMMA ExitInitIInv == ExitInit => ExitIInv
<1> SUFFICES ASSUME ExitInit PROVE ExitIInv
  OBVIOUS
<1>1. ExitTypes /\ Holder /\ Waited /\ FreedLate
  BY ExitAssumption DEF ExitInit, ExitTypes, Holder, Opening, Waited, FreedLate
<1>2. \A d \in Devices : Held(d) = {}
  BY DEF ExitInit, Held
<1>3. Counted
  BY <1>2, FS_EmptySet DEF ExitInit, Counted
<1> QED
  BY <1>1, <1>3 DEF ExitIInv

(* The invariant holds across every step of open, read and close and of    *)
(* dvb_dmxdev_release.                                                     *)
LEMMA ExitNextIInv == ExitIInv /\ [ExitNext]_exitvars => ExitIInv'
<1> SUFFICES ASSUME ExitIInv, [ExitNext]_exitvars PROVE ExitIInv'
  OBVIOUS
<1> USE DEF ExitIInv
<1>1. ASSUME NEW f \in Files, OpenBegins(f) PROVE ExitIInv'
  <2>1. ExitTypes'
    BY <1>1 DEF OpenBegins, ExitTypes
  <2>2. \A d \in Devices : Held(d)' = Held(d)
    BY <1>1, HeldSame DEF OpenBegins, ExitTypes
  <2>3. Counted'
    BY <1>1, <2>2 DEF OpenBegins, Counted
  <2>4. Holder'
    BY <1>1, ExitAssumption DEF OpenBegins, Holder, Opening, ExitTypes
  <2>5. Waited'
    BY <1>1, <2>2 DEF OpenBegins, Waited
  <2>6. FreedLate'
    BY <1>1 DEF OpenBegins, FreedLate
  <2> QED
    BY <2>1, <2>3, <2>4, <2>5, <2>6
<1>2. ASSUME NEW f \in Files, OpenReads(f) PROVE ExitIInv'
  <2>1. ExitTypes'
    BY <1>2 DEF OpenReads, ExitTypes
  <2>2. \A d \in Devices : Held(d)' = Held(d)
    BY <1>2, HeldSame DEF OpenReads, ExitTypes
  <2>3. Counted'
    BY <1>2, <2>2 DEF OpenReads, Counted
  <2>4. Holder'
    BY <1>2 DEF OpenReads, Holder, Opening, ExitTypes
  <2>5. Waited'
    BY <1>2, <2>2 DEF OpenReads, Waited, Devices
  <2>6. FreedLate'
    BY <1>2 DEF OpenReads, FreedLate
  <2> QED
    BY <2>1, <2>3, <2>4, <2>5, <2>6
<1>3. ASSUME NEW f \in Files, OpenEnds(f) PROVE ExitIInv'
  <2>1. ExitTypes'
    BY <1>3 DEF OpenEnds, ExitTypes
  <2>2. \A d \in Devices :
          /\ f \notin Held(d)
          /\ Held(d)' = IF d = Device(f) THEN Held(d) \cup {f} ELSE Held(d)
    BY <1>3, OpenAdds DEF OpenEnds
  <2>3. Counted'
    <3>1. Device(f) \in Devices
      BY DEF Device, Devices
    <3>2. \A d \in Devices : Cardinality(Held(d))' =
            IF d = Device(f) THEN Cardinality(Held(d)) + 1 ELSE Cardinality(Held(d))
      BY <2>2, HeldFinite, FS_AddElement
    <3>3. users' = [users EXCEPT ![Device(f)] = users[Device(f)] + 1]
      BY <1>3 DEF OpenEnds
    <3> QED
      BY <3>1, <3>2, <3>3, HeldFinite DEF Counted
  <2>4. mutex = f /\ mutex' = NoFile
    BY <1>3 DEF OpenEnds, Holder, Opening
  <2>5. Holder'
    <3>1. \A g \in Files : fpc'[g] = (IF g = f THEN "open" ELSE fpc[g])
      BY <1>3 DEF OpenEnds, ExitTypes
    <3>2. NoFile \notin Files
      BY ExitAssumption
    <3> QED
      BY <2>4, <3>1, <3>2 DEF Holder, Opening
  <2>6. Waited'
    BY <1>3, <2>4, ExitAssumption DEF OpenEnds, Waited
  <2>7. FreedLate'
    BY <1>3 DEF OpenEnds, FreedLate
  <2> QED
    BY <2>1, <2>3, <2>5, <2>6, <2>7
<1>4. ASSUME NEW f \in Files, ReadBlocks(f) \/ ReadReturns(f) PROVE ExitIInv'
  <2>1. ExitTypes'
    BY <1>4 DEF ReadBlocks, ReadReturns, ExitTypes
  <2>2. \A d \in Devices : Held(d)' = Held(d)
    BY <1>4, HeldSame DEF ReadBlocks, ReadReturns, ExitTypes
  <2>3. Counted'
    BY <1>4, <2>2 DEF ReadBlocks, ReadReturns, Counted
  <2>4. Holder'
    BY <1>4 DEF ReadBlocks, ReadReturns, Holder, Opening, ExitTypes
  <2>5. Waited'
    BY <1>4, <2>2 DEF ReadBlocks, ReadReturns, Waited, Devices
  <2>6. FreedLate'
    BY <1>4 DEF ReadBlocks, ReadReturns, FreedLate
  <2> QED
    BY <2>1, <2>3, <2>4, <2>5, <2>6
<1>5. ASSUME NEW f \in Files, Close(f) PROVE ExitIInv'
  <2>1. ExitTypes'
    BY <1>5 DEF Close, ExitTypes
  <2>2. \A d \in Devices :
          /\ d = Device(f) => f \in Held(d)
          /\ Held(d)' = IF d = Device(f) THEN Held(d) \ {f} ELSE Held(d)
    <3>1. /\ fpc'[f] \in {"closed", "wakes"}
          /\ \A g \in Files \ {f} : fpc'[g] = fpc[g]
      BY <1>5 DEF Close, ExitTypes
    <3> QED
      BY <1>5, <2>1, <3>1, CloseRemoves DEF Close, ExitTypes
  <2>3. Counted'
    <3>1. Device(f) \in Devices
      BY DEF Device, Devices
    <3>2. \A d \in Devices : Cardinality(Held(d))' =
            IF d = Device(f) THEN Cardinality(Held(d)) - 1 ELSE Cardinality(Held(d))
      BY <2>2, HeldFinite, FS_RemoveElement
    <3>3. users' = [users EXCEPT ![Device(f)] = users[Device(f)] - 1]
      BY <1>5 DEF Close
    <3> QED
      BY <3>1, <3>2, <3>3, HeldFinite DEF Counted
  <2>4. Holder'
    BY <1>5 DEF Close, Holder, Opening, ExitTypes
  <2>5. Waited'
    BY <1>5, <2>2 DEF Close, Waited, Devices
  <2>6. FreedLate'
    BY <1>5 DEF Close, FreedLate
  <2> QED
    BY <2>1, <2>3, <2>4, <2>5, <2>6
<1>6. ASSUME NEW f \in Files, WakeUp(f) PROVE ExitIInv'
  <2>0. /\ relpc' \in {relpc, "demux", "dvr"}
        /\ relpc' = "demux" /\ relpc # "demux" => relpc = "demux asleep"
        /\ relpc' = "dvr" /\ relpc # "dvr" => relpc = "dvr asleep"
    BY <1>6 DEF WakeUp
  <2>1. ExitTypes'
    BY <1>6, <2>0 DEF WakeUp, ExitTypes, PastDemux
  <2>2. \A d \in Devices : Held(d)' = Held(d)
    BY <1>6, HeldSame DEF WakeUp, ExitTypes
  <2>3. Counted'
    BY <1>6, <2>2 DEF WakeUp, Counted
  <2>4. Holder'
    BY <1>6 DEF WakeUp, Holder, Opening, ExitTypes
  <2>5. Waited'
    BY <1>6, <2>0, <2>2 DEF WakeUp, Waited, Devices, PastDemux, PastDvr
  <2>6. FreedLate'
    BY <1>6, <2>0 DEF WakeUp, FreedLate
  <2> QED
    BY <2>1, <2>3, <2>4, <2>5, <2>6
<1>7. ASSUME ReleaseBegins \/ Release PROVE ExitIInv'
  <2>1. ExitTypes'
    BY <1>7 DEF ReleaseBegins, Release, WaitForDemux, WaitForDvr, UnregisterDemux,
                UnregisterDvr, Unregister, ExitTypes, PastDemux, PastDvr, Devices
  <2>2. UNCHANGED <<fpc, users, mutex>>
    BY <1>7 DEF ReleaseBegins, Release, WaitForDemux, WaitForDvr, UnregisterDemux,
                UnregisterDvr, Unregister
  <2>3. \A d \in Devices : Held(d)' = Held(d)
    BY <2>2, HeldSame
  <2>4. Counted' /\ Holder'
    BY <2>2, <2>3 DEF Counted, Holder, Opening
  <2>5. \A d \in Devices : users[d] = 1 <=> Held(d) = {}
    BY HeldFinite DEF Counted
  <2>6. Waited'
    BY <1>7, <2>2, <2>3, <2>5
       DEF ReleaseBegins, Release, WaitForDemux, WaitForDvr, UnregisterDemux,
           UnregisterDvr, Unregister, Waited, PastDemux, PastDvr, Devices
  <2>7. FreedLate'
    BY <1>7 DEF ReleaseBegins, Release, WaitForDemux, WaitForDvr, UnregisterDemux,
                UnregisterDvr, Unregister, FreedLate
  <2> QED
    BY <2>1, <2>4, <2>6, <2>7
<1>8. CASE UNCHANGED exitvars
  <2>1. \A d \in Devices : Held(d)' = Held(d)
    BY <1>8 DEF exitvars, Held
  <2> QED
    BY <1>8, <2>1 DEF exitvars, ExitTypes, Counted, Holder, Opening, Waited, FreedLate, Devices
<1> QED
  BY <1>1, <1>2, <1>3, <1>4, <1>5, <1>6, <1>7, <1>8 DEF ExitNext, OpenSteps, CloseSteps

(* dvb_dmxdev_release never frees the device of a file that is open or     *)
(* being read, unless an open was under way when it began or came later;   *)
(* dvbdev->users never falls below 1 nor rises above the files there are.  *)
THEOREM DeviceOutlivesFiles == ExitSpec => []OpenKeepsDevice
<1>1. ExitIInv => OpenKeepsDevice
  <2> SUFFICES ASSUME ExitIInv PROVE OpenKeepsDevice
    OBVIOUS
  <2>1. users \in [Devices -> 1 .. Cardinality(Files) + 1]
    BY HeldFinite DEF ExitIInv, Counted
  <2>2. mutex # NoFile <=> \E f \in Files : fpc[f] \in {"opening", "storing"}
    BY ExitAssumption DEF ExitIInv, ExitTypes, Holder, Opening
  <2>3. ASSUME ~raced, NEW f \in Files, fpc[f] \in {"open", "reading"}, Device(f) \in freed
        PROVE  FALSE
    BY <2>3 DEF ExitIInv, Waited, FreedLate, Held, Device, PastDemux, PastDvr
  <2> QED
    BY <2>1, <2>2, <2>3 DEF OpenKeepsDevice, ExitTypeOK, ExitIInv, ExitTypes
<1> QED
  BY <1>1, ExitInitIInv, ExitNextIInv, PTL DEF ExitSpec
=============================================================================
