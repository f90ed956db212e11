------------------------- MODULE Tbsecp3Dma_proofs -------------------------
(***************************************************************************)
(* The DMA channel hands over whole buffers in their order, for the ring   *)
(* sizes of BuffersAssumption and a stream of any length.  The tasklet     *)
(* knows places in the ring, the properties speak of items: the invariant  *)
(* ties place and item together (Placed, Ahead) and counts the triggers    *)
(* that are older than the stream (Triggers).                              *)
(***************************************************************************)
EXTENDS Tbsecp3Dma, TLAPS

TaskType == [at : {"idle", "sync", "filter"}, read : Buffers, next : Buffers]

(* The types of all variables                                              *)
Types ==
    /\ dma \in [offset : {0, 1}, cnt : 0 .. Pre, next_buffer : Buffers]
    /\ on \in BOOLEAN
    /\ w \in 0 .. MaxItems /\ mem \in [Buffers -> PART .. MaxItems]
    /\ phase \in {0, 1}
    /\ irq \in {"idle", "clear", "schedule"} /\ flag \in BOOLEAN /\ sched \in BOOLEAN
    /\ task \in TaskType
    /\ extra \in Int /\ out \in [prev : Int, item : Int, tail : Int]
    /\ start \in Nat /\ pos \in Int /\ leftover \in Nat /\ late \in BOOLEAN

(* The stream since enable is in the ring, as far as it fits.              *)
Stored ==
    /\ start <= w /\ (on => start > 0) /\ (start = 0 => w = 0)
    /\ \A i \in 1 .. w : i >= start /\ w - N < i => mem[i % N] = i

(* Before the first item is full, only old triggers can have come.         *)
Triggers ==
    w = start => dma.cnt + Count(sched) + Count(irq # "idle") + Count(flag /\ irq # "clear")
                   <= leftover

(* The tasklet's position is that of the item to be read next, which has   *)
(* been filled since enable and not been overwritten.                      *)
Placed ==
    Undisturbed /\ dma.cnt > 0 =>
        /\ pos < w
        /\ dma.cnt = Pre => start <= pos /\ w - N < pos
        /\ task.at = "idle" => dma.next_buffer = pos % N

(* In its loop, the tasklet is on its way to a place where the item after  *)
(* the one it reads is full, too.                                          *)
Ahead ==
    task.at # "idle" =>
        /\ dma.cnt = Pre
        /\ Undisturbed =>
             /\ task.read = pos % N
             /\ \E lim \in Int : /\ pos < lim /\ lim < w /\ lim - pos < N
                                 /\ task.next = lim % N

(* The rest of the last packet is copied before it is needed.              *)
Copied ==
    Undisturbed /\ task.at = "filter" /\ task.read = N - 1 /\ dma.offset # 0 => extra = pos + 1

(* What was handed over last is the item before the next one.              *)
Given ==
    Undisturbed =>
        \/ out.item = NONE /\ out.prev = NONE
        \/ /\ dma.cnt = Pre /\ out.item = pos - 1 /\ out.item >= start
           /\ out.tail \in {NONE, out.item + 1}
           /\ out.prev # NONE => out.item = out.prev + 1

Inv == Types /\ Stored /\ Triggers /\ Placed /\ Ahead /\ Copied /\ Given

---------------------------------------------------------------------------
(* Places in a ring of 4, 8 or 16 buffers                                  *)

(* Items less than a round apart have different places.                    *)
LEMMA PlaceIsUnique ==
    ASSUME NEW a \in Int, NEW b \in Int, a % N = b % N, a >= b, a - b < N
    PROVE  a = b
<1>1. CASE N = 4 BY <1>1
<1>2. CASE N = 8 BY <1>2
<1>3. CASE N = 16 BY <1>3
<1> QED BY <1>1, <1>2, <1>3, BuffersAssumption

(* The place after a place is that of the next item.                       *)
LEMMA NextPlace ==
    ASSUME NEW a \in Int
    PROVE  /\ a % N \in Buffers
           /\ (a + 1) % N = ((a % N) + 1) % N
           /\ (a % N = N - 1) => (a + 1) % N = 0
           /\ (a % N # N - 1) => (a + 1) % N = (a % N) + 1
<1>1. CASE N = 4 BY <1>1 DEF Buffers
<1>2. CASE N = 8 BY <1>2 DEF Buffers
<1>3. CASE N = 16 BY <1>3 DEF Buffers
<1> QED BY <1>1, <1>2, <1>3, BuffersAssumption

(* The tasklet's limit is the place of the item before the one being       *)
(* written.                                                                *)
LEMMA LimitPlace ==
    ASSUME w \in Int
    PROVE  Limit = (w - 1) % N /\ Limit \in Buffers
<1>1. CASE N = 4 BY <1>1, BuffersAssumption DEF Limit, DMA_STAT, Buffers
<1>2. CASE N = 8 BY <1>2, BuffersAssumption DEF Limit, DMA_STAT, Buffers
<1>3. CASE N = 16 BY <1>3, BuffersAssumption DEF Limit, DMA_STAT, Buffers
<1> QED BY <1>1, <1>2, <1>3, BuffersAssumption

(* A full item of the stream is found at its place.                        *)
LEMMA Found ==
    ASSUME Types, Stored, NEW i \in Int, start <= i, w - N < i, i < w
    PROVE  Content(i % N) = i
<1>1. i \in 1 .. w BY DEF Types, Stored
<1> QED BY <1>1 DEF Stored, Content, Types

LEMMA IdleType ==
    /\ 0 \in Buffers /\ Idle.at = "idle"
    /\ Idle \in TaskType
<1>1. 0 \in Buffers BY BuffersAssumption DEF Buffers
<1> QED BY <1>1 DEF Idle, TaskType

---------------------------------------------------------------------------
LEMMA InitInv == Init => Inv
<1> SUFFICES ASSUME Init PROVE Inv OBVIOUS
<1> USE BuffersAssumption DEF Init
<1>1. Types
  <2>1. dma \in [offset : {0, 1}, cnt : 0 .. Pre, next_buffer : Buffers] BY IdleType
  <2>2. mem \in [Buffers -> PART .. MaxItems] BY DEF PART
  <2>3. out \in [prev : Int, item : Int, tail : Int] BY DEF NoOut, NONE
  <2>4. task \in TaskType /\ extra \in Int BY IdleType DEF PART
  <2>5. on \in BOOLEAN /\ flag \in BOOLEAN /\ sched \in BOOLEAN /\ late \in BOOLEAN
        OBVIOUS
  <2>6. /\ w \in 0 .. MaxItems /\ phase \in {0, 1} /\ irq \in {"idle", "clear", "schedule"}
        /\ start \in Nat /\ pos \in Int /\ leftover \in Nat
        OBVIOUS
  <2> QED BY <2>1, <2>2, <2>3, <2>4, <2>5, <2>6, Zenon DEF Types
<1>2. Stored BY DEF Stored
<1> QED BY <1>1, <1>2 DEF Inv, Triggers, Count, Placed, Ahead, Copied, Given, Idle, NoOut, NONE

LEMMA AdvanceInv == Inv /\ Advance => Inv'
<1> SUFFICES ASSUME Inv, Advance PROVE Inv' OBVIOUS
<1> USE BuffersAssumption
<1>0. /\ Types /\ Stored /\ w \in Int /\ w' = w + 1 /\ w' \in Int
      /\ mem' = [mem EXCEPT ![w' % N] = w'] /\ on
      /\ late' = (late \/ (dma.cnt = Pre /\ pos <= w' - N))
      /\ UNCHANGED <<chan, phase, irq, sched, task, extra, out, pos>> /\ flag' = TRUE
      BY DEF Inv, Advance, Types
<1>1. Types'
  <2>1. w' % N \in Buffers BY <1>0, NextPlace
  <2>2. w' \in 0 .. MaxItems BY DEF Advance, Inv, Types
  <2> QED BY <1>0, <2>1, <2>2 DEF Types, chan, PART
<1>2. Stored'
  <2>1. ASSUME NEW i \in 1 .. w', i >= start, w' - N < i
        PROVE  mem'[i % N] = i
    <3>1. i % N \in Buffers BY NextPlace
    <3>2. CASE i = w' BY <1>0, <3>1, <3>2 DEF Types
    <3>3. CASE i # w'
      <4>1. i % N # w' % N BY <1>0, <3>3, <2>1, PlaceIsUnique
      <4>2. mem[i % N] = i BY <1>0, <3>3, <2>1 DEF Stored
      <4> QED BY <1>0, <3>1, <4>1, <4>2 DEF Types
    <3> QED BY <3>2, <3>3
  <2> QED BY <1>0, <2>1 DEF Stored, chan, Types
<1>3. Triggers' BY <1>0 DEF Triggers, Stored, chan, Types
<1>4. Undisturbed' => Undisturbed BY <1>0 DEF Undisturbed, chan, Types
<1>5. Placed'
  <2>1. Undisturbed' /\ dma.cnt = Pre => w' - N < pos
    <3>1. Undisturbed' /\ dma.cnt = Pre => ~(pos <= w' - N) BY <1>0 DEF Undisturbed
    <3>2. pos \in Int /\ N \in Int BY <1>0 DEF Types
    <3> QED BY <1>0, <3>1, <3>2
  <2>2. dma' = dma /\ task' = task /\ pos' = pos /\ start' = start BY <1>0 DEF chan
  <2>3. Undisturbed' /\ dma.cnt > 0 =>
          /\ pos < w' /\ (dma.cnt = Pre => start <= pos)
          /\ (task.at = "idle" => dma.next_buffer = pos % N)
        BY <1>0, <1>4 DEF Inv, Placed, Types
  <2> QED BY <2>1, <2>2, <2>3 DEF Placed
<1>6. Ahead'
  <2>1. SUFFICES ASSUME task.at # "idle" PROVE Ahead' BY <1>0 DEF Ahead
  <2>2. dma.cnt = Pre /\ dma' = dma /\ task' = task /\ pos' = pos
        BY <1>0, <2>1 DEF Inv, Ahead, chan
  <2>3. ASSUME Undisturbed'
        PROVE  /\ task.read = pos % N
               /\ \E lim \in Int : pos < lim /\ lim < w' /\ lim - pos < N /\ task.next = lim % N
    <3>1. PICK lim \in Int : pos < lim /\ lim < w /\ lim - pos < N /\ task.next = lim % N
          BY <1>4, <2>1, <2>3 DEF Inv, Ahead
    <3>2. task.read = pos % N BY <1>4, <2>1, <2>3 DEF Inv, Ahead
    <3> QED BY <1>0, <3>1, <3>2
  <2> QED BY <2>2, <2>3 DEF Ahead
<1>7. Copied' BY <1>0, <1>4 DEF Inv, Copied, chan
<1>8. Given' BY <1>0, <1>4 DEF Inv, Given, chan
<1> QED BY <1>1, <1>2, <1>3, <1>5, <1>6, <1>7, <1>8 DEF Inv

(* The handler touches the triggers only.                                  *)
LEMMA IrqInv == Inv /\ Irq => Inv'
<1> SUFFICES ASSUME Inv, Irq PROVE Inv' OBVIOUS
<1> USE BuffersAssumption
<1>1. /\ UNCHANGED <<chan, fpga, task, extra, out, pos>>
      /\ \/ irq = "idle" /\ flag /\ irq' = "clear" /\ UNCHANGED <<flag, sched>>
         \/ irq = "clear" /\ irq' = "schedule" /\ flag' = FALSE /\ UNCHANGED sched
         \/ irq = "schedule" /\ irq' = "idle" /\ sched' = TRUE /\ UNCHANGED flag
      BY DEF Irq, IrqStat, IrqClear, IrqSchedule
<1>2. Types' BY <1>1 DEF Inv, Types, chan, fpga
<1>3. Stored' BY <1>1 DEF Inv, Stored, chan, fpga
<1>4. Triggers' BY <1>1 DEF Inv, Triggers, Types, Count, chan, fpga
<1>5. Placed' /\ Ahead' /\ Copied' /\ Given'
      BY <1>1 DEF Inv, Placed, Ahead, Copied, Given, Undisturbed, chan, fpga
<1> QED BY <1>2, <1>3, <1>4, <1>5 DEF Inv

(* A trigger: before the channel is warm the position is set anew; the     *)
(* second one after enable cannot be old any more.                         *)
LEMMA RunInv == Inv /\ Run => Inv'
<1> SUFFICES ASSUME Inv, Run PROVE Inv' OBVIOUS
<1> USE BuffersAssumption
<1>0. /\ Types /\ task.at = "idle" /\ sched /\ sched' = FALSE
      /\ UNCHANGED <<on, start, leftover, fpga, intr, extra, out>>
      BY DEF Inv, Run
<1>1. w \in Int /\ Limit = (w - 1) % N /\ Limit \in Buffers BY <1>0, LimitPlace DEF Types
<1>2. (Undisturbed <=> Undisturbed') /\ Stored'
      BY <1>0 DEF Inv, Undisturbed, Stored, fpga
<1>3. CASE Warm
  <2>1. /\ UNCHANGED <<dma, pos>> /\ dma.cnt = Pre
        /\ task' = IF dma.next_buffer = Limit THEN Idle
                   ELSE [at |-> "sync", read |-> dma.next_buffer, next |-> Limit]
        BY <1>0, <1>3 DEF Run, Warm, Types
  <2>2. Types'
    <3>1. task' \in TaskType BY <1>0, <1>1, <2>1, IdleType DEF Types, TaskType
    <3> QED BY <1>0, <2>1, <3>1 DEF Types, fpga, intr
  <2>3. Triggers' BY <1>0, <2>1 DEF Inv, Triggers, Count, fpga, intr, Types
  <2>4. Placed' BY <1>0, <1>2, <2>1 DEF Inv, Placed, fpga
  <2>5. Ahead'
    <3>1. SUFFICES ASSUME Undisturbed, dma.next_buffer # Limit PROVE Ahead'
          BY <1>0, <1>2, <2>1 DEF Ahead, Idle
    <3>2. pos < w /\ w - N < pos /\ dma.next_buffer = pos % N
          BY <1>0, <2>1, <3>1 DEF Inv, Placed
    <3>3. pos # w - 1 BY <1>1, <3>1, <3>2
    <3>4. pos < w - 1 /\ (w - 1) - pos < N /\ w - 1 < w BY <1>0, <1>1, <3>2, <3>3 DEF Types
    <3>5. task'.at = "sync" /\ task'.read = pos % N /\ task'.next = (w - 1) % N
          BY <1>1, <2>1, <3>1, <3>2
    <3>6. w' = w /\ pos' = pos /\ dma' = dma BY <1>0, <2>1 DEF fpga
    <3> QED BY <1>1, <2>1, <3>4, <3>5, <3>6 DEF Ahead
  <2>6. Copied' BY <2>1 DEF Copied, Idle
  <2>7. Given' BY <1>0, <1>2, <2>1 DEF Inv, Given
  <2> QED BY <1>2, <2>2, <2>3, <2>4, <2>5, <2>6, <2>7 DEF Inv
<1>4. CASE ~Warm
  <2>1. /\ dma' = [dma EXCEPT !.cnt = @ + 1, !.next_buffer = Limit]
        /\ pos' = w - Pre + 1 /\ task' = task /\ dma.cnt \in 0 .. Pre - 1
        BY <1>0, <1>4 DEF Run, Warm, Types
  <2>2. /\ dma'.cnt = dma.cnt + 1 /\ dma'.next_buffer = Limit /\ dma'.offset = dma.offset
        /\ pos' = w - 1
        BY <1>0, <1>1, <2>1 DEF Types
  <2>3. Types'
    <3>1. dma.cnt + 1 \in 0 .. Pre BY <2>1
    <3>2. dma' \in [offset : {0, 1}, cnt : 0 .. Pre, next_buffer : Buffers]
          BY <1>0, <1>1, <2>1, <3>1 DEF Types
    <3>3. pos' \in Int BY <1>1, <2>2
    <3> QED BY <1>0, <2>1, <3>2, <3>3 DEF Types, fpga, intr
  <2>4. Triggers' BY <1>0, <2>1, <2>2 DEF Inv, Triggers, Count, fpga, intr, Types
  <2>5. Placed'
    <3>1. SUFFICES ASSUME Undisturbed PROVE Placed' BY <1>2 DEF Placed
    <3>2. ASSUME dma'.cnt = Pre PROVE start <= w - 1
      <4>1. dma.cnt = 1 BY <2>1, <2>2, <3>2
      <4>2. w # start BY <1>0, <3>1, <4>1 DEF Inv, Triggers, Count, Undisturbed, Types
      <4> QED BY <1>0, <4>2 DEF Inv, Stored, Types
    <3> QED BY <1>0, <1>1, <2>2, <3>2 DEF Placed, fpga
  <2>6. Ahead' /\ Copied' BY <1>0, <2>1 DEF Ahead, Copied
  <2>7. Given' BY <1>0, <1>2, <2>1 DEF Inv, Given
  <2> QED BY <1>2, <2>3, <2>4, <2>5, <2>6, <2>7 DEF Inv
<1> QED BY <1>3, <1>4

(* The search for the offset, and the copy of the first buffer's head.     *)
LEMMA SyncInv == Inv /\ Sync => Inv'
<1> SUFFICES ASSUME Inv, Sync PROVE Inv' OBVIOUS
<1> USE BuffersAssumption
<1>0. /\ Types /\ task.at = "sync" /\ task' = [task EXCEPT !.at = "filter"]
      /\ UNCHANGED <<on, start, leftover, fpga, intr, sched, out, pos>>
      BY DEF Inv, Sync
<1>1. PICK o \in {dma.offset, phase} :
         /\ dma' = [dma EXCEPT !.offset = o]
         /\ IF o = 0 THEN UNCHANGED extra ELSE CopyRemains(task.read)
      BY DEF Sync
<1>2. /\ dma'.cnt = dma.cnt /\ dma'.next_buffer = dma.next_buffer /\ dma'.offset = o
      /\ o \in {0, 1} /\ task'.at = "filter" /\ task'.read = task.read /\ task'.next = task.next
      BY <1>0, <1>1 DEF Types
<1>3. (Undisturbed <=> Undisturbed') /\ Stored'
      BY <1>0 DEF Inv, Undisturbed, Stored, fpga
<1>4. extra' \in Int
      BY <1>0, <1>1, <1>2, IdleType DEF Types, CopyRemains, Content, PART
<1>5. Types'
  <2>1. task' \in TaskType BY <1>0 DEF Types, TaskType
  <2>2. dma' \in [offset : {0, 1}, cnt : 0 .. Pre, next_buffer : Buffers]
        BY <1>0, <1>1, <1>2 DEF Types
  <2> QED BY <1>0, <1>4, <2>1, <2>2 DEF Types, fpga, intr
<1>6. Triggers' BY <1>0, <1>2 DEF Inv, Triggers, Count, fpga, intr
<1>7. Placed' BY <1>0, <1>2, <1>3 DEF Inv, Placed, fpga
<1>8. Ahead' BY <1>0, <1>2, <1>3 DEF Inv, Ahead, fpga
<1>9. Copied'
  <2>1. SUFFICES ASSUME Undisturbed, task.read = N - 1, o # 0 PROVE extra' = pos + 1
        BY <1>0, <1>2, <1>3 DEF Copied
  <2>2. extra' = Content(0) BY <1>1, <2>1 DEF CopyRemains
  <2>3. /\ dma.cnt = Pre /\ task.read = pos % N /\ pos + 1 < w /\ w - N < pos /\ start <= pos
        /\ pos \in Int /\ w \in Int /\ start \in Int
        BY <1>0, <2>1 DEF Inv, Ahead, Placed, Types
  <2>4. (pos + 1) % N = 0 BY <2>1, <2>3, NextPlace
  <2>5. Content((pos + 1) % N) = pos + 1 BY <2>3, Found DEF Inv
  <2> QED BY <2>2, <2>4, <2>5
<1>10. Given' BY <1>0, <1>2, <1>3 DEF Inv, Given
<1> QED BY <1>3, <1>5, <1>6, <1>7, <1>8, <1>9, <1>10 DEF Inv

(* A buffer is handed over.                                                *)
LEMMA FilterInv == Inv /\ Filter => Inv'
<1> SUFFICES ASSUME Inv, Filter PROVE Inv' OBVIOUS
<1> USE BuffersAssumption
<1> DEFINE r == (task.read + 1) % N
<1>0. /\ Types /\ task.at = "filter" /\ pos' = pos + 1
      /\ out' = [prev |-> out.item, item |-> Content(task.read),
                 tail |-> IF dma.offset = 0 THEN NONE ELSE Follows(task.read)]
      /\ UNCHANGED <<on, start, leftover, fpga, intr, sched, extra>>
      BY DEF Inv, Filter
<1>1. IF r = task.next
        THEN task' = Idle /\ dma' = [dma EXCEPT !.next_buffer = task.next]
        ELSE task' = [task EXCEPT !.at = "sync", !.read = r] /\ UNCHANGED dma
      BY DEF Filter, Position
<1>2. /\ dma'.cnt = dma.cnt /\ dma'.offset = dma.offset /\ dma.cnt = Pre /\ r \in Buffers
      /\ pos \in Int /\ w \in Int /\ start \in Int /\ dma.offset \in {0, 1}
  <2>1. dma'.cnt = dma.cnt /\ dma'.offset = dma.offset BY <1>0, <1>1 DEF Types
  <2>2. dma.cnt = Pre BY <1>0 DEF Inv, Ahead
  <2>3. task.read \in Int BY <1>0 DEF Types, TaskType, Buffers
  <2>4. r \in Buffers BY <2>3, NextPlace
  <2> QED BY <1>0, <2>1, <2>2, <2>4 DEF Types
<1>3. (Undisturbed <=> Undisturbed') /\ Stored'
      BY <1>0 DEF Inv, Undisturbed, Stored, fpga
<1>4. Types'
  <2>1. Content(task.read) \in Int /\ Follows(task.read) \in Int
    <3>1. task.read \in Buffers /\ extra \in Int /\ mem \in [Buffers -> PART .. MaxItems]
          BY <1>0 DEF Types, TaskType
    <3>2. ASSUME NEW b \in Buffers PROVE Content(b) \in Int BY <3>1 DEF Content, PART
    <3>3. task.read = N - 1 \/ task.read + 1 \in Buffers BY <3>1 DEF Buffers
    <3> QED BY <3>1, <3>2, <3>3 DEF Follows
  <2>2. out' \in [prev : Int, item : Int, tail : Int] BY <1>0, <2>1 DEF Types, NONE
  <2>3. dma' \in [offset : {0, 1}, cnt : 0 .. Pre, next_buffer : Buffers]
        BY <1>0, <1>1 DEF Types, TaskType
  <2>4. task' \in TaskType BY <1>0, <1>1, <1>2, IdleType DEF Types, TaskType
  <2> QED BY <1>0, <1>2, <2>2, <2>3, <2>4 DEF Types, fpga, intr
<1>5. Triggers' BY <1>0, <1>2 DEF Inv, Triggers, Count, fpga, intr
<1>6. Copied' BY <1>0, <1>1, IdleType DEF Copied, Types, TaskType
<1>7. CASE ~Undisturbed
      BY <1>0, <1>1, <1>2, <1>3, <1>4, <1>5, <1>6, <1>7
      DEF Inv, Placed, Ahead, Given, Types
<1>8. CASE Undisturbed
  <2>1. PICK lim \in Int : pos < lim /\ lim < w /\ lim - pos < N /\ task.next = lim % N
        BY <1>0, <1>8 DEF Inv, Ahead
  <2>2. task.read = pos % N /\ start <= pos /\ w - N < pos /\ pos < w
        BY <1>0, <1>2, <1>8 DEF Inv, Ahead, Placed
  <2>3. r = (pos + 1) % N BY <1>2, <2>2, NextPlace
  <2>4. r = task.next => pos + 1 = lim BY <1>2, <2>1, <2>3, PlaceIsUnique
  <2>5. Placed'
    <3>1. pos' < w' /\ start' <= pos' /\ w' - N < pos' BY <1>0, <1>2, <2>1, <2>2 DEF fpga
    <3>2. task'.at = "idle" => dma'.next_buffer = pos' % N
          BY <1>0, <1>1, <2>3 DEF Types, TaskType
    <3> QED BY <3>1, <3>2 DEF Placed
  <2>6. Ahead'
    <3>1. SUFFICES ASSUME r # task.next PROVE Ahead' BY <1>1, <1>0 DEF Ahead, Idle
    <3>2. task'.read = pos' % N /\ task'.next = task.next BY <1>0, <1>1, <2>3, <3>1 DEF Types, TaskType
    <3>3. pos + 1 # lim BY <2>1, <2>3, <3>1
    <3>4. pos' < lim /\ lim < w' /\ lim - pos' < N
          BY <1>0, <1>2, <2>1, <3>3 DEF fpga
    <3> QED BY <1>2, <2>1, <3>2, <3>4 DEF Ahead
  <2>7. Given'
    <3>1. out'.item = pos
      <4>1. Content(pos % N) = pos BY <1>0, <1>2, <2>2, Found DEF Inv
      <4> QED BY <1>0, <2>2, <4>1
    <3>2. ASSUME dma.offset # 0 PROVE Follows(task.read) = pos + 1
      <4>1. CASE task.read = N - 1 BY <1>0, <1>8, <3>2, <4>1 DEF Inv, Copied, Follows
      <4>2. CASE task.read # N - 1
        <5>1. (pos + 1) % N = task.read + 1 BY <1>2, <2>2, <4>2, NextPlace
        <5>2. Content((pos + 1) % N) = pos + 1 BY <1>0, <1>2, <2>1, <2>2, Found DEF Inv
        <5> QED BY <4>2, <5>1, <5>2 DEF Follows
      <4> QED BY <4>1, <4>2
    <3>3. out'.tail \in {NONE, pos + 1} BY <1>0, <3>2
    <3>4. out'.prev # NONE => out'.prev = pos - 1 BY <1>0, <1>8 DEF Inv, Given
    <3> QED BY <1>0, <1>2, <2>2, <3>1, <3>3, <3>4 DEF Given
  <2> QED BY <1>3, <1>4, <1>5, <1>6, <2>5, <2>6, <2>7 DEF Inv
<1> QED BY <1>7, <1>8

(* The channel is switched on: a new stream begins.                        *)
LEMMA EnableInv == Inv /\ Enable => Inv'
<1> SUFFICES ASSUME Inv, Enable PROVE Inv' OBVIOUS
<1> USE BuffersAssumption
<1>0. /\ Types /\ task.at = "idle" /\ on' = TRUE
      /\ dma' = [offset |-> 0, cnt |-> 0, next_buffer |-> 0]
      /\ w \in Int /\ w' \in Int /\ w' > w /\ w' <= MaxItems
      /\ mem' = [mem EXCEPT ![w' % N] = w']
      /\ start' = w' /\ pos' = w' /\ late' = FALSE /\ phase' \in {0, 1}
      /\ flag' \in {flag, FALSE}
      /\ leftover' = Count(sched) + Count(irq # "idle") + Count(flag' /\ irq # "clear")
      /\ out' = NoOut
      /\ UNCHANGED <<irq, sched, task, extra>>
  <2>1. Types /\ w \in Int /\ N \in Int BY DEF Inv, Types
  <2>2. w' \in Int /\ w' > w /\ w' <= MaxItems BY <2>1 DEF Enable
  <2> QED BY <2>1, <2>2 DEF Enable
<1>1. w' % N \in Buffers BY <1>0, NextPlace
<1>2. Types'
  <2>1. leftover' \in Nat BY <1>0 DEF Count
  <2>2. mem' \in [Buffers -> PART .. MaxItems] BY <1>0, <1>1 DEF Types, PART
  <2>3. dma' \in [offset : {0, 1}, cnt : 0 .. Pre, next_buffer : Buffers] BY <1>0, IdleType
  <2>4. out' \in [prev : Int, item : Int, tail : Int] BY <1>0 DEF NoOut, NONE
  <2>5. w' \in 0 .. MaxItems /\ start' \in Nat /\ pos' \in Int BY <1>0 DEF Types
  <2>6. flag' \in BOOLEAN BY <1>0 DEF Types
  <2> QED BY <1>0, <2>1, <2>2, <2>3, <2>4, <2>5, <2>6 DEF Types
<1>3. Stored'
  <2>1. mem'[w' % N] = w' /\ w' > 0 BY <1>0, <1>1 DEF Types
  <2>2. ASSUME NEW i \in 1 .. w', i >= start' PROVE i = w' BY <1>0, <2>2
  <2>3. start' <= w' /\ (on' => start' > 0) /\ (start' = 0 => w' = 0) BY <1>0, <2>1
  <2>4. \A i \in 1 .. w' : i >= start' /\ w' - N < i => mem'[i % N] = i BY <2>1, <2>2
  <2> QED BY <2>3, <2>4 DEF Stored
<1>4. Triggers' BY <1>0 DEF Triggers, Count
<1>5. Placed' /\ Ahead' /\ Copied' BY <1>0 DEF Placed, Ahead, Copied
<1>6. Given' BY <1>0 DEF Given, NoOut
<1> QED BY <1>2, <1>3, <1>4, <1>5, <1>6 DEF Inv

LEMMA DisableInv == Inv /\ Disable => Inv'
<1> SUFFICES ASSUME Inv, Disable PROVE Inv' OBVIOUS
<1>1. /\ on' = FALSE /\ flag' \in {flag, FALSE}
      /\ UNCHANGED <<dma, start, leftover, fpga, irq, sched, task, extra, out, pos>>
      BY DEF Disable
<1>2. Types' BY <1>1 DEF Inv, Types, fpga
<1>3. Stored' BY <1>1 DEF Inv, Stored, fpga
<1>4. Triggers'
  <2>1. flag' = flag \/ flag' = FALSE BY <1>1
  <2> QED BY <1>1, <2>1, BuffersAssumption DEF Inv, Triggers, Types, Count, fpga
<1>5. Placed' /\ Ahead' /\ Copied' /\ Given'
      BY <1>1 DEF Inv, Placed, Ahead, Copied, Given, Undisturbed, fpga
<1> QED BY <1>2, <1>3, <1>4, <1>5 DEF Inv

LEMMA StutterInv == Inv /\ UNCHANGED vars => Inv'
BY DEF Inv, vars, chan, fpga, intr, Types, Stored, Triggers, Placed, Ahead, Copied, Given,
       Undisturbed

---------------------------------------------------------------------------
(* The invariant holds in every state of the channel.                      *)
THEOREM ChannelInvariant == Spec => []Inv
<1>1. Inv /\ [Next]_vars => Inv'
      BY AdvanceInv, IrqInv, RunInv, SyncInv, FilterInv, EnableInv, DisableInv, StutterInv
      DEF Next, Tasklet
<1> QED BY <1>1, InitInv, PTL DEF Spec

(* next_buffer and the loop's read_buffer stay inside the ring.            *)
THEOREM TypeCorrect == Spec => []TypeOK
<1>1. Inv => TypeOK BY DEF Inv, Types, TaskType, TypeOK
<1> QED BY <1>1, ChannelInvariant, PTL

(* The demux gets full buffers of the current stream, one after the other, *)
(* completed with what follows them.                                       *)
THEOREM DeliveryIsStream == Spec => []DeliversStream
<1>1. Inv => DeliversStream BY DEF Inv, Types, Given, DeliversStream, NoOut, NONE
<1> QED BY <1>1, ChannelInvariant, PTL
=============================================================================
