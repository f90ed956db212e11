----------------------------- MODULE Tbsecp3Dma -----------------------------
(***************************************************************************)
(* One DMA channel of the TBS bridge: the FPGA fills a ring of buffers     *)
(* with the transport stream, the interrupt handler schedules a tasklet,   *)
(* and the tasklet hands the buffers to the demux, some buffers behind the *)
(* one that is being filled, because the last packet of a buffer may end   *)
(* in the next one.  start_feed and stop_feed switch the channel.          *)
(*                                                                         *)
(* What the FPGA writes to one buffer is an item; items are numbered as    *)
(* they are begun.  Bytes are not modelled: of a buffer it is known which  *)
(* item is in it, of the stream where its first packet begins.             *)
(***************************************************************************)
EXTENDS Integers

CONSTANTS
    N,              \* TBSECP3_DMA_BUFFERS
    Pre,            \* TBSECP3_DMA_PRE_BUFFERS
    MaxItems        \* bound on the items

(* The buffers are counted with a mask: N is a power of two.               *)
ASSUME BuffersAssumption == N \in {4, 8, 16} /\ Pre = 2 /\ MaxItems \in Nat

VARIABLES
    dma,        \* offset, cnt, next_buffer of struct tbsecp3_dma_channel
    on,         \* DMA_EN and DMA_IE
    w, mem,     \* the item being written; per buffer, the item in it
    phase,      \* where packets begin in the buffers; 0 or 1
    irq, flag,  \* the handler; TBSECP3_DMA_IF of INT_STAT
    sched,      \* the tasklet is scheduled
    task,       \* the tasklet: its place, read_buffer, next_buffer
    extra,      \* the item whose first bytes are in buf[N]
    out,        \* what was given to the demux last, and before that
    start, pos, \* the first item since enable; the item to be read next
    leftover,   \* triggers from before enable
    late        \* the FPGA has overwritten what was to be read

chan == <<dma, on, start, leftover>>
fpga == <<w, mem, phase, late>>
intr == <<irq, flag>>
vars == <<chan, fpga, intr, sched, task, extra, out, pos>>

Buffers == 0 .. N - 1
NONE    == -1
PART    == -2       \* a part of an item, or something older
NoOut   == [prev |-> NONE, item |-> NONE, tail |-> NONE]
Idle    == [at |-> "idle", read |-> 0, next |-> 0]

Init ==
    /\ dma = [offset |-> 0, cnt |-> 0, next_buffer |-> 0] /\ on = FALSE
    /\ w = 0 /\ mem = [b \in Buffers |-> PART] /\ phase = 0
    /\ irq = "idle" /\ flag = FALSE /\ sched = FALSE
    /\ task = Idle /\ extra = PART /\ out = NoOut
    /\ start = 0 /\ pos = 0 /\ leftover = 0 /\ late = FALSE

Count(cond) == IF cond THEN 1 ELSE 0

---------------------------------------------------------------------------
(* The FPGA: DMA_STAT is the buffer being written; when it goes on to the  *)
(* next one it raises the channel's interrupt.                             *)

DMA_STAT == w % N

(* What is found in a buffer: the one being written is incomplete.         *)
Content(b) == IF mem[b] = w THEN PART ELSE mem[b]

Advance ==
    /\ on /\ w < MaxItems
    /\ w' = w + 1 /\ mem' = [mem EXCEPT ![w' % N] = w']
    /\ flag' = TRUE
    /\ late' = (late \/ (dma.cnt = Pre /\ pos <= w' - N))
    /\ UNCHANGED <<chan, phase, irq, sched, task, extra, out, pos>>

---------------------------------------------------------------------------
(* tbsecp3_irq_handler, for the channel: read the status, write it back,   *)
(* schedule the tasklet.  The line is shared with the I2C buses.           *)

IrqStat ==
    /\ irq = "idle" /\ flag
    /\ irq' = "clear"
    /\ UNCHANGED <<chan, fpga, flag, sched, task, extra, out, pos>>

IrqClear ==
    /\ irq = "clear"
    /\ irq' = "schedule" /\ flag' = FALSE
    /\ UNCHANGED <<chan, fpga, sched, task, extra, out, pos>>

(* A bug: a tasklet that is running is not scheduled again.                *)
ScheduleIfIdle ==
    /\ irq = "schedule" /\ irq' = "idle"
    /\ sched' = (sched \/ task.at = "idle")
    /\ UNCHANGED <<chan, fpga, flag, task, extra, out, pos>>

IrqSchedule ==
    /\ irq = "schedule"
    /\ irq' = "idle" /\ sched' = TRUE
    /\ UNCHANGED <<chan, fpga, flag, task, extra, out, pos>>

---------------------------------------------------------------------------
(* tbsecp3_dma_tasklet.  It holds adap_lock from Run on.                   *)

Limit == (DMA_STAT - Pre + 1) % N

Warm == dma.cnt >= Pre

Run ==
    /\ task.at = "idle" /\ sched
    /\ sched' = FALSE
    /\ IF Warm
         THEN /\ task' = IF dma.next_buffer = Limit THEN Idle
                         ELSE [at |-> "sync", read |-> dma.next_buffer, next |-> Limit]
              /\ UNCHANGED <<dma, pos>>
         ELSE /\ dma' = [dma EXCEPT !.cnt = @ + 1, !.next_buffer = Limit]
              /\ pos' = w - Pre + 1
              /\ UNCHANGED task
    /\ UNCHANGED <<on, start, leftover, fpga, intr, extra, out>>

(* A bug: the packet that goes from the last buffer to the first is not    *)
(* completed.                                                              *)
CopyNothing(b) == UNCHANGED extra

(* "Copy remains of last packet from buffer 0 behind last one"             *)
CopyRemains(b) == extra' = IF b = N - 1 THEN Content(0) ELSE extra

(* "Find sync byte offset with crude force (this might fail!)": a 0x47 at  *)
(* the old offset may also be a byte of a packet.                          *)
Sync ==
    /\ task.at = "sync"
    /\ \E o \in {dma.offset, phase} :
          /\ dma' = [dma EXCEPT !.offset = o]
          /\ IF o = 0 THEN UNCHANGED extra ELSE CopyRemains(task.read)
    /\ task' = [task EXCEPT !.at = "filter"]
    /\ UNCHANGED <<on, start, leftover, fpga, intr, sched, out, pos>>

(* dvb_dmx_swfilter_packets, from the offset to the same in what follows.  *)
Follows(b) == IF b = N - 1 THEN extra ELSE Content(b + 1)

(* A bug: the position is taken from the FPGA again, after the loop.       *)
PositionReadAgain == Limit

Position == task.next

Filter ==
    /\ task.at = "filter"
    /\ out' = [prev |-> out.item, item |-> Content(task.read),
               tail |-> IF dma.offset = 0 THEN NONE ELSE Follows(task.read)]
    /\ pos' = pos + 1
    /\ LET r == (task.read + 1) % N
       IN  IF r = task.next
             THEN task' = Idle /\ dma' = [dma EXCEPT !.next_buffer = Position]
             ELSE task' = [task EXCEPT !.at = "sync", !.read = r] /\ UNCHANGED dma
    /\ UNCHANGED <<on, start, leftover, fpga, intr, sched, extra>>

---------------------------------------------------------------------------
(* tbsecp3_dma_enable and tbsecp3_dma_disable.  Each reads DMA_STAT, which *)
(* may acknowledge an interrupt; the buffer at which the FPGA goes on is   *)
(* its own choice, and so is where packets begin in it.                    *)

Enable ==
    /\ ~on /\ on' = TRUE /\ task.at = "idle"
    /\ dma' = [offset |-> 0, cnt |-> 0, next_buffer |-> 0]
    /\ w' \in w + 1 .. w + N /\ w' <= MaxItems
    /\ mem' = [mem EXCEPT ![w' % N] = w']
    /\ start' = w' /\ pos' = w' /\ late' = FALSE
    /\ phase' \in {0, 1}
    /\ flag' \in {flag, FALSE}
    /\ leftover' = Count(sched) + Count(irq # "idle") + Count(flag' /\ irq # "clear")
    /\ out' = NoOut
    /\ UNCHANGED <<irq, sched, task, extra>>

Disable ==
    /\ on /\ on' = FALSE /\ task.at = "idle"
    /\ flag' \in {flag, FALSE}
    /\ UNCHANGED <<dma, start, leftover, fpga, irq, sched, task, extra, out, pos>>

---------------------------------------------------------------------------
Irq     == IrqStat \/ IrqClear \/ IrqSchedule
Tasklet == Run \/ Sync \/ Filter

Next == Advance \/ Irq \/ Tasklet \/ Enable \/ Disable

(* An interrupt is served, and a scheduled tasklet run.                    *)
Fairness == WF_vars(Irq) /\ WF_vars(Tasklet)

Spec == Init /\ [][Next]_vars /\ Fairness

---------------------------------------------------------------------------
(* Properties                                                              *)

TypeOK ==
    /\ dma \in [offset : {0, 1}, cnt : 0 .. Pre, next_buffer : Buffers]
    /\ mem \in [Buffers -> PART .. MaxItems] /\ w \in 0 .. MaxItems
    /\ task.read \in Buffers /\ task.next \in Buffers

(* The tasklet keeps its distance to the FPGA, and no more than one        *)
(* trigger from before is left when the channel is enabled.                *)
Undisturbed == ~late /\ leftover <= 1

(* What the demux gets are full buffers, filled since enable, and the      *)
(* packet that goes on in the next buffer is completed with the bytes that *)
(* followed, at the end of the ring too.  Buffers come one after the       *)
(* other: none twice, none left out, although the tasklet knows them by    *)
(* their place in the ring only.                                           *)
DeliversStream ==
    Undisturbed =>
        /\ out.item # NONE => out.item >= start /\ out.tail \in {NONE, out.item + 1}
        /\ out.prev # NONE => out.item = out.prev + 1

(* Whatever triggers are merged or lost, what was filled is handed over,   *)
(* unless the channel is switched off first or the FPGA has overtaken.     *)
Drains ==
    \A i \in 0 .. MaxItems :
        (on /\ Warm /\ pos = i /\ w >= i + Pre) ~> (pos > i \/ ~on \/ late)
=============================================================================
