----------------------------- MODULE Tbsecp3I2c -----------------------------
(***************************************************************************)
(* One I2C bus of the TBS bridge (tbsecp3-i2c.c) and the part of the       *)
(* interrupt handler that serves it (tbsecp3-core.c).  i2c_xfer holds      *)
(* bus->lock, so there is one transfer at a time; it cuts every message    *)
(* into commands for the controller and waits up to a second for each.     *)
(* Commands are numbered.  The controller is external: it completes the    *)
(* commands it was given, some very late and some never, then shows the    *)
(* result in its registers and sets the bus's bit in TBSECP3_INT_STAT.     *)
(***************************************************************************)
EXTENDS Integers

CONSTANTS
    ReadMax, WriteMax,  \* the most bytes of one command (4 and 6)
    MaxLen,             \* bound on the length of a message
    MaxMsgs,            \* bound on the messages of one transfer
    MaxCmds             \* bound on the commands of a behaviour

ASSUME SizesAssumption == ReadMax \in Nat \ {0} /\ WriteMax \in Nat \ {0}
ASSUME BoundsAssumption == MaxLen \in Nat /\ MaxMsgs \in Nat /\ MaxCmds \in Nat

VARIABLES
    pc, left, first, read, len, remaining, start, ret,  \* i2c_xfer
    done,               \* bus->done
    cmd,                \* the number of the last command written
    inflight,           \* the commands the controller has not completed
    reg,                \* the result registers: of which command; a nack
    intstat,            \* the bus's bit in TBSECP3_INT_STAT
    irq,                \* the interrupt handler: idle, or how far it is
    irqon,              \* the handler is installed
    open, moved,        \* the bus: between START and STOP; bytes since START
    stale               \* when the last command was prepared, an older one
                        \* had yet to complete or to be signalled

xfer == <<pc, left, first, read, len, remaining, start, ret>>
wire == <<open, moved>>
vars == <<xfer, done, cmd, inflight, reg, intstat, irq, irqon, wire, stale>>

Init ==
    /\ pc = "idle" /\ left = 0 /\ first = TRUE /\ read = FALSE
    /\ len = 0 /\ remaining = 0 /\ start = FALSE /\ ret = "none"
    /\ done = FALSE /\ cmd = 0 /\ inflight = {}
    /\ reg = [cmd |-> 0, nack |-> FALSE]
    /\ intstat = FALSE /\ irq = "idle" /\ irqon = TRUE
    /\ open = FALSE /\ moved = 0 /\ stale = FALSE

---------------------------------------------------------------------------
(* i2c_xfer                                                                *)

xfer_max == IF read THEN ReadMax ELSE WriteMax

(* len = remaining > xfer_max ? xfer_max : remaining                       *)
Size == IF remaining > xfer_max THEN xfer_max ELSE remaining

(* A bug: no STOP when the message fills its last command.                 *)
StopBelowMax == remaining < xfer_max

(* if (remaining <= xfer_max) i2c_ctrl.bits.stop = 1                       *)
Stop == remaining <= xfer_max

(* The lock is taken for a transfer of num messages.                       *)
Xfer(num) ==
    /\ pc = "idle"
    /\ pc' = "msg" /\ left' = num /\ first' = TRUE /\ ret' = "none"
    /\ UNCHANGED <<read, len, remaining, start, done, cmd, inflight, reg, intstat,
                   irq, irqon, wire, stale>>

(* The next message is set up.                                             *)
Message(rd, n) ==
    /\ pc = "msg"
    /\ pc' = "chunk" /\ read' = rd /\ len' = n /\ remaining' = n /\ start' = TRUE
    /\ UNCHANGED <<left, first, ret, done, cmd, inflight, reg, intstat, irq, irqon, wire, stale>>

(* A bug: bus->done keeps its value.                                       *)
PrepareKeepsDone ==
    /\ pc = "chunk"
    /\ pc' = "armed"
    /\ stale' = (inflight # {} \/ intstat \/ irq # "idle")
    /\ UNCHANGED <<left, first, read, len, remaining, start, ret, done, cmd, inflight,
                   reg, intstat, irq, irqon, wire>>

(* A command is built, its data written, and bus->done reset ...           *)
Prepare ==
    /\ pc = "chunk"
    /\ pc' = "armed"
    /\ done' = FALSE
    /\ stale' = (inflight # {} \/ intstat \/ irq # "idle")
    /\ UNCHANGED <<left, first, read, len, remaining, start, ret, cmd, inflight,
                   reg, intstat, irq, irqon, wire>>

(* ... before the control register starts it.                              *)
Command ==
    /\ pc = "armed" /\ cmd < MaxCmds
    /\ pc' = "wait"
    /\ cmd' = cmd + 1 /\ inflight' = inflight \cup {cmd + 1}
    /\ open' = ~Stop
    /\ moved' = (IF start THEN 0 ELSE moved) + Size
    /\ UNCHANGED <<left, first, read, len, remaining, start, ret, done, reg, intstat,
                   irq, irqon, stale>>

(* wait_event_timeout: bus->done is seen ...                               *)
Woken ==
    /\ pc = "wait" /\ done
    /\ pc' = "status"
    /\ UNCHANGED <<left, first, read, len, remaining, start, ret, done, cmd, inflight,
                   reg, intstat, irq, irqon, wire, stale>>

(* A bug: wait_event instead of wait_event_timeout.                        *)
WaitForever == FALSE /\ UNCHANGED vars

(* ... or a second passes without it, and the transfer fails.              *)
Timeout ==
    /\ pc = "wait" /\ ~done
    /\ pc' = "idle" /\ ret' = "EIO"
    /\ UNCHANGED <<left, first, read, len, remaining, start, done, cmd, inflight, reg,
                   intstat, irq, irqon, wire, stale>>

(* The status is read.  A nack fails the transfer; otherwise the data of   *)
(* a read is taken and the next command, the next message or the end       *)
(* follows.                                                                *)
Result ==
    /\ pc = "status"
    /\ \/ /\ reg.nack
          /\ pc' = "idle" /\ ret' = "EIO"
          /\ UNCHANGED <<left, first, start, remaining>>
       \/ /\ ~reg.nack
          /\ start' = FALSE /\ remaining' = remaining - Size
          /\ \/ /\ remaining > Size
                /\ pc' = "chunk"
                /\ UNCHANGED <<left, first, ret>>
             \/ /\ remaining <= Size /\ left > 1
                /\ pc' = "msg" /\ left' = left - 1 /\ first' = FALSE
                /\ UNCHANGED ret
             \/ /\ remaining <= Size /\ left <= 1
                /\ pc' = "idle" /\ ret' = "ok" /\ left' = 0
                /\ UNCHANGED first
    /\ UNCHANGED <<read, len, done, cmd, inflight, reg, intstat, irq, irqon, wire, stale>>

---------------------------------------------------------------------------
(* The controller and the interrupt                                        *)

(* The controller completes a command.                                     *)
Complete(c, nack) ==
    /\ c \in inflight
    /\ inflight' = inflight \ {c}
    /\ reg' = [cmd |-> c, nack |-> nack]
    /\ intstat' = TRUE
    /\ UNCHANGED <<xfer, done, cmd, irq, irqon, wire, stale>>

(* tbsecp3_irq_handler reads TBSECP3_INT_STAT, ...                         *)
IrqStat ==
    /\ irqon /\ irq = "idle" /\ intstat
    /\ irq' = "read"
    /\ UNCHANGED <<xfer, done, cmd, inflight, reg, intstat, irqon, wire, stale>>

(* A bug: the I2C bits are looked at only when no DMA bit is set.          *)
ClearElse ==
    /\ irq = "read"
    /\ irq' \in {"cleared", "idle"} /\ intstat' = FALSE
    /\ UNCHANGED <<xfer, done, cmd, inflight, reg, irqon, wire, stale>>

(* ... writes it back, which clears it, ...                                *)
IrqClear ==
    /\ irq = "read"
    /\ irq' = "cleared" /\ intstat' = FALSE
    /\ UNCHANGED <<xfer, done, cmd, inflight, reg, irqon, wire, stale>>

(* ... and sets i2c->done and wakes the waiter.                            *)
IrqDone ==
    /\ irq = "cleared"
    /\ irq' = "idle" /\ done' = TRUE
    /\ UNCHANGED <<xfer, cmd, inflight, reg, intstat, irqon, wire, stale>>

(* tbsecp3_remove frees the interrupt first; the frontends that are        *)
(* detached after it still use the bus.                                    *)
FreeIrq ==
    /\ irqon /\ irq = "idle"
    /\ irqon' = FALSE
    /\ UNCHANGED <<xfer, done, cmd, inflight, reg, intstat, irq, wire, stale>>

---------------------------------------------------------------------------
Messages == \E rd \in BOOLEAN, n \in 0 .. MaxLen : Message(rd, n)

Step == Messages \/ Prepare \/ Command \/ Woken \/ Result

Next ==
    \/ \E num \in 1 .. MaxMsgs : Xfer(num)
    \/ Step
    \/ Timeout
    \/ \E c \in inflight, nack \in BOOLEAN : Complete(c, nack)
    \/ IrqStat \/ IrqClear \/ IrqDone \/ FreeIrq

(* The process runs and time passes; the controller owes nothing.          *)
Fairness == WF_vars(Step) /\ WF_vars(Timeout)

Spec == Init /\ [][Next]_vars /\ Fairness

---------------------------------------------------------------------------
(* Properties                                                              *)

(* The variables keep their ranges; what remains never becomes negative.   *)
TypeOK ==
    /\ pc \in {"idle", "msg", "chunk", "armed", "wait", "status"}
    /\ left \in Nat /\ first \in BOOLEAN /\ read \in BOOLEAN
    /\ len \in Nat /\ remaining \in Nat /\ start \in BOOLEAN
    /\ ret \in {"none", "ok", "EIO"}
    /\ done \in BOOLEAN /\ cmd \in Nat /\ inflight \subseteq 1 .. cmd
    /\ reg \in [cmd : 0 .. cmd, nack : BOOLEAN]
    /\ intstat \in BOOLEAN /\ irq \in {"idle", "read", "cleared"} /\ irqon \in BOOLEAN
    /\ open \in BOOLEAN /\ moved \in Nat /\ stale \in BOOLEAN

(* The result i2c_xfer reads is that of its own command, never that of an  *)
(* earlier one, as long as every earlier one had been completed and        *)
(* signalled when bus->done was reset.  (After a timeout it may not have   *)
(* been: bus->done carries no number.)                                     *)
OwnResult == pc = "status" /\ ~stale => reg.cmd = cmd

(* No completion is lost between the register write, the interrupt and the *)
(* wait: while i2c_xfer waits and bus->done is not set, the command is     *)
(* still running or its interrupt is on the way.  A timeout is then the    *)
(* controller's doing, not a race.                                         *)
NoLostCompletion ==
    pc = "wait" /\ ~done /\ ~stale => cmd \in inflight \/ intstat \/ irq = "cleared"

(* A message goes over the bus as one frame: a single START, a single STOP *)
(* behind the last byte, and exactly its bytes in between, however it is   *)
(* cut into commands.                                                      *)
Framed ==
    /\ (pc = "msg" /\ ~first) \/ ret = "ok" => ~open /\ moved = len
    /\ pc = "chunk" /\ ~start => open /\ moved + remaining = len

(* A transfer comes to an end even if the controller never answers and     *)
(* even when the interrupt is gone.                                        *)
XferEnds == (pc # "idle" /\ cmd < MaxCmds) ~> (pc = "idle" \/ cmd = MaxCmds)
===========================================================================
