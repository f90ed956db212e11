------------------------- MODULE Tbsecp3I2c_proofs -------------------------
(***************************************************************************)
(* The safety properties of the I2C bus, for every command size, message   *)
(* length and number of commands.                                          *)
(***************************************************************************)
EXTENDS Tbsecp3I2c, TLAPS

(* Once bus->done was reset with nothing outstanding, the only command     *)
(* that can be running, signalled or seen is the last one.                 *)
Quiet == inflight = {} /\ ~intstat /\ irq = "idle"

Signalled == intstat \/ irq # "idle" \/ done

OneCommand ==
    ~stale =>
      /\ pc = "armed" => Quiet /\ ~done
      /\ pc \in {"wait", "status"} =>
           /\ inflight \subseteq {cmd}
           /\ Signalled => cmd \notin inflight /\ reg.cmd = cmd
           /\ ~Signalled => cmd \in inflight
      /\ pc = "status" => done

(* The handler has read the bit before it clears it.                       *)
HandlerSaw == irq = "read" => intstat

(* How much of the message is on the bus at each point of the loop.        *)
Frame ==
    /\ pc \in {"chunk", "armed"} =>
         IF start THEN remaining = len ELSE open /\ moved + remaining = len /\ remaining > 0
    /\ pc \in {"wait", "status"} =>
         /\ moved + remaining = len + Size
         /\ open <=> remaining > xfer_max
    /\ (pc = "msg" /\ ~first) \/ ret = "ok" => ~open /\ moved = len

RetIsNone == pc # "idle" => ret = "none"

IInv == TypeOK /\ OneCommand /\ HandlerSaw /\ Frame /\ RetIsNone

(* Init establishes the invariant.                                         *)
LEMMA InitIInv == Init => IInv
<1> SUFFICES ASSUME Init PROVE IInv
  OBVIOUS
<1>1. TypeOK
  <2>1. /\ left \in Nat /\ len \in Nat /\ remaining \in Nat /\ cmd \in Nat /\ moved \in Nat
        /\ inflight \subseteq 1 .. cmd /\ cmd \in 0 .. cmd
    BY DEF Init
  <2>2. reg \in [cmd : 0 .. cmd, nack : BOOLEAN]
    BY <2>1 DEF Init
  <2> QED
    BY <2>1, <2>2, Zenon DEF Init, TypeOK
<1>2. OneCommand /\ HandlerSaw /\ RetIsNone
  BY DEF Init, OneCommand, HandlerSaw, RetIsNone
<1>3. Frame
  BY DEF Init, Frame
<1> QED
  BY <1>1, <1>2, <1>3 DEF IInv

(* What a command moves is never more than what remains.                   *)
LEMMA SizeFacts ==
    ASSUME TypeOK
    PROVE  /\ xfer_max \in Nat \ {0} /\ Size \in Nat
           /\ Size <= remaining /\ (remaining <= Size <=> remaining <= xfer_max)
BY SizesAssumption DEF TypeOK, Size, xfer_max

(* Every step of the driver, the controller and the interrupt preserves    *)
(* the invariant.                                                          *)
LEMMA NextIInv == IInv /\ [Next]_vars => IInv'
<1> SUFFICES ASSUME IInv, [Next]_vars PROVE IInv'
  OBVIOUS
<1> USE SizesAssumption, BoundsAssumption
<1>a. TypeOK /\ OneCommand /\ HandlerSaw /\ Frame /\ RetIsNone
  BY DEF IInv
<1>b. /\ xfer_max \in Nat \ {0} /\ Size \in Nat
      /\ Size <= remaining /\ (remaining <= Size <=> remaining <= xfer_max)
  BY <1>a, SizeFacts
<1>1. ASSUME NEW num \in 1 .. MaxMsgs, Xfer(num) PROVE IInv'
  <2>1. TypeOK'
    BY <1>a, <1>b, <1>1 DEF TypeOK, Xfer, xfer, wire, vars
  <2>2. OneCommand'
    BY <1>a, <1>1 DEF TypeOK, OneCommand, HandlerSaw, Quiet, Signalled, Xfer, xfer, wire,
         vars
  <2>3. HandlerSaw'
    BY <1>a, <1>1 DEF TypeOK, HandlerSaw, Xfer, xfer, wire, vars
  <2>4. Frame'
    BY <1>a, <1>b, <1>1 DEF TypeOK, Frame, RetIsNone, Size, Stop, xfer_max, Xfer, xfer,
         wire, vars
  <2>5. RetIsNone'
    BY <1>a, <1>1 DEF RetIsNone, Xfer, xfer, wire, vars
  <2> QED
    BY <2>1, <2>2, <2>3, <2>4, <2>5 DEF IInv
<1>2. ASSUME NEW rd \in BOOLEAN, NEW n \in 0 .. MaxLen, Message(rd, n) PROVE IInv'
  <2>1. TypeOK'
    BY <1>a, <1>b, <1>2 DEF TypeOK, Message, xfer, wire, vars
  <2>2. OneCommand'
    BY <1>a, <1>2 DEF TypeOK, OneCommand, HandlerSaw, Quiet, Signalled, Message, xfer,
         wire, vars
  <2>3. HandlerSaw'
    BY <1>a, <1>2 DEF TypeOK, HandlerSaw, Message, xfer, wire, vars
  <2>4. Frame'
    BY <1>a, <1>b, <1>2 DEF TypeOK, Frame, RetIsNone, Size, Stop, xfer_max, Message,
         xfer, wire, vars
  <2>5. RetIsNone'
    BY <1>a, <1>2 DEF RetIsNone, Message, xfer, wire, vars
  <2> QED
    BY <2>1, <2>2, <2>3, <2>4, <2>5 DEF IInv
<1>3. CASE Prepare
  <2>1. TypeOK'
    BY <1>a, <1>b, <1>3 DEF TypeOK, Prepare, xfer, wire, vars
  <2>2. OneCommand'
    BY <1>a, <1>3 DEF TypeOK, OneCommand, HandlerSaw, Quiet, Signalled, Prepare, xfer,
         wire, vars
  <2>3. HandlerSaw'
    BY <1>a, <1>3 DEF TypeOK, HandlerSaw, Prepare, xfer, wire, vars
  <2>4. Frame'
    BY <1>a, <1>b, <1>3 DEF TypeOK, Frame, RetIsNone, Size, Stop, xfer_max, Prepare,
         xfer, wire, vars
  <2>5. RetIsNone'
    BY <1>a, <1>3 DEF RetIsNone, Prepare, xfer, wire, vars
  <2> QED
    BY <2>1, <2>2, <2>3, <2>4, <2>5 DEF IInv
<1>4. CASE Command
  <2>1. TypeOK'
    BY <1>a, <1>b, <1>4 DEF TypeOK, Command, xfer, wire, vars
  <2>2. OneCommand'
    BY <1>a, <1>4 DEF TypeOK, OneCommand, HandlerSaw, Quiet, Signalled, Command, xfer,
         wire, vars
  <2>3. HandlerSaw'
    BY <1>a, <1>4 DEF TypeOK, HandlerSaw, Command, xfer, wire, vars
  <2>4. Frame'
    <3>1. /\ pc = "armed" /\ pc' = "wait" /\ ret' = ret /\ ret = "none"
          /\ remaining' = remaining /\ len' = len /\ read' = read
          /\ open' = ~(remaining <= xfer_max)
          /\ moved' = (IF start THEN 0 ELSE moved) + Size
      BY <1>a, <1>4 DEF Command, Stop, RetIsNone
    <3>2. xfer_max' = xfer_max /\ Size' = Size
      BY <3>1 DEF xfer_max, Size
    <3>3. IF start THEN remaining = len ELSE moved + remaining = len
      BY <1>a, <3>1 DEF Frame
    <3>4. moved' + remaining' = len' + Size'
      BY <1>a, <1>b, <3>1, <3>2, <3>3 DEF TypeOK
    <3>5. open' <=> remaining' > xfer_max'
      <4>1. remaining \in Nat
        BY <1>a DEF TypeOK
      <4>2. ~(remaining <= xfer_max) <=> remaining > xfer_max
        BY <1>b, <4>1
      <4> QED
        BY <3>1, <3>2, <4>2, Zenon
    <3> QED
      BY <3>1, <3>4, <3>5 DEF Frame
  <2>5. RetIsNone'
    BY <1>a, <1>4 DEF RetIsNone, Command, xfer, wire, vars
  <2> QED
    BY <2>1, <2>2, <2>3, <2>4, <2>5 DEF IInv
<1>5. CASE Woken
  <2>1. TypeOK'
    BY <1>a, <1>b, <1>5 DEF TypeOK, Woken, xfer, wire, vars
  <2>2. OneCommand'
    BY <1>a, <1>5 DEF TypeOK, OneCommand, HandlerSaw, Quiet, Signalled, Woken, xfer,
         wire, vars
  <2>3. HandlerSaw'
    BY <1>a, <1>5 DEF TypeOK, HandlerSaw, Woken, xfer, wire, vars
  <2>4. Frame'
    BY <1>a, <1>b, <1>5 DEF TypeOK, Frame, RetIsNone, Size, Stop, xfer_max, Woken, xfer,
         wire, vars
  <2>5. RetIsNone'
    BY <1>a, <1>5 DEF RetIsNone, Woken, xfer, wire, vars
  <2> QED
    BY <2>1, <2>2, <2>3, <2>4, <2>5 DEF IInv
<1>6. CASE Timeout
  <2>1. TypeOK'
    BY <1>a, <1>b, <1>6 DEF TypeOK, Timeout, xfer, wire, vars
  <2>2. OneCommand'
    BY <1>a, <1>6 DEF TypeOK, OneCommand, HandlerSaw, Quiet, Signalled, Timeout, xfer,
         wire, vars
  <2>3. HandlerSaw'
    BY <1>a, <1>6 DEF TypeOK, HandlerSaw, Timeout, xfer, wire, vars
  <2>4. Frame'
    BY <1>a, <1>b, <1>6 DEF TypeOK, Frame, RetIsNone, Size, Stop, xfer_max, Timeout,
         xfer, wire, vars
  <2>5. RetIsNone'
    BY <1>a, <1>6 DEF RetIsNone, Timeout, xfer, wire, vars
  <2> QED
    BY <2>1, <2>2, <2>3, <2>4, <2>5 DEF IInv
<1>7. CASE Result
  <2>1. TypeOK'
    <3>1. remaining - Size \in Nat
      BY <1>a, <1>b DEF TypeOK
    <3>2. /\ pc' \in {"idle", "chunk", "msg"} /\ ret' \in {"none", "ok", "EIO"}
          /\ left' \in Nat /\ remaining' \in Nat
      BY <1>a, <1>7, <3>1 DEF TypeOK, Result
    <3>3. first' \in BOOLEAN /\ start' \in BOOLEAN
      BY <1>a, <1>7, Zenon DEF TypeOK, Result
    <3>4. UNCHANGED <<read, len, done, cmd, inflight, reg, intstat, irq, irqon, wire, stale>>
      BY <1>7 DEF Result
    <3> QED
      BY <1>a, <3>2, <3>3, <3>4 DEF TypeOK, wire
  <2>2. OneCommand'
    BY <1>a, <1>7 DEF TypeOK, OneCommand, HandlerSaw, Quiet, Signalled, Result, xfer,
         wire, vars
  <2>3. HandlerSaw'
    BY <1>a, <1>7 DEF TypeOK, HandlerSaw, Result, xfer, wire, vars
  <2>4. Frame'
    BY <1>a, <1>b, <1>7 DEF TypeOK, Frame, RetIsNone, Size, Stop, xfer_max, Result, xfer,
         wire, vars
  <2>5. RetIsNone'
    BY <1>a, <1>7 DEF RetIsNone, Result, xfer, wire, vars
  <2> QED
    BY <2>1, <2>2, <2>3, <2>4, <2>5 DEF IInv
<1>8. ASSUME NEW c \in inflight, NEW nack \in BOOLEAN, Complete(c, nack) PROVE IInv'
  <2>1. TypeOK'
    BY <1>a, <1>b, <1>8 DEF TypeOK, Complete, xfer, wire, vars
  <2>2. OneCommand'
    BY <1>a, <1>8 DEF TypeOK, OneCommand, HandlerSaw, Quiet, Signalled, Complete, xfer,
         wire, vars
  <2>3. HandlerSaw'
    BY <1>a, <1>8 DEF TypeOK, HandlerSaw, Complete, xfer, wire, vars
  <2>4. Frame'
    BY <1>a, <1>b, <1>8 DEF TypeOK, Frame, RetIsNone, Size, Stop, xfer_max, Complete,
         xfer, wire, vars
  <2>5. RetIsNone'
    BY <1>a, <1>8 DEF RetIsNone, Complete, xfer, wire, vars
  <2> QED
    BY <2>1, <2>2, <2>3, <2>4, <2>5 DEF IInv
<1>9. CASE IrqStat
  <2>1. TypeOK'
    BY <1>a, <1>b, <1>9 DEF TypeOK, IrqStat, xfer, wire, vars
  <2>2. OneCommand'
    BY <1>a, <1>9 DEF TypeOK, OneCommand, HandlerSaw, Quiet, Signalled, IrqStat, xfer,
         wire, vars
  <2>3. HandlerSaw'
    BY <1>a, <1>9 DEF TypeOK, HandlerSaw, IrqStat, xfer, wire, vars
  <2>4. Frame'
    BY <1>a, <1>b, <1>9 DEF TypeOK, Frame, RetIsNone, Size, Stop, xfer_max, IrqStat,
         xfer, wire, vars
  <2>5. RetIsNone'
    BY <1>a, <1>9 DEF RetIsNone, IrqStat, xfer, wire, vars
  <2> QED
    BY <2>1, <2>2, <2>3, <2>4, <2>5 DEF IInv
<1>10. CASE IrqClear
  <2>1. TypeOK'
    <3>1. UNCHANGED <<pc, left, first, read, len, remaining, start, ret, done, cmd, inflight,
                      reg, open, moved, stale>>
      BY <1>10 DEF IrqClear, xfer, wire
    <3>2. intstat' \in BOOLEAN /\ irq' \in {"idle", "read", "cleared"} /\ irqon' \in BOOLEAN
      BY <1>a, <1>10 DEF TypeOK, IrqClear
    <3> QED
      BY <1>a, <3>1, <3>2 DEF TypeOK
  <2>2. OneCommand'
    BY <1>a, <1>10 DEF TypeOK, OneCommand, HandlerSaw, Quiet, Signalled, IrqClear, xfer,
         wire, vars
  <2>3. HandlerSaw'
    BY <1>a, <1>10 DEF TypeOK, HandlerSaw, IrqClear, xfer, wire, vars
  <2>4. Frame'
    BY <1>a, <1>b, <1>10 DEF TypeOK, Frame, RetIsNone, Size, Stop, xfer_max, IrqClear,
         xfer, wire, vars
  <2>5. RetIsNone'
    BY <1>a, <1>10 DEF RetIsNone, IrqClear, xfer, wire, vars
  <2> QED
    BY <2>1, <2>2, <2>3, <2>4, <2>5 DEF IInv
<1>11. CASE IrqDone
  <2>1. TypeOK'
    BY <1>a, <1>b, <1>11 DEF TypeOK, IrqDone, xfer, wire, vars
  <2>2. OneCommand'
    BY <1>a, <1>11 DEF TypeOK, OneCommand, HandlerSaw, Quiet, Signalled, IrqDone, xfer,
         wire, vars
  <2>3. HandlerSaw'
    BY <1>a, <1>11 DEF TypeOK, HandlerSaw, IrqDone, xfer, wire, vars
  <2>4. Frame'
    BY <1>a, <1>b, <1>11 DEF TypeOK, Frame, RetIsNone, Size, Stop, xfer_max, IrqDone,
         xfer, wire, vars
  <2>5. RetIsNone'
    BY <1>a, <1>11 DEF RetIsNone, IrqDone, xfer, wire, vars
  <2> QED
    BY <2>1, <2>2, <2>3, <2>4, <2>5 DEF IInv
<1>12. CASE FreeIrq
  <2>1. TypeOK'
    <3>1. UNCHANGED <<pc, left, first, read, len, remaining, start, ret, done, cmd, inflight,
                      reg, open, moved, stale>>
      BY <1>12 DEF FreeIrq, xfer, wire
    <3>2. intstat' \in BOOLEAN /\ irq' \in {"idle", "read", "cleared"} /\ irqon' \in BOOLEAN
      BY <1>a, <1>12 DEF TypeOK, FreeIrq
    <3> QED
      BY <1>a, <3>1, <3>2 DEF TypeOK
  <2>2. OneCommand'
    BY <1>a, <1>12 DEF TypeOK, OneCommand, HandlerSaw, Quiet, Signalled, FreeIrq, xfer,
         wire, vars
  <2>3. HandlerSaw'
    BY <1>a, <1>12 DEF TypeOK, HandlerSaw, FreeIrq, xfer, wire, vars
  <2>4. Frame'
    BY <1>a, <1>b, <1>12 DEF TypeOK, Frame, RetIsNone, Size, Stop, xfer_max, FreeIrq,
         xfer, wire, vars
  <2>5. RetIsNone'
    BY <1>a, <1>12 DEF RetIsNone, FreeIrq, xfer, wire, vars
  <2> QED
    BY <2>1, <2>2, <2>3, <2>4, <2>5 DEF IInv
<1>13. CASE UNCHANGED vars
  <2>1. TypeOK'
    BY <1>a, <1>b, <1>13 DEF TypeOK, xfer, wire, vars
  <2>2. OneCommand'
    BY <1>a, <1>13 DEF TypeOK, OneCommand, HandlerSaw, Quiet, Signalled, xfer, wire, vars
  <2>3. HandlerSaw'
    BY <1>a, <1>13 DEF TypeOK, HandlerSaw, xfer, wire, vars
  <2>4. Frame'
    BY <1>a, <1>b, <1>13 DEF TypeOK, Frame, RetIsNone, Size, Stop, xfer_max, xfer, wire,
         vars
  <2>5. RetIsNone'
    BY <1>a, <1>13 DEF RetIsNone, xfer, wire, vars
  <2> QED
    BY <2>1, <2>2, <2>3, <2>4, <2>5 DEF IInv
<1> QED
  BY <1>1, <1>2, <1>3, <1>4, <1>5, <1>6, <1>7, <1>8, <1>9, <1>10, <1>11, <1>12,
       <1>13 DEF Next, Step, Messages

(* The invariant holds in every behaviour.                                 *)
THEOREM Invariance == Spec => []IInv
<1>1. Init => IInv
  BY InitIInv
<1>2. IInv /\ [Next]_vars => IInv'
  BY NextIInv
<1> QED
  BY <1>1, <1>2, PTL DEF Spec

(* i2c_xfer never counts below zero: every variable keeps its range.       *)
THEOREM TypeCorrect == Spec => []TypeOK
<1>1. IInv => TypeOK
  BY DEF IInv
<1> QED
  BY <1>1, Invariance, PTL

(* i2c_xfer reads the result of its own command.                           *)
THEOREM ResultIsOwn == Spec => []OwnResult
<1>1. IInv => OwnResult
  BY DEF IInv, OwnResult, OneCommand, Signalled
<1> QED
  BY <1>1, Invariance, PTL

(* A waiting i2c_xfer cannot miss the completion of its command.           *)
THEOREM CompletionIsSeen == Spec => []NoLostCompletion
<1>1. IInv => NoLostCompletion
  BY DEF IInv, TypeOK, NoLostCompletion, OneCommand, HandlerSaw, Signalled
<1> QED
  BY <1>1, Invariance, PTL

(* Every message is one frame on the bus.                                  *)
THEOREM MessagesAreFramed == Spec => []Framed
<1>1. IInv => Framed
  BY DEF IInv, Frame, Framed
<1> QED
  BY <1>1, Invariance, PTL
===========================================================================
