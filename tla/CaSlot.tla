------------------------------ MODULE CaSlot ------------------------------
(***************************************************************************)
(* One slot of an EN 50221 common interface: the CAM comes and goes, the   *)
(* bridge's interrupts or the thread's polling report it, the thread takes *)
(* the CAM through reset, validation and link initialisation to RUNNING    *)
(* and fetches its fragments, while a user opens, reads, writes, resets    *)
(* and closes the ca device.  Thread and user serialise on slot_lock;      *)
(* interrupts, and several tests of slot_state, do not take it.            *)
(*                                                                         *)
(* CAMs are numbered as they are inserted.  Of a fragment it is kept       *)
(* whether more follow.                                                    *)
(***************************************************************************)
EXTENDS Integers, Sequences

CONSTANTS
    MaxRx,          \* MAX_RX_PACKETS_PER_ITERATION
    MaxEvents       \* bound on what happens to the slot: insertions, failures
                    \* and fragments of a present CAM, calls of the user

ASSUME BoundsAssumption == MaxRx \in Nat \ {0} /\ MaxEvents \in Nat

VARIABLES
    IrqMode,                    \* DVB_CA_EN50221_FLAG_IRQ_CAMCHANGE: some
                                \* bridges report changes, tbsecp3 is polled
    slot_state, type, count,    \* slot_state, camchange_type, camchange_count
    ts, rx, pktcount,           \* TS through the CAM, rx_buffer, pktcount
    lock, flags,                \* owner of slot_lock; the word of open, wakeup
    pc, reg,                    \* the thread, the interrupt and the user
    cam, cams,                  \* the CAM in the slot, how many there were
    linked,                     \* the CAM the link was initialised with
    written,                    \* fragments of a write
    events                      \* for the bound

slot == <<slot_state, type, count, ts, rx, pktcount>>
hw   == <<IrqMode, cam, cams, linked>>
vars == <<slot, lock, flags, pc, reg, hw, written, events>>

NOBODY == "nobody"
NoStore == [then |-> "none"]

Init ==
    /\ slot_state = "NONE" /\ type = "REMOVED" /\ count = 0
    /\ ts = FALSE /\ rx = <<>> /\ pktcount = 0
    /\ lock = NOBODY /\ flags = [open |-> FALSE, wakeup |-> FALSE]
    /\ pc = [thread |-> "top", irq |-> "idle", user |-> "closed"]
    /\ reg = [p \in DOMAIN pc |-> NoStore]
    /\ IrqMode \in BOOLEAN /\ cam = 0 /\ cams = 0 /\ linked = 0
    /\ written = 0 /\ events = 0

Go(p, from, to) == pc[p] = from /\ pc' = [pc EXCEPT ![p] = to]

Event == events < MaxEvents /\ events' = events + 1

(* A present CAM may fail.  Without a CAM all fails.                       *)
Fails == IF cam = 0 THEN UNCHANGED events ELSE Event
Works == cam # 0 /\ UNCHANGED events

---------------------------------------------------------------------------
(* open and wakeup are bit fields of one word: to store one of them, the   *)
(* word is loaded, changed and stored.                                     *)

Other(bit) == IF bit = "open" THEN "wakeup" ELSE "open"

(* p loads the word to store val to the bit and go on at then; wake is a   *)
(* call of dvb_ca_en50221_thread_wakeup, with its wake_up_process.         *)
Stores(p, bit, val, wake, then) ==
    /\ pc' = [pc EXCEPT ![p] = "store"]
    /\ reg' = [reg EXCEPT ![p] = [bit |-> bit, val |-> val, wake |-> wake, then |-> then,
                                  other |-> flags[Other(bit)]]]

ThreadWakeup(p, then) == Stores(p, "wakeup", TRUE, TRUE, then)

Store(p) ==
    /\ Go(p, "store", IF reg[p].wake THEN "wake" ELSE reg[p].then)
    /\ flags' = [b \in DOMAIN flags |-> IF b = reg[p].bit THEN reg[p].val ELSE reg[p].other]
    /\ reg' = [reg EXCEPT ![p] = IF reg[p].wake THEN [then |-> @.then] ELSE NoStore]
    /\ UNCHANGED <<slot, lock, hw, written, events>>

(* wake_up_process(ca->thread)                                             *)
WakeProcess(p) ==
    /\ pc[p] = "wake"
    /\ pc' = [pc EXCEPT ![p] = reg[p].then, !.thread = IF @ = "asleep" THEN "clear" ELSE @]
    /\ reg' = [reg EXCEPT ![p] = NoStore]
    /\ UNCHANGED <<slot, lock, flags, hw, written, events>>

---------------------------------------------------------------------------
(* The CAM and the interrupts of a bridge that reports its changes.  An    *)
(* interrupt is handled before the next change; the thread may lag.        *)

InsertCam ==
    /\ Event /\ cam = 0 /\ pc.irq = "idle"
    /\ cam' = cams + 1 /\ cams' = cams + 1
    /\ pc' = IF IrqMode THEN [pc EXCEPT !.irq = "inserted"] ELSE pc
    /\ UNCHANGED <<slot, lock, flags, reg, IrqMode, linked, written>>

RemoveCam ==
    /\ cam # 0 /\ pc.irq = "idle"
    /\ cam' = 0
    /\ pc' = IF IrqMode THEN [pc EXCEPT !.irq = "removed"] ELSE pc
    /\ UNCHANGED <<slot, lock, flags, reg, IrqMode, cams, linked, written, events>>

(* dvb_ca_en50221_camchange_irq: the type, the count, the wake-up.         *)
CamChangeType ==
    /\ pc.irq \in {"inserted", "removed"}
    /\ type' = IF pc.irq = "inserted" THEN "INSERTED" ELSE "REMOVED"
    /\ pc' = [pc EXCEPT !.irq = "count"]
    /\ UNCHANGED <<slot_state, count, ts, rx, pktcount, lock, flags, reg, hw, written, events>>

CamChangeCount ==
    /\ pc.irq = "count"
    /\ count' = count + 1
    /\ ThreadWakeup("irq", "idle")
    /\ UNCHANGED <<slot_state, type, ts, rx, pktcount, lock, flags, hw, written, events>>

(* dvb_ca_en50221_camready_irq: it tests the state, and sets it.           *)
CamReady ==
    /\ IrqMode /\ cam # 0
    /\ slot_state = "WAITREADY"
    /\ Go("irq", "idle", "ready")
    /\ UNCHANGED <<slot, lock, flags, reg, hw, written, events>>

CamReadySet ==
    /\ pc.irq = "ready"
    /\ slot_state' = "VALIDATE"
    /\ ThreadWakeup("irq", "idle")
    /\ UNCHANGED <<type, count, ts, rx, pktcount, lock, flags, hw, written, events>>

(* dvb_ca_en50221_frda_irq in state RUNNING, with the device open: the CAM *)
(* has a fragment (IRQEN enables the DA interrupt only).                   *)
FrDa ==
    /\ IrqMode /\ cam # 0 /\ events < MaxEvents /\ pc.irq = "idle"
    /\ slot_state = "RUNNING" /\ flags.open
    /\ ThreadWakeup("irq", "idle")
    /\ UNCHANGED <<slot, lock, flags, hw, written, events>>

---------------------------------------------------------------------------
(* dvb_ca_en50221_thread: the main loop                                    *)

(* if (!ca->wakeup) ... set_current_state ... schedule_timeout             *)
Top ==
    /\ Go("thread", "top", IF flags.wakeup THEN "clear" ELSE "nap")
    /\ UNCHANGED <<slot, lock, flags, reg, hw, written, events>>

Sleep ==
    /\ Go("thread", "nap", "asleep")
    /\ UNCHANGED <<slot, lock, flags, reg, hw, written, events>>

Timeout ==
    /\ Go("thread", "asleep", "clear")
    /\ UNCHANGED <<slot, lock, flags, reg, hw, written, events>>

ClearWakeup ==
    /\ pc.thread = "clear"
    /\ Stores("thread", "wakeup", FALSE, FALSE, "lock")
    /\ UNCHANGED <<slot, lock, flags, hw, written, events>>

LockSlot ==
    /\ lock = NOBODY /\ lock' = "thread"
    /\ Go("thread", "lock", "check")
    /\ UNCHANGED <<slot, flags, reg, hw, written, events>>

UnlockSlot ==
    /\ Go("thread", "unlock", "top")
    /\ lock' = NOBODY
    /\ UNCHANGED <<slot, flags, reg, hw, written, events>>

---------------------------------------------------------------------------
(* dvb_ca_en50221_thread_state_machine: changes of the CAM                 *)

(* dvb_ca_en50221_check_camstatus.  Polling, tbsecp3 reports the CAM as    *)
(* ready as soon as it is there, and never as changed.                     *)
Polled  == cam # 0
Changed == IF IrqMode THEN count # 0 ELSE Polled # (slot_state # "NONE")

NoteChange ==
    IF ~IrqMode /\ Changed
      THEN type' = (IF Polled THEN "INSERTED" ELSE "REMOVED") /\ count' = 1
      ELSE UNCHANGED <<type, count>>

CheckCamStatus ==
    /\ Go("thread", "check", IF Changed THEN "shutdown" ELSE "machine")
    /\ NoteChange
    /\ slot_state' = IF ~IrqMode /\ ~Changed /\ slot_state = "WAITREADY" /\ Polled
                       THEN "VALIDATE" ELSE slot_state
    /\ UNCHANGED <<ts, rx, pktcount, lock, flags, reg, hw, written, events>>

(* A bug: only the bridge's slot is shut down.                             *)
ShutdownKeepsState == ts' = FALSE /\ UNCHANGED slot_state

(* dvb_ca_en50221_slot_shutdown, for the thread and for CA_RESET.          *)
Shutdown == ts' = FALSE /\ slot_state' = "NONE"

ChangeShutdown ==
    /\ Go("thread", "shutdown", "renew")
    /\ IF slot_state # "NONE" THEN Shutdown ELSE UNCHANGED <<ts, slot_state>>
    /\ UNCHANGED <<type, count, rx, pktcount, lock, flags, reg, hw, written, events>>

ChangeRenew ==
    /\ Go("thread", "renew", "handled")
    /\ slot_state' = IF type = "INSERTED" THEN "UNINITIALISED" ELSE slot_state
    /\ UNCHANGED <<type, count, ts, rx, pktcount, lock, flags, reg, hw, written, events>>

(* A bug: the count is reset, as it is a flag.                             *)
HandledAll == 0

(* atomic_dec(&sl->camchange_count)                                        *)
Handled == count - 1

ChangeHandled ==
    /\ Go("thread", "handled", "check")
    /\ count' = Handled
    /\ UNCHANGED <<slot_state, type, ts, rx, pktcount, lock, flags, reg, hw, written, events>>

---------------------------------------------------------------------------
(* dvb_ca_en50221_thread_state_machine: the states                         *)

In(state) == pc.thread = "machine" /\ slot_state = state

(* The slot goes to a state and the thread to the end of its iteration.    *)
Becomes(state) ==
    /\ slot_state' = state
    /\ pc' = [pc EXCEPT !.thread = "unlock"] /\ UNCHANGED reg

(* ... with ca->wakeup = 1.                                                *)
BecomesAwake(state) ==
    /\ slot_state' = state
    /\ Stores("thread", "wakeup", TRUE, FALSE, "unlock")

(* dvb_ca_en50221_poll_cam_gone: the state of a failure, or NONE.          *)
PollCamGone(state) == Becomes(IF ~IrqMode /\ ~Polled THEN "NONE" ELSE state)

Idle ==
    /\ In("NONE") \/ In("INVALID")
    /\ Becomes(slot_state) /\ UNCHANGED <<events, pktcount>>

Uninitialised == In("UNINITIALISED") /\ Becomes("WAITREADY") /\ UNCHANGED <<events, pktcount>>

(* WAITREADY ends when the CAM is ready (CamReady, CheckCamStatus).        *)
WaitReady == In("WAITREADY") /\ Becomes("WAITREADY") /\ UNCHANGED <<events, pktcount>>

(* time_after(jiffies, sl->timeout)                                        *)
Expired ==
    /\ In("WAITREADY") \/ In("WAITFR")
    /\ Becomes("INVALID") /\ UNCHANGED <<events, pktcount>>

(* parse_attributes, set_configoption and the reset of the interface.      *)
Validate ==
    /\ In("VALIDATE")
    /\ \/ PollCamGone("INVALID") /\ Fails
       \/ Becomes("INVALID") /\ Fails
       \/ BecomesAwake("WAITFR") /\ Works
    /\ UNCHANGED pktcount

WaitFr ==
    /\ In("WAITFR")
    /\ \/ Becomes("WAITFR") /\ UNCHANGED events
       \/ BecomesAwake("LINKINIT") /\ Works
    /\ UNCHANGED pktcount

(* The first half of dvb_ca_en50221_link_init; the second, and what comes  *)
(* after it, is LinkDone.                                                  *)
LinkInit ==
    /\ In("LINKINIT")
    /\ pc' = [pc EXCEPT !.thread = "link"]
    /\ UNCHANGED <<slot_state, reg, events, pktcount>>

Running ==
    /\ In("RUNNING")
    /\ pktcount' = 0
    /\ pc' = [pc EXCEPT !.thread = IF flags.open THEN "data" ELSE "unlock"]
    /\ UNCHANGED <<slot_state, reg, events>>

StateMachine ==
    /\ Idle \/ Uninitialised \/ WaitReady \/ Expired \/ Validate \/ WaitFr \/ LinkInit \/ Running
    /\ UNCHANGED <<type, count, ts, rx, lock, flags, hw, written>>

LinkFails ==
    /\ pc.thread = "link"
    /\ PollCamGone("UNINITIALISED") /\ Fails
    /\ UNCHANGED <<type, count, ts, rx, pktcount, lock, flags, hw, written>>

LinkDone ==
    /\ pc.thread = "link"
    /\ Works /\ Becomes("RUNNING")
    /\ ts' = TRUE
    /\ linked' = cam
    /\ UNCHANGED <<type, count, rx, pktcount, lock, flags, IrqMode, cam, cams, written>>

(* dvb_ca_en50221_read_data: nothing there, a fragment, or an error after  *)
(* which the link is initialised again.                                    *)
NoData ==
    /\ Go("thread", "data", "unlock")
    /\ UNCHANGED <<slot, lock, flags, reg, hw, written, events>>

ReadData(more) ==
    /\ cam # 0 /\ Event
    /\ Go("thread", "data", "more")
    /\ rx' = Append(rx, more)
    /\ UNCHANGED <<slot_state, type, count, ts, pktcount, lock, flags, reg, hw, written>>

ReadError ==
    /\ pc.thread = "data"
    /\ Becomes("LINKINIT") /\ Fails
    /\ UNCHANGED <<type, count, ts, rx, pktcount, lock, flags, hw, written>>

(* After a fragment: the device was closed, the CAM has changed, the limit *)
(* of an iteration is reached, or the next one is read.                    *)
MoreData ==
    /\ pc.thread = "more"
    /\ IF flags.open THEN NoteChange ELSE UNCHANGED <<type, count>>
    /\ pktcount' = IF flags.open /\ ~Changed THEN pktcount + 1 ELSE pktcount
    /\ IF flags.open /\ (Changed \/ pktcount' >= MaxRx)
         THEN Stores("thread", "wakeup", TRUE, FALSE, "unlock")
         ELSE /\ pc' = [pc EXCEPT !.thread = IF flags.open THEN "data" ELSE "unlock"]
              /\ UNCHANGED reg
    /\ UNCHANGED <<slot_state, ts, rx, lock, flags, hw, written, events>>

---------------------------------------------------------------------------
(* The user of the ca device                                               *)

Calls == pc.user = "ready" /\ Event

(* dvb_ca_en50221_io_open: its test of rx_buffer.data never lets it flush  *)
(* a buffer that is there.                                                 *)
IoOpen ==
    /\ pc.user = "closed" /\ Event
    /\ Stores("user", "open", TRUE, FALSE, "opened")
    /\ UNCHANGED <<slot, lock, flags, hw, written>>

IoOpenWakes ==
    /\ pc.user = "opened"
    /\ ThreadWakeup("user", "ready")
    /\ UNCHANGED <<slot, lock, flags, hw, written, events>>

IoRelease ==
    /\ pc.user = "ready"
    /\ Stores("user", "open", FALSE, FALSE, "closed")
    /\ UNCHANGED <<slot, lock, flags, hw, written, events>>

(* The fragments of the first message, if its last one is there.           *)
Ends    == {i \in DOMAIN rx : ~rx[i]}
Message == IF Ends = {} THEN <<>> ELSE SubSeq(rx, 1, CHOOSE i \in Ends : \A j \in Ends : i <= j)

(* dvb_ca_en50221_io_read: see CaRxBuffer.                                 *)
IoRead ==
    /\ pc.user = "ready"
    /\ slot_state = "RUNNING" /\ Message # <<>>
    /\ rx' = SubSeq(rx, Len(Message) + 1, Len(rx))
    /\ UNCHANGED <<slot_state, type, count, ts, pktcount, lock, flags, pc, reg, hw, written, events>>

(* dvb_ca_en50221_io_write of a message of two fragments: the slot is      *)
(* RUNNING, and before each fragment it still is.                          *)
IoWrite ==
    /\ Calls
    /\ slot_state = "RUNNING"
    /\ pc' = [pc EXCEPT !.user = "fragment"]
    /\ UNCHANGED <<slot, lock, flags, reg, hw, written>>

CheckRunning ==
    /\ Go("user", "fragment", IF slot_state = "RUNNING" THEN "wlock" ELSE "written")
    /\ UNCHANGED <<slot, lock, flags, reg, hw, written, events>>

LockWrite ==
    /\ lock = NOBODY /\ lock' = "user"
    /\ Go("user", "wlock", "write")
    /\ UNCHANGED <<slot, flags, reg, hw, written, events>>

(* dvb_ca_en50221_write_data: the fragment is written; ...                 *)
WriteData ==
    /\ pc.user = "write" /\ lock' = NOBODY
    /\ Works
    /\ written' = written + 1
    /\ pc' = [pc EXCEPT !.user = IF written' = 2 THEN "written" ELSE "fragment"]
    /\ UNCHANGED <<slot, flags, reg, hw>>

(* ... it is not: -EAGAIN, to be tried again until half a second is over,  *)
(* another error, or a write error (WE) after which the link is            *)
(* initialised again; ...                                                  *)
WriteFails ==
    /\ pc.user = "write" /\ lock' = NOBODY
    /\ Fails
    /\ \/ pc' = [pc EXCEPT !.user = "fragment"] /\ UNCHANGED slot_state
       \/ pc' = [pc EXCEPT !.user = "written"] /\ slot_state' \in {slot_state, "LINKINIT"}
    /\ UNCHANGED <<type, count, ts, rx, pktcount, flags, reg, hw, written>>

(* ... or the CAM has data, for which the thread is woken.                 *)
WriteWakes ==
    /\ pc.user = "write"
    /\ Fails
    /\ ThreadWakeup("user", "again")
    /\ UNCHANGED <<slot, lock, flags, hw, written>>

WriteAgain ==
    /\ Go("user", "again", "fragment")
    /\ lock' = NOBODY
    /\ UNCHANGED <<slot, flags, reg, hw, written, events>>

WriteReturns ==
    /\ Go("user", "written", "ready")
    /\ written' = 0
    /\ UNCHANGED <<slot, lock, flags, reg, hw, events>>

(* The ioctl CA_RESET                                                      *)
CaReset ==
    /\ Calls
    /\ lock = NOBODY /\ lock' = "user"
    /\ pc' = [pc EXCEPT !.user = "reset"]
    /\ UNCHANGED <<slot, flags, reg, hw, written>>

ResetShutdown ==
    /\ pc.user = "reset"
    /\ IF slot_state = "NONE"
         THEN /\ UNCHANGED <<slot_state, ts>>
              /\ pc' = [pc EXCEPT !.user = "runlock"]
         ELSE /\ Shutdown
              /\ pc' = [pc EXCEPT !.user = IF IrqMode THEN "rtype" ELSE "runlock"]
    /\ UNCHANGED <<type, count, rx, pktcount, lock, flags, reg, hw, written, events>>

(* ... which calls camchange_irq as if a CAM had been inserted.            *)
ResetType ==
    /\ Go("user", "rtype", "rcount")
    /\ type' = "INSERTED"
    /\ UNCHANGED <<slot_state, count, ts, rx, pktcount, lock, flags, reg, hw, written, events>>

ResetCount ==
    /\ pc.user = "rcount"
    /\ count' = count + 1
    /\ ThreadWakeup("user", "runlock")
    /\ UNCHANGED <<slot_state, type, ts, rx, pktcount, lock, flags, hw, written, events>>

ResetUnlock ==
    /\ pc.user = "runlock"
    /\ lock' = NOBODY
    /\ ThreadWakeup("user", "ready")
    /\ UNCHANGED <<slot, flags, hw, written, events>>

---------------------------------------------------------------------------
Thread ==
    \/ Store("thread")
    \/ Top \/ Sleep \/ Timeout \/ ClearWakeup \/ LockSlot \/ UnlockSlot
    \/ CheckCamStatus \/ ChangeShutdown \/ ChangeRenew \/ ChangeHandled
    \/ StateMachine \/ LinkFails \/ LinkDone
    \/ NoData \/ (\E more \in BOOLEAN : ReadData(more)) \/ ReadError \/ MoreData

Irq ==
    \/ Store("irq") \/ WakeProcess("irq")
    \/ CamChangeType \/ CamChangeCount \/ CamReadySet

User ==
    \/ Store("user") \/ WakeProcess("user")
    \/ IoOpenWakes \/ CheckRunning \/ LockWrite \/ WriteData \/ WriteFails
    \/ WriteWakes \/ WriteAgain \/ WriteReturns
    \/ ResetShutdown \/ ResetType \/ ResetCount \/ ResetUnlock

Environment ==
    InsertCam \/ RemoveCam \/ CamReady \/ FrDa \/ IoOpen \/ IoRelease \/ IoRead \/ IoWrite \/ CaReset

Next == Thread \/ Irq \/ User \/ Environment

(* The thread runs, gets the mutex in its turn, and looks at a state that  *)
(* is waited in when its time is over; interrupts and calls that have      *)
(* begun are finished.  CAM and user owe nothing.                          *)
Fairness ==
    /\ WF_vars(Thread) /\ SF_vars(LockSlot)
    /\ SF_vars(Expired /\ UNCHANGED <<type, count, ts, rx, lock, flags, hw, written>>)
    /\ WF_vars(Irq) /\ WF_vars(User)

Spec == Init /\ [][Next]_vars /\ Fairness

---------------------------------------------------------------------------
(* Properties                                                              *)

States == {"NONE", "UNINITIALISED", "WAITREADY", "VALIDATE", "WAITFR", "LINKINIT", "RUNNING", "INVALID"}

TypeOK ==
    /\ slot_state \in States /\ type \in {"INSERTED", "REMOVED"}
    /\ count \in 0 .. 2 * MaxEvents
    /\ ts \in BOOLEAN /\ lock \in {NOBODY, "thread", "user"}
    /\ flags \in [open : BOOLEAN, wakeup : BOOLEAN]
    /\ Len(rx) <= MaxEvents /\ pktcount <= MaxRx /\ written \in 0 .. 2
    /\ cam \in 0 .. cams /\ linked \in 0 .. cams

(* Where the bridge reports changes the thread counts them and misses      *)
(* none: a slot that is RUNNING with no change outstanding talks to the    *)
(* CAM that is in it, whenever the CAM was exchanged during initialisation *)
(* or transfer, and the stream does not go through a slot in state NONE.   *)
FollowsCam ==
    /\ TypeOK
    /\ IrqMode =>
         /\ slot_state = "RUNNING" /\ count = 0 /\ pc.irq \notin {"inserted", "removed", "count"}
              => linked = cam
         /\ slot_state = "NONE" => ~ts

(* When nothing happens to the slot any more it comes to rest: a CAM that  *)
(* is there runs or was found invalid, one that is not does not run.       *)
Settles ==
    <>[](slot_state \in IF cam = 0 THEN {"NONE", "INVALID"} ELSE {"RUNNING", "INVALID"})
===========================================================================
