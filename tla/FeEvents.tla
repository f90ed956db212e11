------------------------------ MODULE FeEvents ------------------------------
(***************************************************************************)
(* The event queue of the DVB frontend: the frontend thread adds an event  *)
(* whenever the demodulator's status has changed, the user reads them with *)
(* FE_GET_EVENT, empties them with a new request, closes and opens the     *)
(* device again.  fepriv->sem orders the thread and the ioctls; open does  *)
(* not take it.                                                            *)
(*                                                                         *)
(* An event is its number, the how manieth event it is.  A status is a     *)
(* number too, 0 for none: only whether it has changed matters.  A read    *)
(* that finds nothing and does not block changes nothing and is left out.  *)
(***************************************************************************)
EXTENDS Integers

CONSTANTS
    MAX_EVENT,          \* slots of the ring, 8 in the source
    MaxStatus,          \* bound on the changes of the status
    MaxUserCalls        \* bound on requests, closes and signals

ASSUME EventsAssumption ==
    /\ MAX_EVENT \in Nat /\ MAX_EVENT > 1
    /\ MaxStatus \in Nat /\ MaxUserCalls \in Nat

VARIABLES
    slot, eventr, eventw, overflow,     \* struct dvb_fe_events
    sem,                \* who holds fepriv->sem: "none", "thread" or "user"
    hw, status,         \* the demodulator's status, fepriv->status
    festate,            \* fepriv->state: "IDLE", "RETUNE", or "TUNING" for those
                        \* in which the status is read
    tpc, wp,            \* the thread and the local of dvb_frontend_add_event
    upc, found, awake,  \* the user, the test of the queue, his task state
    count,              \* events added so far
    reported,           \* the status in the last of them
    expect, own,        \* the next event the user has to get; his first one
    torn,               \* the queue was emptied while an event was added
    usercalls

ring   == <<slot, eventr, eventw, overflow>>
demod  == <<hw, status, festate>>
user   == <<upc, found, awake>>
ghosts == <<count, reported, expect, own, torn>>
eventvars == <<ring, sem, demod, tpc, wp, user, ghosts, usercalls>>

Succ(i) == (i + 1) % MAX_EVENT
Empty == eventr = eventw
Queued == (eventw - eventr) % MAX_EVENT

EventsInit ==
    /\ slot = [i \in 0 .. MAX_EVENT - 1 |-> 0]
    /\ eventr = 0 /\ eventw = 0 /\ overflow = FALSE
    /\ sem = "none" /\ hw = 0 /\ status = 0 /\ festate = "IDLE"
    /\ tpc = "gone" /\ wp = 0
    /\ upc = "closed" /\ found = FALSE /\ awake = FALSE
    /\ count = 0 /\ reported = 0 /\ expect = 1 /\ own = 1 /\ torn = FALSE
    /\ usercalls = 0

---------------------------------------------------------------------------
(* The frontend thread                                                     *)

ThreadDown ==
    /\ tpc = "loop" /\ sem = "none"
    /\ sem' = "thread" /\ tpc' = "work"
    /\ UNCHANGED <<ring, demod, wp, user, ghosts, usercalls>>

(* An iteration without news.                                              *)
ThreadNothing ==
    /\ tpc = "work" /\ (festate = "TUNING" => hw = status)
    /\ festate' = IF festate = "RETUNE" THEN "TUNING" ELSE festate
    /\ sem' = "none" /\ tpc' = "loop"
    /\ UNCHANGED <<ring, hw, status, wp, user, ghosts, usercalls>>

(* A bug: the overwritten event is not marked.                             *)
AddEventUnmarked ==
    /\ tpc = "work" /\ festate = "TUNING" /\ hw # status
    /\ wp' = Succ(eventw)
    /\ eventr' = IF wp' = eventr THEN Succ(eventr) ELSE eventr
    /\ tpc' = "store"
    /\ UNCHANGED <<slot, eventw, overflow, sem, demod, user, ghosts, usercalls>>

(* dvb_frontend_add_event makes room: the oldest event goes.               *)
AddEvent ==
    /\ tpc = "work" /\ festate = "TUNING" /\ hw # status
    /\ wp' = Succ(eventw)
    /\ IF wp' = eventr
         THEN overflow' = TRUE /\ eventr' = Succ(eventr)
         ELSE UNCHANGED <<overflow, eventr>>
    /\ tpc' = "store"
    /\ UNCHANGED <<slot, eventw, sem, demod, user, ghosts, usercalls>>

(* ... stores the event and wakes who waits; the iteration ends.           *)
AddStore ==
    /\ tpc = "store"
    /\ slot' = [slot EXCEPT ![eventw] = count + 1] /\ eventw' = wp
    /\ count' = count + 1 /\ reported' = hw /\ status' = hw
    /\ awake' = TRUE
    /\ upc' = IF upc = "asleep" THEN "up2" ELSE upc
    /\ sem' = "none" /\ tpc' = "loop"
    /\ UNCHANGED <<eventr, overflow, hw, festate, wp, found, expect, own, torn, usercalls>>

(* The thread ends some time after the device was closed.                  *)
ThreadExits ==
    /\ tpc = "loop" /\ upc = "closed"
    /\ tpc' = "gone"
    /\ UNCHANGED <<ring, sem, demod, wp, user, ghosts, usercalls>>

StatusChanges ==
    /\ hw < MaxStatus /\ hw' = hw + 1
    /\ UNCHANGED <<ring, sem, status, festate, tpc, wp, user, ghosts, usercalls>>

---------------------------------------------------------------------------
(* The user                                                                *)

UserCall == usercalls < MaxUserCalls /\ usercalls' = usercalls + 1

(* dvb_frontend_open: the thread is started, or still there ...            *)
Open ==
    /\ upc = "closed" /\ upc' = "opening"
    /\ IF tpc = "gone"
         THEN sem = "none" /\ tpc' = "loop" /\ festate' = "IDLE" /\ status' = 0
         ELSE UNCHANGED <<tpc, festate, status>>
    /\ UNCHANGED <<ring, sem, hw, wp, found, awake, ghosts, usercalls>>

(* ... and the event queue is emptied, without a lock.                     *)
OpenEmpties ==
    /\ upc = "opening" /\ upc' = "idle"
    /\ eventr' = 0 /\ eventw' = 0
    /\ expect' = count + 1 /\ own' = count + 1 /\ torn' = (tpc = "store")
    /\ UNCHANGED <<slot, overflow, sem, demod, tpc, wp, found, awake, count, reported, usercalls>>

Close ==
    /\ UserCall /\ upc = "idle" /\ upc' = "closed"
    /\ UNCHANGED <<ring, sem, demod, tpc, wp, found, awake, ghosts>>

(* A bug: the status of the last request is kept.                          *)
NewRequestKeepsStatus ==
    /\ UserCall /\ upc = "idle" /\ sem = "none"
    /\ slot' = [slot EXCEPT ![eventw] = count + 1]
    /\ eventr' = eventw /\ eventw' = Succ(eventw)
    /\ count' = count + 1 /\ reported' = 0 /\ expect' = count + 1
    /\ festate' = "RETUNE"
    /\ UNCHANGED <<overflow, sem, hw, status, tpc, wp, user, own, torn>>

(* dtv_set_frontend: dvb_frontend_clear_events, dvb_frontend_add_event(0)  *)
NewRequest ==
    /\ UserCall /\ upc = "idle" /\ sem = "none"
    /\ slot' = [slot EXCEPT ![eventw] = count + 1]
    /\ eventr' = eventw /\ eventw' = Succ(eventw)
    /\ count' = count + 1 /\ reported' = 0 /\ expect' = count + 1
    /\ festate' = "RETUNE" /\ status' = 0
    /\ UNCHANGED <<overflow, sem, hw, tpc, wp, user, own, torn>>

(* FE_SET_TONE, FE_SET_VOLTAGE and the FE_DISEQC commands                  *)
DiseqcRequest ==
    /\ UserCall /\ upc = "idle" /\ sem = "none"
    /\ festate' = "TUNING" /\ status' = 0
    /\ UNCHANGED <<ring, sem, hw, tpc, wp, user, ghosts>>

(* FE_GET_EVENT returns -EOVERFLOW.                                        *)
GetOverflow ==
    /\ upc = "idle" /\ sem = "none" /\ overflow
    /\ overflow' = FALSE
    /\ expect' = count - Queued + 1
    /\ UNCHANGED <<slot, eventr, eventw, sem, demod, tpc, wp, user, count, reported, own, torn, usercalls>>

(* *event = events->events[eventr], and the ioctl returns.                 *)
Take ==
    /\ expect' = slot[eventr] + 1
    /\ eventr' = Succ(eventr)
    /\ upc' = "idle" /\ sem' = "none" /\ found' = FALSE
    /\ UNCHANGED <<slot, eventw, overflow, demod, tpc, wp, awake, count, reported, own, torn, usercalls>>

GetEvent ==
    /\ upc = "idle" /\ sem = "none" /\ ~overflow /\ ~Empty
    /\ Take

(* wait_event_interruptible: dvb_frontend_test_event gives the semaphore   *)
(* away for the test, once before the task is on the queue ("up1") and     *)
(* then in a loop ("up2").                                                 *)
GetWaits ==
    /\ upc = "idle" /\ sem = "none" /\ ~overflow /\ Empty
    /\ upc' = "up1"
    /\ UNCHANGED <<ring, sem, demod, tpc, wp, found, awake, ghosts, usercalls>>

TestEvent ==
    /\ upc \in {"up1", "up2"}
    /\ found' = ~Empty
    /\ upc' = IF upc = "up1" THEN "down1" ELSE "down2"
    /\ UNCHANGED <<ring, sem, demod, tpc, wp, awake, ghosts, usercalls>>

(* down() has to sleep for the semaphore and leaves the task running.      *)
DownSleeps ==
    /\ upc = "down2" /\ sem = "thread" /\ ~awake
    /\ awake' = TRUE
    /\ UNCHANGED <<ring, sem, demod, tpc, wp, upc, found, ghosts, usercalls>>

DownFound ==
    /\ upc \in {"down1", "down2"} /\ sem = "none" /\ found
    /\ Take

(* A bug: one test is enough, made before the task is on the queue.        *)
DownNothingOnce ==
    /\ upc \in {"down1", "down2"} /\ sem = "none" /\ ~found
    /\ sem' = "user" /\ upc' = "asleep"
    /\ UNCHANGED <<ring, demod, tpc, wp, found, awake, ghosts, usercalls>>

(* prepare_to_wait, and a test again; or schedule(), the semaphore taken.  *)
DownNothing ==
    /\ upc \in {"down1", "down2"} /\ sem = "none" /\ ~found
    /\ IF upc = "down2" /\ ~awake
         THEN sem' = "user" /\ upc' = "asleep" /\ UNCHANGED awake
         ELSE upc' = "up2" /\ awake' = FALSE /\ UNCHANGED sem
    /\ UNCHANGED <<ring, demod, tpc, wp, found, ghosts, usercalls>>

(* The sleep is interrupted: -ERESTARTSYS.                                 *)
Signal ==
    /\ UserCall /\ upc = "asleep"
    /\ upc' = "idle" /\ sem' = "none"
    /\ UNCHANGED <<ring, demod, tpc, wp, found, awake, ghosts>>

---------------------------------------------------------------------------
Thread == ThreadDown \/ ThreadNothing \/ AddEvent \/ AddStore
Waiting == TestEvent \/ DownSleeps \/ DownFound \/ DownNothing

EventsNext ==
    \/ Thread \/ ThreadExits \/ StatusChanges
    \/ Open \/ OpenEmpties \/ Close \/ NewRequest \/ DiseqcRequest
    \/ GetOverflow \/ GetEvent \/ GetWaits \/ Waiting \/ Signal

(* The thread's waits have timeouts and the semaphore is handed over in    *)
(* turn; a system call that can go on does.                                *)
EventsSpec ==
    /\ EventsInit /\ [][EventsNext]_eventvars
    /\ WF_eventvars(Thread) /\ SF_eventvars(ThreadDown)
    /\ WF_eventvars(Waiting) /\ WF_eventvars(OpenEmpties)

---------------------------------------------------------------------------
(* Properties                                                              *)

EventsTypeOK ==
    /\ slot \in [0 .. MAX_EVENT - 1 -> 0 .. count]
    /\ {eventr, eventw, wp} \subseteq 0 .. MAX_EVENT - 1
    /\ sem = "user" <=> upc = "asleep"
    /\ sem = "thread" <=> tpc \in {"work", "store"}

(* The queue holds the last events, without a gap and in their order,      *)
(* when dvb_frontend_add_event overwrites the oldest and the user empties  *)
(* or takes at the same time, and they are his own, since his open ("empty *)
(* event queue"); unless the thread of the last user is inside             *)
(* dvb_frontend_add_event when the device is opened.  What he gets follows *)
(* what he got before, or -EOVERFLOW is pending.                           *)
QueueInOrder ==
    /\ EventsTypeOK
    /\ ~torn =>
        /\ \A i \in 0 .. Queued - 1 : slot[(eventr + i) % MAX_EVENT] = count - Queued + 1 + i
        /\ upc \notin {"closed", "opening"} => count - Queued + 1 >= own
        /\ ~overflow => expect = count - Queued + 1

(* Nobody sleeps in FE_GET_EVENT while there is an event: the test is      *)
(* stale when the semaphore is taken again, and is then repeated.          *)
SleepsOnEmpty == upc = "asleep" => Empty

(* A change of the status, of the lock in particular, becomes an event,    *)
(* whatever the user does, as long as he does not sleep in FE_GET_EVENT    *)
(* with the semaphore: fepriv->status is what he was told last.            *)
StatusIsReported ==
    (hw # reported /\ festate = "TUNING" /\ tpc # "gone")
        ~> \/ hw = reported \/ festate # "TUNING" \/ tpc = "gone"
           \/ upc = "asleep"
=============================================================================
