---------------------------- MODULE DvbFrontend -----------------------------
(***************************************************************************)
(* The life of a DVB frontend: files are opened, used and closed, the      *)
(* first to open for writing starts the frontend thread, the thread ends   *)
(* some time after the last close or when it is stopped, and the driver    *)
(* unregisters and detaches the frontend while files may be open.          *)
(*                                                                         *)
(* fe->exit, fepriv->thread and the user counts are read and stored        *)
(* without a common lock: fepriv->sem orders ioctls and the thread's       *)
(* iterations, dvbdev_mutex the opens, minor_rwsem opens and removal.      *)
(* The frontend does not share its adapter (mfe_shared) or its bus         *)
(* (ts_bus_ctrl), as those of the TBS cards.                               *)
(***************************************************************************)
EXTENDS Integers, FiniteSets

CONSTANTS
    Writers, Readers,   \* who may open the device for writing, for reading
    Threads,            \* identities of the kernel threads that are started
    NULL,
    MaxOpens, MaxCalls  \* bounds on the opens and on the ioctls

ASSUME FrontendAssumption ==
    /\ Writers \cap Readers = {} /\ IsFiniteSet(Writers \cup Readers)
    /\ {NULL, "driver"} \cap (Writers \cup Readers) = {} /\ NULL \notin Threads
    /\ MaxOpens \in Nat /\ MaxCalls \in Nat

Files == Writers \cup Readers
DRIVER == "driver"

VARIABLES
    sem,                \* the count of fepriv->sem
    exit,               \* fe->exit
    thread,             \* fepriv->thread
    state,              \* fepriv->state: "IDLE", "RETUNE" or "TUNED"
    writers,            \* dvbdev->writers: 1 when nobody writes
    registered,         \* dvb_minors[minor]
    refcount, freed,    \* fe->refcount, dvb_frontend_free
    mutex,              \* who holds dvbdev_mutex, and minor_rwsem for reading
    hw,                 \* the hardware: "awake" or "asleep"
    tpc, should_stop,   \* the threads
    pc, victim,         \* files and driver; the thread kthread_stop waits for
                        \* or kthread_run has made
    raced,              \* what has happened that the code does not provide for
    opens, calls

dev  == <<writers, registered, refcount, freed>>
thr  == <<tpc, should_stop>>
act  == <<pc, victim, raced>>
bnd  == <<opens, calls>>
vars == <<sem, exit, thread, state, dev, mutex, hw, thr, act, bnd>>

(* "open": an open for writing overlapped the unregistering; "ending": a   *)
(* thread was ending on its own when the driver was to stop it; "decided": *)
(* an open relied on a thread that had decided to end; "sem": the          *)
(* semaphore was initialised while an ioctl held it.                       *)
Races == {"open", "ending", "decided", "sem"}
Race(name, happens) == raced' = IF happens THEN raced \cup {name} ELSE raced

Opening == {"entered", "counted", "stop", "kstop", "join", "down", "create", "publish", "get"}
Unregistering == {"stop", "kstop", "join", "remove"}
Critical == {"init", "iterate", "quit", "cleared"}

(* dvb_register_frontend: one reference for unregister, one for detach.    *)
Init ==
    /\ sem = 1 /\ exit = "NO_EXIT" /\ thread = NULL /\ state = "IDLE"
    /\ writers = 1 /\ registered = TRUE /\ refcount = 2 /\ freed = FALSE
    /\ mutex = NULL /\ hw = "asleep"
    /\ tpc = [t \in Threads |-> "gone"] /\ should_stop = [t \in Threads |-> FALSE]
    /\ pc = [a \in Files \cup {DRIVER} |-> "closed"]
    /\ victim = [a \in Files \cup {DRIVER} |-> NULL]
    /\ raced = {} /\ opens = 0 /\ calls = 0

Goto(a, label) == pc' = [pc EXCEPT ![a] = label]

(* dvb_frontend_put                                                        *)
Put == refcount' = refcount - 1 /\ freed' = (freed \/ refcount = 1)

---------------------------------------------------------------------------
(* dvb_frontend_thread                                                     *)

TGoto(t, label) == tpc' = [tpc EXCEPT ![t] = label]

(* The thread starts with the semaphore taken and gives it up.             *)
ThreadInit(t) ==
    /\ tpc[t] = "init" /\ TGoto(t, "wait")
    /\ hw' = "awake" /\ sem' = sem + 1
    /\ UNCHANGED <<exit, thread, state, dev, mutex, should_stop, act, bnd>>

(* A bug: only a stop ends the thread.                                     *)
ExitsWhenStopped(late) == exit # "NO_EXIT"

(* late: dvb_shutdown_timeout is over.                                     *)
dvb_frontend_is_exiting(late) == exit # "NO_EXIT" \/ (writers = 1 /\ late)

(* The wait is over, if only by its timeout.                               *)
ThreadWakes(t, late) ==
    /\ tpc[t] = "wait"
    /\ TGoto(t, IF should_stop[t] \/ dvb_frontend_is_exiting(late) THEN "decided" ELSE "down")
    /\ UNCHANGED <<sem, exit, thread, state, dev, mutex, hw, should_stop, act, bnd>>

ThreadDown(t) ==
    /\ tpc[t] = "down" /\ sem > 0
    /\ TGoto(t, "iterate") /\ sem' = sem - 1
    /\ UNCHANGED <<exit, thread, state, dev, mutex, hw, should_stop, act, bnd>>

(* One iteration of the tuning loop: a request is carried out.             *)
ThreadIterates(t) ==
    /\ tpc[t] = "iterate" /\ TGoto(t, "wait")
    /\ state' = IF state = "RETUNE" THEN "TUNED" ELSE state
    /\ sem' = sem + 1
    /\ UNCHANGED <<exit, thread, dev, mutex, hw, should_stop, act, bnd>>

(* A bug: the thread quits without the semaphore.                          *)
ThreadQuitsUnlocked(t) ==
    /\ tpc[t] = "decided" /\ TGoto(t, "quit") /\ exit' = "NORMAL_EXIT"
    /\ UNCHANGED <<sem, thread, state, dev, mutex, hw, should_stop, act, bnd>>

ThreadQuits(t) ==
    /\ tpc[t] = "decided" /\ sem > 0
    /\ TGoto(t, "quit") /\ sem' = sem - 1 /\ exit' = "NORMAL_EXIT"
    /\ UNCHANGED <<thread, state, dev, mutex, hw, should_stop, act, bnd>>

(* Power down and fepriv->thread = NULL                                    *)
ThreadSleeps(t) ==
    /\ tpc[t] = "quit" /\ TGoto(t, "cleared")
    /\ hw' = "asleep" /\ thread' = NULL
    /\ UNCHANGED <<sem, exit, state, dev, mutex, should_stop, act, bnd>>

ThreadUps(t) ==
    /\ tpc[t] = "cleared" /\ TGoto(t, "last")
    /\ exit' = IF should_stop[t] THEN "DEVICE_REMOVED" ELSE "NO_EXIT"
    /\ sem' = sem + 1
    /\ UNCHANGED <<thread, state, dev, mutex, hw, should_stop, act, bnd>>

(* dvb_frontend_wakeup(fe), the last use of the frontend                   *)
ThreadEnds(t) ==
    /\ tpc[t] = "last" /\ TGoto(t, "gone")
    /\ should_stop' = [should_stop EXCEPT ![t] = FALSE]
    /\ UNCHANGED <<sem, exit, thread, state, dev, mutex, hw, act, bnd>>

ThreadStep(t) ==
    \/ ThreadInit(t) \/ (\E late \in BOOLEAN : ThreadWakes(t, late)) \/ ThreadDown(t) \/ ThreadIterates(t)
    \/ ThreadQuits(t) \/ ThreadSleeps(t) \/ ThreadUps(t) \/ ThreadEnds(t)

---------------------------------------------------------------------------
(* dvb_frontend_stop, in an open and in the unregistering                  *)

StopSetsExit(a) ==
    /\ pc[a] = "stop" /\ Goto(a, "kstop")
    /\ exit' = IF exit = "DEVICE_REMOVED" THEN exit ELSE "NORMAL_EXIT"
    /\ UNCHANGED <<sem, thread, state, dev, mutex, hw, thr, victim, raced, bnd>>

Stopped(a) == IF a = DRIVER THEN "remove" ELSE "down"

Running == {t \in Threads : tpc[t] # "gone"}

(* kthread_stop                                                            *)
StopThread(a) ==
    /\ pc[a] = "kstop"
    /\ IF thread = NULL
         THEN Goto(a, Stopped(a)) /\ UNCHANGED <<should_stop, victim>>
         ELSE /\ Goto(a, "join")
              /\ should_stop' = [should_stop EXCEPT ![thread] = TRUE]
              /\ victim' = [victim EXCEPT ![a] = thread]
    /\ Race("ending", a = DRIVER /\ Running \ {thread} # {})
    /\ UNCHANGED <<sem, exit, thread, state, dev, mutex, hw, tpc, bnd>>

(* ... waits for the end of the thread; then sema_init                     *)
StopJoins(a) ==
    /\ pc[a] = "join" /\ (victim[a] # NULL => tpc[victim[a]] = "gone")
    /\ Goto(a, Stopped(a)) /\ victim' = [victim EXCEPT ![a] = NULL]
    /\ sem' = 1 /\ state' = "IDLE"
    /\ Race("sem", \E f \in Files : pc[f] \in {"down_ioctl", "ioctl"})
    /\ UNCHANGED <<exit, thread, dev, mutex, hw, thr, bnd>>

Stop(a) == StopSetsExit(a) \/ StopThread(a) \/ StopJoins(a)

---------------------------------------------------------------------------
(* dvb_device_open and dvb_frontend_open                                   *)

OpenEnters(f) ==
    /\ pc[f] = "closed" /\ mutex = NULL /\ registered /\ exit # "DEVICE_REMOVED"
    /\ opens < MaxOpens /\ opens' = opens + 1
    /\ mutex' = f /\ Goto(f, "entered")
    /\ Race("open", f \in Writers /\ pc[DRIVER] \in Unregistering)
    /\ UNCHANGED <<sem, exit, thread, state, dev, hw, thr, victim, calls>>

(* dvb_generic_open                                                        *)
OpenCounts(f) ==
    /\ pc[f] = "entered"
    /\ \/ f \in Writers /\ writers = 1 /\ writers' = 0 /\ Goto(f, "counted") /\ UNCHANGED mutex
       \/ f \in Writers /\ writers = 0 /\ mutex' = NULL /\ Goto(f, "closed") /\ UNCHANGED writers
       \/ f \in Readers /\ Goto(f, "get") /\ UNCHANGED <<writers, mutex>>
    /\ UNCHANGED <<sem, exit, thread, state, registered, refcount, freed, hw, thr, victim, raced, bnd>>

(* dvb_frontend_start: the thread is there, or ending, or has to be made.  *)
OpenStarts(f) ==
    /\ pc[f] = "counted"
    /\ Goto(f, IF thread = NULL THEN "down" ELSE IF exit = "NO_EXIT" THEN "get" ELSE "stop")
    /\ Race("decided", thread # NULL /\ exit = "NO_EXIT" /\ tpc[thread] = "decided")
    /\ UNCHANGED <<sem, exit, thread, state, dev, mutex, hw, thr, victim, bnd>>

(* A bug: a thread is made without the semaphore.                          *)
OpenDownsNot(f) ==
    /\ pc[f] = "down" /\ Goto(f, "create")
    /\ UNCHANGED <<sem, exit, thread, state, dev, mutex, hw, thr, victim, raced, bnd>>

OpenDowns(f) ==
    /\ pc[f] = "down" /\ sem > 0
    /\ sem' = sem - 1 /\ Goto(f, "create")
    /\ UNCHANGED <<exit, thread, state, dev, mutex, hw, thr, victim, raced, bnd>>

(* A signal, or no thread: dvb_generic_release and an error.               *)
OpenFails(f) ==
    /\ \/ pc[f] = "down" /\ UNCHANGED <<sem, state, exit, thread>>
       \/ /\ pc[f] = "create" /\ sem' = sem + 1
          /\ state' = "IDLE" /\ exit' = "NO_EXIT" /\ thread' = NULL
    /\ writers' = 1 /\ mutex' = NULL /\ Goto(f, "closed")
    /\ UNCHANGED <<registered, refcount, freed, hw, thr, victim, raced, bnd>>

(* kthread_run: the thread runs before it is known.                        *)
OpenCreates(f) ==
    /\ pc[f] = "create" /\ Goto(f, "publish")
    /\ state' = "IDLE" /\ exit' = "NO_EXIT" /\ thread' = NULL
    /\ LET unused == {t \in Threads \ Running : \A a \in DOMAIN victim : victim[a] # t}
           t == CHOOSE x \in unused : TRUE
       IN  /\ unused # {}
           /\ TGoto(t, "init") /\ should_stop' = [should_stop EXCEPT ![t] = FALSE]
           /\ victim' = [victim EXCEPT ![f] = t]
    /\ UNCHANGED <<sem, dev, mutex, hw, raced, bnd>>

OpenPublishes(f) ==
    /\ pc[f] = "publish" /\ Goto(f, "get")
    /\ thread' = victim[f] /\ victim' = [victim EXCEPT ![f] = NULL]
    /\ UNCHANGED <<sem, exit, state, dev, mutex, hw, thr, raced, bnd>>

(* dvb_frontend_get, and the file is open.                                 *)
OpenGets(f) ==
    /\ pc[f] = "get" /\ Goto(f, "open")
    /\ refcount' = refcount + 1 /\ mutex' = NULL
    /\ UNCHANGED <<sem, exit, thread, state, writers, registered, freed, hw, thr, victim, raced, bnd>>

(* dvb_frontend_release                                                    *)
Release(f) ==
    /\ pc[f] = "open" /\ Goto(f, "put")
    /\ writers' = IF f \in Writers THEN 1 ELSE writers
    /\ UNCHANGED <<sem, exit, thread, state, registered, refcount, freed, mutex, hw, thr, victim, raced, bnd>>

ReleasePuts(f) ==
    /\ pc[f] = "put" /\ Goto(f, "closed")
    /\ Put
    /\ UNCHANGED <<sem, exit, thread, state, writers, registered, mutex, hw, thr, victim, raced, bnd>>

(* dvb_frontend_do_ioctl                                                   *)
IoctlDowns(f) ==
    /\ pc[f] = "open" /\ sem > 0 /\ calls < MaxCalls /\ calls' = calls + 1
    /\ sem' = sem - 1 /\ Goto(f, "down_ioctl")
    /\ UNCHANGED <<exit, thread, state, dev, mutex, hw, thr, victim, raced, opens>>

IoctlTests(f) ==
    /\ pc[f] = "down_ioctl"
    /\ \/ exit = "NO_EXIT" /\ Goto(f, "ioctl") /\ UNCHANGED sem
       \/ exit # "NO_EXIT" /\ Goto(f, "open") /\ sem' = sem + 1
    /\ UNCHANGED <<exit, thread, state, dev, mutex, hw, thr, victim, raced, bnd>>

(* A bug: the ioctl returns with the semaphore.                            *)
IoctlKeepsSem(f) ==
    /\ pc[f] = "ioctl" /\ Goto(f, "open")
    /\ state' = IF f \in Writers THEN "RETUNE" ELSE state
    /\ UNCHANGED <<sem, exit, thread, dev, mutex, hw, thr, victim, raced, bnd>>

(* A writer requests a frequency; a reader looks at the status.            *)
IoctlEnds(f) ==
    /\ pc[f] = "ioctl" /\ Goto(f, "open")
    /\ state' = IF f \in Writers THEN "RETUNE" ELSE state
    /\ sem' = sem + 1
    /\ UNCHANGED <<exit, thread, dev, mutex, hw, thr, victim, raced, bnd>>

FileStep(f) ==
    \/ OpenCounts(f) \/ OpenStarts(f) \/ Stop(f) \/ OpenDowns(f) \/ OpenFails(f) \/ OpenCreates(f)
    \/ OpenPublishes(f) \/ OpenGets(f) \/ ReleasePuts(f) \/ IoctlTests(f) \/ IoctlEnds(f)

---------------------------------------------------------------------------
(* dvb_unregister_frontend, then dvb_frontend_detach                       *)

Unregister ==
    /\ pc[DRIVER] = "closed" /\ Goto(DRIVER, "stop")
    /\ Race("open", \E w \in Writers : pc[w] \in Opening)
    /\ UNCHANGED <<sem, exit, thread, state, dev, mutex, hw, thr, victim, bnd>>

(* A bug: the removal does not wait for opens.                             *)
RemoveAtOnce ==
    /\ pc[DRIVER] = "remove" /\ Goto(DRIVER, "put")
    /\ registered' = FALSE
    /\ UNCHANGED <<sem, exit, thread, state, writers, refcount, freed, mutex, hw, thr, victim, raced, bnd>>

(* dvb_remove_device: minor_rwsem is taken for writing.                    *)
Remove ==
    /\ pc[DRIVER] = "remove" /\ mutex = NULL /\ Goto(DRIVER, "put")
    /\ registered' = FALSE
    /\ UNCHANGED <<sem, exit, thread, state, writers, refcount, freed, mutex, hw, thr, victim, raced, bnd>>

DriverPuts ==
    /\ \/ pc[DRIVER] = "put" /\ Goto(DRIVER, "detach")
       \/ pc[DRIVER] = "detach" /\ Goto(DRIVER, "done")
    /\ Put
    /\ UNCHANGED <<sem, exit, thread, state, writers, registered, mutex, hw, thr, victim, raced, bnd>>

DriverStep == Stop(DRIVER) \/ Remove \/ DriverPuts

---------------------------------------------------------------------------
(* Nothing is under way and no bound is left.                              *)
Done == (\A a \in DOMAIN pc : pc[a] \in {"closed", "open", "done"}) /\ UNCHANGED vars

Next ==
    \/ \E t \in Threads : ThreadStep(t)
    \/ \E f \in Files : OpenEnters(f) \/ Release(f) \/ IoctlDowns(f) \/ FileStep(f)
    \/ Unregister \/ DriverStep
    \/ Done

(* The thread's waits have timeouts, the semaphore is handed over in turn, *)
(* and a system call or the driver's removal that can go on does.          *)
Spec ==
    /\ Init /\ [][Next]_vars
    /\ \A t \in Threads : /\ WF_vars(ThreadStep(t)) /\ SF_vars(ThreadWakes(t, TRUE))
                          /\ SF_vars(ThreadDown(t) \/ ThreadQuits(t))
    /\ \A f \in Files : WF_vars(FileStep(f))
    /\ WF_vars(DriverStep)

---------------------------------------------------------------------------
(* Properties                                                              *)

InUse == {f \in Writers : pc[f] \in {"open", "down_ioctl", "ioctl"}}

TypeOK ==
    /\ sem \in Nat /\ exit \in {"NO_EXIT", "NORMAL_EXIT", "DEVICE_REMOVED"}
    /\ thread \in Threads \cup {NULL} /\ mutex \in Files \cup {NULL}
    /\ state \in {"IDLE", "RETUNE", "TUNED"}
    /\ refcount = Cardinality({f \in Files : pc[f] \in {"open", "down_ioctl", "ioctl", "put"}})
                      + (CASE pc[DRIVER] = "detach" -> 1 [] pc[DRIVER] = "done" -> 0 [] OTHER -> 2)
    /\ freed <=> refcount = 0
    /\ raced \subseteq Races

(* An iteration of the thread and an ioctl, or two ioctls, never overlap:  *)
(* the semaphore "is locked when we enter the thread", although it is      *)
(* initialised again each time a thread is stopped, unless an ioctl holds  *)
(* it then.                                                                *)
MutualExclusion ==
    raced \cap {"sem", "open"} = {} =>
        Cardinality({t \in Threads : tpc[t] \in Critical})
            + Cardinality({f \in Files : pc[f] = "ioctl"}) <= 1

(* Never two threads that use the hardware, however fast the device is     *)
(* closed and opened again, and fepriv->thread is one that has not ended:  *)
(* it can be stopped.  A semaphore that was initialised under an ioctl is  *)
(* given up twice, and then lets an open make a thread beside one that is  *)
(* ending.                                                                 *)
OneThread ==
    raced \cap {"sem", "open"} = {} =>
        /\ Cardinality({t \in Running : tpc[t] # "last"}) <= 1
        /\ thread # NULL => thread \in Running

(* The reference count is exact.  Unregistering stops the thread for good, *)
(* and the frontend is not freed while a thread, an open file, an open or  *)
(* an ioctl uses it, if nobody opens it for writing meanwhile and the      *)
(* thread is not ending already.                                           *)
FreedIsUnused ==
    /\ TypeOK
    /\ raced \cap {"open", "ending"} = {} =>
         /\ pc[DRIVER] \in {"put", "detach", "done"} => Running = {}
         /\ freed => \A f \in Files : pc[f] = "closed"

(* "wait <shutdown_timeout> seconds after close() before suspending        *)
(* hardware": never under an open file, unless it was opened when the      *)
(* thread had decided to end, or the semaphore is worth nothing.           *)
AwakeWhileOpen ==
    [][hw = "awake" /\ hw' = "asleep" =>
          InUse = {} \/ pc[DRIVER] # "closed" \/ raced \cap {"decided", "sem"} # {}]_vars

(* Once the device is closed, the hardware goes to sleep, also when it was *)
(* being opened, or an open failed, at any moment of the thread's end.     *)
SleepsWhenClosed == (writers = 1) ~> (hw = "asleep" \/ writers = 0)

(* A request is carried out, unless the file is closed or the device       *)
(* removed: the thread notices it whatever it is doing.                    *)
RequestIsTuned ==
    state = "RETUNE" ~>
        \/ state # "RETUNE" \/ InUse = {}
        \/ pc[DRIVER] # "closed" \/ raced \cap {"decided", "sem"} # {}
=============================================================================
