------------------------- MODULE DvbFrontend_proofs -------------------------
(***************************************************************************)
(* The semaphore, the thread and the references of a frontend, for every   *)
(* number of files, threads, opens and ioctls.                             *)
(***************************************************************************)
EXTENDS DvbFrontend, TLAPS, FiniteSetTheorems

Actors == Files \cup {DRIVER}

Starting == {"counted", "stop", "kstop", "join", "down", "create", "publish"}
Using == {"open", "down_ioctl", "ioctl"}
Removed == {"put", "detach", "done"}
Labels == {"closed", "entered", "get"} \cup Starting \cup Using \cup Unregistering \cup Removed

Types ==
    /\ sem \in Nat /\ exit \in {"NO_EXIT", "NORMAL_EXIT", "DEVICE_REMOVED"}
    /\ thread \in Threads \cup {NULL} /\ mutex \in Files \cup {NULL}
    /\ state \in {"IDLE", "RETUNE", "TUNED"} /\ raced \subseteq Races
    /\ tpc \in [Threads -> {"gone", "init", "wait", "down", "iterate", "decided", "quit", "cleared", "last"}]
    /\ pc \in [Actors -> Labels] /\ victim \in [Actors -> Threads \cup {NULL}]
    /\ DOMAIN should_stop = Threads
    /\ \A w \in Writers : pc[w] \in {"closed", "entered", "get", "put"} \cup Starting \cup Using
    /\ \A r \in Readers : pc[r] \in {"closed", "entered", "get", "put"} \cup Using
    /\ pc[DRIVER] \in {"closed"} \cup Unregistering \cup Removed

(* dvbdev_mutex belongs to the file that is being opened.                  *)
Holder == \A f \in Files : pc[f] \in Opening <=> mutex = f

(* dvbdev->writers lets one writer in.                                     *)
Counted == Starting \cup {"get"} \cup Using

OneWriter ==
    /\ \A w \in Writers : pc[w] \in Counted => writers = 0
    /\ \A v, w \in Writers : pc[v] \in Counted /\ pc[w] \in Counted => v = w

(* Once the driver unregisters, no writer gets in without being noted, and *)
(* once it has removed the device, nobody does.                            *)
Closing ==
    /\ pc[DRIVER] = "closed" => "open" \notin raced
    /\ "open" \notin raced /\ pc[DRIVER] # "closed" => \A w \in Writers : pc[w] \notin Opening
    /\ pc[DRIVER] \in Removed => ~registered /\ \A f \in Files : pc[f] \notin Opening

(* fe->refcount: the driver's references and one for each file.            *)
Refs == {f \in Files : pc[f] \in {"put"} \cup Using}
DriverRefs == IF pc[DRIVER] = "detach" THEN 1 ELSE IF pc[DRIVER] = "done" THEN 0 ELSE 2

Counts ==
    /\ refcount = Cardinality(Refs) + DriverRefs
    /\ freed <=> refcount = 0

(* fepriv->sem: whoever holds it, holds it alone, and then it is taken.    *)
SemT == {t \in Threads : tpc[t] \in Critical}
SemF == {f \in Files : pc[f] \in {"create", "down_ioctl", "ioctl"}}

Semaphore ==
    /\ sem <= 1 /\ (sem = 1 => SemT = {} /\ SemF = {})
    /\ SemT = {} \/ SemF = {}
    /\ \A t, u \in SemT : t = u
    /\ \A f, g \in SemF : f = g

(* The threads that are not through with the hardware: at most one, and it *)
(* is the one fepriv->thread knows, is about to be made known by the open  *)
(* that made it, or has just cleared fepriv->thread.                       *)
Young == {"init", "wait", "down", "iterate"}
Active == {t \in Threads : tpc[t] \notin {"gone", "last"}}

Known ==
    /\ \A t, u \in Active : t = u
    /\ thread # NULL => tpc[thread] \in Young \cup {"decided", "quit"}
    /\ \A t \in Active :
         \/ thread = t
         \/ tpc[t] = "cleared"
         \/ \E f \in Files : pc[f] = "publish" /\ victim[f] = t

(* What an open may rely on at each of its steps.                          *)
Makes ==
    \A f \in Files :
      /\ pc[f] \in {"down", "create", "publish"} => thread = NULL
      /\ pc[f] = "down" => \A t \in Active : tpc[t] = "cleared"
      /\ pc[f] = "create" => Active = {}
      /\ pc[f] = "publish" =>
           victim[f] # NULL /\ tpc[victim[f]] \in Young /\ ~should_stop[victim[f]] /\ exit = "NO_EXIT"

(* kthread_stop waits for the only thread, and nobody else stops one.      *)
Stops ==
    /\ \A a \in Actors : pc[a] = "join" =>
         victim[a] # NULL /\ thread \in {NULL, victim[a]} /\ Active \subseteq {victim[a]}
    /\ \A t \in Threads : should_stop[t] =>
         tpc[t] # "gone" /\ \E a \in Actors : pc[a] = "join" /\ victim[a] = t
    /\ \A t \in Threads : tpc[t] = "quit" => exit # "NO_EXIT"

Threading == raced \cap {"sem", "open"} = {} => Semaphore /\ Known /\ Makes /\ Stops

(* The driver's kthread_stop leaves no thread behind.                      *)
Ended ==
    raced \cap {"open", "ending"} = {} =>
      /\ pc[DRIVER] = "join" => victim[DRIVER] # NULL /\ Running \subseteq {victim[DRIVER]}
      /\ pc[DRIVER] \in {"remove"} \cup Removed => Running = {}

(* A file that is open for writing has a thread that goes on.              *)
Served ==
    raced \cap {"sem", "decided"} = {} /\ pc[DRIVER] = "closed" =>
      \A w \in Writers : pc[w] \in {"get"} \cup Using =>
        exit = "NO_EXIT" /\ thread # NULL /\ tpc[thread] \in Young

IInv ==
    /\ Types /\ Holder /\ OneWriter /\ Closing /\ Counts
    /\ Threading /\ Ended /\ Served

(* Init establishes the invariant.                                         *)
LEMMA InitIInv == Init => IInv
<1> SUFFICES ASSUME Init PROVE IInv
  OBVIOUS
<1> USE FrontendAssumption DEF Init, Actors, Files, DRIVER
<1>1. Types
  BY DEF Types, Labels, Races
<1>2. Holder /\ OneWriter /\ Closing
  BY DEF Holder, Opening, OneWriter, Counted, Starting, Using, Closing, Removed
<1>3. Counts
  <2>1. Refs = {}
    BY DEF Refs, Using
  <2> QED
    BY <2>1, FS_EmptySet DEF Counts, DriverRefs
<1>4. Threading
  BY DEF Threading, Semaphore, SemT, SemF, Critical, Known, Active, Makes, Stops
<1>5. Ended /\ Served
  BY DEF Ended, Removed, Served, Using
<1> QED
  BY <1>1, <1>2, <1>3, <1>4, <1>5 DEF IInv

---------------------------------------------------------------------------
(* The files that hold a reference are finitely many.                      *)
LEMMA RefsFinite ==
    /\ IsFiniteSet(Refs) /\ Cardinality(Refs) \in Nat
    /\ Cardinality(Refs) = 0 <=> Refs = {}
<1>1. Refs \in SUBSET Files
  BY DEF Refs
<1>2. IsFiniteSet(Refs)
  BY <1>1, FS_Subset, FrontendAssumption DEF Files
<1> QED
  BY <1>2, FS_CardinalityType, FS_EmptySet

(* A step that neither gets nor puts a reference keeps the count.          *)
LEMMA CountsKept ==
    ASSUME Counts, UNCHANGED <<refcount, freed>>,
           \A f \in Files : pc[f] \in {"put"} \cup Using <=> pc'[f] \in {"put"} \cup Using,
           \/ pc'[DRIVER] = pc[DRIVER]
           \/ pc[DRIVER] \notin {"detach", "done"} /\ pc'[DRIVER] \notin {"detach", "done"}
    PROVE  Counts'
<1>1. Refs' = Refs
  BY DEF Refs
<1>2. DriverRefs' = DriverRefs
  BY DEF DriverRefs
<1> QED
  BY <1>1, <1>2 DEF Counts

(* A step of a thread leaves files and driver alone.                       *)
LEMMA FilesKept ==
    ASSUME IInv, UNCHANGED <<dev, mutex, act>>
    PROVE  Holder' /\ OneWriter' /\ Closing' /\ Counts'
<1>1. UNCHANGED <<writers, registered, refcount, freed, mutex, pc, raced>>
  BY DEF dev, act
<1>2. Holder' /\ OneWriter' /\ Closing'
  BY <1>1 DEF IInv, Holder, OneWriter, Closing
<1>3. Counts'
  BY <1>1, CountsKept DEF IInv
<1> QED
  BY <1>2, <1>3

(* The thread gives up the semaphore it was made with.                     *)
LEMMA ThreadInitKeeps ==
    ASSUME IInv, NEW t \in Threads, ThreadInit(t)
    PROVE  IInv'
<1> USE DEF IInv
<1>1. Types'
  BY FrontendAssumption DEF ThreadInit, TGoto, dev, act, bnd, Types, act
<1>2. Holder' /\ OneWriter' /\ Closing' /\ Counts'
  BY FilesKept DEF ThreadInit
<1>3. Threading'
  BY FrontendAssumption
     DEF ThreadInit, TGoto, act, Types, Threading, Semaphore, SemT, SemF, Critical,
         Known, Active, Young, Makes, Stops
<1>4. Ended'
  BY DEF ThreadInit, TGoto, act, Types, Ended, Running
<1>5. Served'
  BY FrontendAssumption
     DEF ThreadInit, TGoto, act, Types, Closing, Threading, Known, Active, Stops, Young,
         Served
<1> QED
  BY <1>1, <1>2, <1>3, <1>4, <1>5

(* It decides to end only if it was stopped or nobody writes.              *)
LEMMA ThreadWakesKeeps ==
    ASSUME IInv, NEW t \in Threads, NEW late \in BOOLEAN, ThreadWakes(t, late)
    PROVE  IInv'
<1> USE DEF IInv
<1>1. Types'
  BY FrontendAssumption
     DEF ThreadWakes, TGoto, dev, act, bnd, dvb_frontend_is_exiting, Types
<1>2. Holder' /\ OneWriter' /\ Closing' /\ Counts'
  BY FilesKept DEF ThreadWakes
<1>3. Threading'
  <2> SUFFICES ASSUME raced \cap {"sem", "open"} = {}
               PROVE  Semaphore' /\ Known' /\ Makes' /\ Stops'
    BY DEF ThreadWakes, act, Threading
  <2>1. /\ UNCHANGED <<sem, exit, thread, writers, should_stop, pc, victim>>
        /\ tpc[t] = "wait" /\ tpc'[t] \in {"down", "decided"}
        /\ \A u \in Threads \ {t} : tpc'[u] = tpc[u]
        /\ tpc'[t] = "decided" => should_stop[t] \/ exit # "NO_EXIT" \/ writers = 1
    BY DEF ThreadWakes, TGoto, dvb_frontend_is_exiting, dev, act, Types
  <2>2. Semaphore'
    BY <2>1 DEF Threading, Semaphore, SemT, SemF, Critical
  <2>3. Active' = Active /\ t \in Active
    BY <2>1 DEF Active
  <2>4. Known'
    BY <2>1, <2>3 DEF Threading, Known, Young, Types
  <2>5. ASSUME NEW f \in Files, pc[f] = "publish", victim[f] = t PROVE tpc'[t] = "down"
    BY <2>1, <2>5 DEF Threading, Makes, OneWriter, Counted, Starting, Using, Types, Files
  <2>6. Makes'
    BY <2>1, <2>3, <2>5, FrontendAssumption DEF Threading, Makes, Young, Types, Actors
  <2>7. Stops'
    BY <2>1, <2>3 DEF Threading, Stops
  <2> QED
    BY <2>2, <2>4, <2>6, <2>7
<1>4. Ended'
  BY DEF ThreadWakes, TGoto, act, dvb_frontend_is_exiting, dev, Types, Ended, Running
<1>5. Served'
  BY FrontendAssumption
     DEF ThreadWakes, TGoto, act, dvb_frontend_is_exiting, dev, Types, Closing,
         Threading, Known, Active, Stops, Young, Served, OneWriter, Counted, Starting, Using,
         Actors, Files
<1> QED
  BY <1>1, <1>2, <1>3, <1>4, <1>5

(* It takes the semaphore for an iteration,                                *)
LEMMA ThreadDownKeeps ==
    ASSUME IInv, NEW t \in Threads, ThreadDown(t)
    PROVE  IInv'
<1> USE DEF IInv
<1>1. Types'
  BY FrontendAssumption DEF ThreadDown, TGoto, dev, act, bnd, Types, act
<1>2. Holder' /\ OneWriter' /\ Closing' /\ Counts'
  BY FilesKept DEF ThreadDown
<1>3. Threading'
  BY FrontendAssumption
     DEF ThreadDown, TGoto, act, Types, Threading, Semaphore, SemT, SemF, Critical,
         Known, Active, Young, Makes, Stops
<1>4. Ended'
  BY DEF ThreadDown, TGoto, act, Types, Ended, Running
<1>5. Served'
  BY FrontendAssumption
     DEF ThreadDown, TGoto, act, Types, Closing, Threading, Known, Active, Stops, Young,
         Served
<1> QED
  BY <1>1, <1>2, <1>3, <1>4, <1>5

(* and gives it up.                                                        *)
LEMMA ThreadIteratesKeeps ==
    ASSUME IInv, NEW t \in Threads, ThreadIterates(t)
    PROVE  IInv'
<1> USE DEF IInv
<1>1. Types'
  BY FrontendAssumption DEF ThreadIterates, TGoto, dev, act, bnd, Types, act
<1>2. Holder' /\ OneWriter' /\ Closing' /\ Counts'
  BY FilesKept DEF ThreadIterates
<1>3. Threading'
  BY FrontendAssumption
     DEF ThreadIterates, TGoto, act, Types, Threading, Semaphore, SemT, SemF, Critical,
         Known, Active, Young, Makes, Stops
<1>4. Ended'
  BY DEF ThreadIterates, TGoto, act, Types, Ended, Running
<1>5. Served'
  BY FrontendAssumption
     DEF ThreadIterates, TGoto, act, Types, Closing, Threading, Known, Active, Stops,
         Young, Served
<1> QED
  BY <1>1, <1>2, <1>3, <1>4, <1>5

(* It ends with the semaphore taken,                                       *)
LEMMA ThreadQuitsKeeps ==
    ASSUME IInv, NEW t \in Threads, ThreadQuits(t)
    PROVE  IInv'
<1> USE DEF IInv
<1>1. Types'
  BY FrontendAssumption DEF ThreadQuits, TGoto, dev, act, bnd, Types, act
<1>2. Holder' /\ OneWriter' /\ Closing' /\ Counts'
  BY FilesKept DEF ThreadQuits
<1>3. Threading'
  BY FrontendAssumption
     DEF ThreadQuits, TGoto, act, Types, Threading, Semaphore, SemT, SemF, Critical,
         Known, Active, Young, Makes, Stops
<1>4. Ended'
  BY DEF ThreadQuits, TGoto, act, Types, Ended, Running
<1>5. Served'
  BY FrontendAssumption
     DEF ThreadQuits, TGoto, act, Types, Closing, Threading, Known, Active, Stops, Young,
         Served
<1> QED
  BY <1>1, <1>2, <1>3, <1>4, <1>5

(* clears fepriv->thread,                                                  *)
LEMMA ThreadSleepsKeeps ==
    ASSUME IInv, NEW t \in Threads, ThreadSleeps(t)
    PROVE  IInv'
<1> USE DEF IInv
<1>1. Types'
  BY FrontendAssumption DEF ThreadSleeps, TGoto, dev, act, bnd, Types, act
<1>2. Holder' /\ OneWriter' /\ Closing' /\ Counts'
  BY FilesKept DEF ThreadSleeps
<1>3. Threading'
  BY FrontendAssumption
     DEF ThreadSleeps, TGoto, act, Types, Threading, Semaphore, SemT, SemF, Critical,
         Known, Active, Young, Makes, Stops, Actors
<1>4. Ended'
  BY DEF ThreadSleeps, TGoto, act, Types, Ended, Running
<1>5. Served'
  BY FrontendAssumption
     DEF ThreadSleeps, TGoto, act, Types, Closing, Threading, Known, Active, Stops,
         Young, Served
<1> QED
  BY <1>1, <1>2, <1>3, <1>4, <1>5

(* sets fe->exit and gives up the semaphore,                               *)
LEMMA ThreadUpsKeeps ==
    ASSUME IInv, NEW t \in Threads, ThreadUps(t)
    PROVE  IInv'
<1> USE DEF IInv
<1>1. Types'
  BY FrontendAssumption DEF ThreadUps, TGoto, dev, act, bnd, Types, act
<1>2. Holder' /\ OneWriter' /\ Closing' /\ Counts'
  BY FilesKept DEF ThreadUps
<1>3. Threading'
  BY FrontendAssumption
     DEF ThreadUps, TGoto, act, Types, Threading, Semaphore, SemT, SemF, Critical, Known,
         Active, Young, Makes, Stops, Actors
<1>4. Ended'
  BY DEF ThreadUps, TGoto, act, Types, Ended, Running
<1>5. Served'
  BY FrontendAssumption
     DEF ThreadUps, TGoto, act, Types, Closing, Threading, Known, Active, Stops, Young,
         Served
<1> QED
  BY <1>1, <1>2, <1>3, <1>4, <1>5

(* and is gone.                                                            *)
LEMMA ThreadEndsKeeps ==
    ASSUME IInv, NEW t \in Threads, ThreadEnds(t)
    PROVE  IInv'
<1> USE DEF IInv
<1>1. Types'
  BY FrontendAssumption DEF ThreadEnds, TGoto, dev, act, bnd, Types, act
<1>2. Holder' /\ OneWriter' /\ Closing' /\ Counts'
  BY FilesKept DEF ThreadEnds
<1>3. Threading'
  BY FrontendAssumption
     DEF ThreadEnds, TGoto, act, Types, Threading, Semaphore, SemT, SemF, Critical,
         Known, Active, Young, Makes, Stops, Actors
<1>4. Ended'
  BY DEF ThreadEnds, TGoto, act, Types, Ended, Running
<1>5. Served'
  BY FrontendAssumption
     DEF ThreadEnds, TGoto, act, Types, Closing, Threading, Known, Active, Stops, Young,
         Served
<1> QED
  BY <1>1, <1>2, <1>3, <1>4, <1>5

(* At most one file or driver is on its way to starting or stopping a      *)
(* thread, unless an open for writing overlaps the unregistering.          *)
LEMMA StarterAlone ==
    ASSUME IInv, "open" \notin raced, NEW a \in Actors, NEW b \in Actors,
           pc[a] \in Starting, pc[b] \in Starting
    PROVE  a = b
<1> USE FrontendAssumption DEF IInv, Actors, Files, DRIVER
<1>1. \A f \in Files : pc[f] \in Starting => f \in Writers /\ pc[f] \in Opening
  BY DEF Types, Starting, Using, Opening
<1>2. CASE a # DRIVER /\ b # DRIVER
  BY <1>1, <1>2 DEF Holder
<1>3. CASE a = DRIVER \/ b = DRIVER
  <2>1. pc[DRIVER] # "closed"
    BY <1>3 DEF Starting
  <2> QED
    BY <1>1, <1>3, <2>1 DEF Closing
<1> QED
  BY <1>2, <1>3

(* dvb_frontend_stop tells the thread to exit,                             *)
LEMMA StopSetsExitKeeps ==
    ASSUME IInv, NEW a \in Actors, StopSetsExit(a)
    PROVE  IInv'
<1> USE FrontendAssumption DEF IInv, Actors, Files, DRIVER
<1>1. Types'
  BY
     DEF StopSetsExit, Goto, dev, thr, bnd, Types, Labels, Races, Starting, Using,
         Unregistering, Removed
<1>2. Holder'
  BY
     DEF StopSetsExit, Goto, dev, thr, bnd, Types, Holder, Opening, Starting, Using,
         Unregistering, Removed
<1>3. OneWriter'
  BY DEF StopSetsExit, Goto, dev, thr, bnd, Types, OneWriter, Counted, Starting, Using
<1>4. Closing'
  BY
     DEF StopSetsExit, Goto, dev, thr, bnd, Types, Holder, Closing, Opening,
         Unregistering, Removed
<1>5. Counts'
  BY CountsKept DEF StopSetsExit, Goto, dev, thr, bnd, Types, Using
<1>6. Threading'
  <2> SUFFICES ASSUME raced \cap {"sem", "open"} = {}
               PROVE  Semaphore' /\ Known' /\ Makes' /\ Stops'
    BY DEF StopSetsExit, Threading
  <2>1. /\ UNCHANGED <<sem, thread, tpc, should_stop, victim>>
        /\ pc[a] = "stop" /\ pc' = [pc EXCEPT ![a] = "kstop"] /\ exit' # "NO_EXIT"
    BY DEF StopSetsExit, Goto, thr
  <2>2. Active' = Active
    BY <2>1 DEF Active
  <2>3. \A b \in Actors, l \in {"publish", "down", "create", "join", "down_ioctl", "ioctl"} :
            pc'[b] = l <=> pc[b] = l
    BY <2>1 DEF Types
  <2>4. \A f \in Files : pc[f] # "publish"
    BY <2>1, StarterAlone DEF Starting
  <2>5. Semaphore' /\ Known'
    BY <2>1, <2>2, <2>3 DEF Threading, Semaphore, SemT, SemF, Known
  <2>6. Makes' /\ Stops'
    BY <2>1, <2>2, <2>3, <2>4 DEF Threading, Makes, Stops
  <2> QED
    BY <2>5, <2>6
<1>7. Ended'
  BY
     DEF StopSetsExit, Goto, dev, thr, bnd, Types, Closing, Opening, Unregistering,
         Removed, Ended, Running
<1>8. Served'
  BY
     DEF StopSetsExit, Goto, dev, thr, bnd, Types, Closing, OneWriter, Counted, Starting,
         Using, Threading, Known, Makes, Stops, Young, Served
<1> QED
  BY <1>1, <1>2, <1>3, <1>4, <1>5, <1>6, <1>7, <1>8

(* stops the one that fepriv->thread knows,                                *)
LEMMA StopThreadKeeps ==
    ASSUME IInv, NEW a \in Actors, StopThread(a)
    PROVE  IInv'
<1> USE FrontendAssumption DEF IInv, Actors, Files, DRIVER
<1>1. Types'
  BY
     DEF StopThread, Goto, Race, dev, bnd, Stopped, Running, Types, Labels, Races,
         Starting, Using, Unregistering, Removed
<1>2. Holder'
  BY
     DEF StopThread, Goto, Race, dev, bnd, Stopped, Running, Types, Holder, Opening,
         Starting, Using, Unregistering, Removed
<1>3. OneWriter'
  BY
     DEF StopThread, Goto, Race, dev, bnd, Stopped, Running, Types, OneWriter, Counted,
         Starting, Using
<1>4. Closing'
  BY
     DEF StopThread, Goto, Race, dev, bnd, Stopped, Running, Types, Holder, Closing,
         Opening, Unregistering, Removed
<1>5. Counts'
  BY CountsKept DEF StopThread, Goto, Race, dev, bnd, Stopped, Running, Types, Using
<1>6. Threading'
  BY
     DEF StopThread, Goto, Race, dev, bnd, Stopped, Running, Types, Holder, Closing,
         Opening, Unregistering, Threading, Semaphore, SemT, SemF, Critical, Known, Active,
         Young, Makes, Stops
<1>7. Ended'
  BY
     DEF StopThread, Goto, Race, dev, bnd, Stopped, Running, Types, Closing, Opening,
         Unregistering, Removed, Ended
<1>8. Served'
  BY
     DEF StopThread, Goto, Race, dev, bnd, Stopped, Running, Types, Closing, OneWriter,
         Counted, Starting, Using, Threading, Known, Makes, Stops, Young, Served
<1> QED
  BY <1>1, <1>2, <1>3, <1>4, <1>5, <1>6, <1>7, <1>8

(* and when it has ended initialises the semaphore: nobody holds it but an *)
(* ioctl, which is noted.                                                  *)
LEMMA StopJoinsKeeps ==
    ASSUME IInv, NEW a \in Actors, StopJoins(a)
    PROVE  IInv'
<1> USE FrontendAssumption DEF IInv, Actors, Files, DRIVER
<1>1. Types'
  BY
     DEF StopJoins, Goto, Race, dev, thr, bnd, Stopped, Types, Labels, Races, Starting,
         Using, Unregistering, Removed
<1>2. Holder'
  BY
     DEF StopJoins, Goto, Race, dev, thr, bnd, Stopped, Types, Holder, Opening, Starting,
         Using, Unregistering, Removed
<1>3. OneWriter'
  BY
     DEF StopJoins, Goto, Race, dev, thr, bnd, Stopped, Types, OneWriter, Counted,
         Starting, Using
<1>4. Closing'
  BY
     DEF StopJoins, Goto, Race, dev, thr, bnd, Stopped, Types, Holder, Closing, Opening,
         Unregistering, Removed
<1>5. Counts'
  BY CountsKept DEF StopJoins, Goto, Race, dev, thr, bnd, Stopped, Types, Using
<1>6. Threading'
  <2> SUFFICES ASSUME raced' \cap {"sem", "open"} = {}
               PROVE  Semaphore' /\ Known' /\ Makes' /\ Stops'
    BY DEF Threading
  <2>1. /\ UNCHANGED <<exit, thread, tpc, should_stop>> /\ sem' = 1
        /\ pc[a] = "join" /\ pc' = [pc EXCEPT ![a] = Stopped(a)]
        /\ victim[a] # NULL => tpc[victim[a]] = "gone"
        /\ victim' = [victim EXCEPT ![a] = NULL]
        /\ raced' = raced /\ \A f \in Files : pc[f] \notin {"down_ioctl", "ioctl"}
    BY DEF StopJoins, Goto, Race, thr
  <2>2. Active = {} /\ thread = NULL /\ Active' = Active
    BY <2>1 DEF Threading, Stops, Known, Active, Young, Types
  <2>0. \A b \in Actors : pc[b] \in Starting => b = a
    BY <2>1, StarterAlone DEF Starting
  <2>3. \A t \in Threads : ~should_stop[t]
    BY <2>1, <2>0 DEF Threading, Stops, Starting
  <2>4. \A f \in Files : pc'[f] \notin {"create", "publish", "down_ioctl", "ioctl"}
    BY <2>1, <2>0 DEF Types, Starting, Stopped
  <2>5. \A b \in Actors : pc'[b] # "join"
    BY <2>1, <2>0 DEF Types, Starting, Stopped
  <2>6. Semaphore'
    BY <2>1, <2>2, <2>4 DEF Semaphore, SemT, SemF, Active, Critical
  <2>7. Known' /\ Makes'
    BY <2>1, <2>2, <2>4 DEF Known, Makes
  <2>8. Stops'
    BY <2>1, <2>2, <2>3, <2>5 DEF Stops, Active
  <2> QED
    BY <2>6, <2>7, <2>8
<1>7. Ended'
  BY
     DEF StopJoins, Goto, Race, dev, thr, bnd, Stopped, Types, Closing, Opening,
         Unregistering, Removed, Ended, Running
<1>8. Served'
  BY
     DEF StopJoins, Goto, Race, dev, thr, bnd, Stopped, Types, Closing, OneWriter,
         Counted, Starting, Using, Threading, Known, Makes, Stops, Young, Served
<1> QED
  BY <1>1, <1>2, <1>3, <1>4, <1>5, <1>6, <1>7, <1>8

(* An open takes dvbdev_mutex,                                             *)
LEMMA OpenEntersKeeps ==
    ASSUME IInv, NEW f \in Files, OpenEnters(f)
    PROVE  IInv'
<1> USE FrontendAssumption DEF IInv, Actors, Files, DRIVER
<1>1. Types'
  BY
     DEF OpenEnters, Goto, Race, dev, thr, Types, Labels, Races, Starting, Using,
         Unregistering, Removed
<1>2. Holder'
  BY
     DEF OpenEnters, Goto, Race, dev, thr, Types, Holder, Opening, Starting, Using,
         Unregistering, Removed
<1>3. OneWriter'
  BY DEF OpenEnters, Goto, Race, dev, thr, Types, OneWriter, Counted, Starting, Using
<1>4. Closing'
  BY
     DEF OpenEnters, Goto, Race, dev, thr, Types, Holder, Closing, Opening,
         Unregistering, Removed
<1>5. Counts'
  BY CountsKept DEF OpenEnters, Goto, Race, dev, thr, Types, Using
<1>6. Threading'
  BY
     DEF OpenEnters, Goto, Race, dev, thr, Types, Holder, Closing, Opening,
         Unregistering, Threading, Semaphore, SemT, SemF, Critical, Known, Active, Young,
         Makes, Stops
<1>7. Ended'
  BY
     DEF OpenEnters, Goto, Race, dev, thr, Types, Closing, Opening, Unregistering,
         Removed, Ended, Running
<1>8. Served'
  BY
     DEF OpenEnters, Goto, Race, dev, thr, Types, Closing, OneWriter, Counted, Starting,
         Using, Threading, Known, Makes, Stops, Young, Served
<1> QED
  BY <1>1, <1>2, <1>3, <1>4, <1>5, <1>6, <1>7, <1>8

(* is counted as a writer, or not,                                         *)
LEMMA OpenCountsKeeps ==
    ASSUME IInv, NEW f \in Files, OpenCounts(f)
    PROVE  IInv'
<1> USE FrontendAssumption DEF IInv, Actors, Files, DRIVER
<1>1. Types'
  BY
     DEF OpenCounts, Goto, thr, bnd, Types, Labels, Races, Starting, Using,
         Unregistering, Removed
<1>2. Holder'
  BY
     DEF OpenCounts, Goto, thr, bnd, Types, Holder, Opening, Starting, Using,
         Unregistering, Removed
<1>3. OneWriter'
  BY DEF OpenCounts, Goto, thr, bnd, Types, OneWriter, Counted, Starting, Using
<1>4. Closing'
  BY DEF OpenCounts, Goto, thr, bnd, Types, Holder, Closing, Opening, Unregistering, Removed
<1>5. Counts'
  BY CountsKept DEF OpenCounts, Goto, thr, bnd, Types, Using
<1>6. Threading'
  BY
     DEF OpenCounts, Goto, thr, bnd, Types, Holder, Closing, Opening, Unregistering,
         Threading, Semaphore, SemT, SemF, Critical, Known, Active, Young, Makes, Stops
<1>7. Ended'
  BY
     DEF OpenCounts, Goto, thr, bnd, Types, Closing, Opening, Unregistering, Removed,
         Ended, Running
<1>8. Served'
  BY
     DEF OpenCounts, Goto, thr, bnd, Types, Closing, OneWriter, Counted, Starting, Using,
         Threading, Known, Makes, Stops, Young, Served
<1> QED
  BY <1>1, <1>2, <1>3, <1>4, <1>5, <1>6, <1>7, <1>8

(* and looks for a thread that is not about to end.                        *)
LEMMA OpenStartsKeeps ==
    ASSUME IInv, NEW f \in Files, OpenStarts(f)
    PROVE  IInv'
<1> USE FrontendAssumption DEF IInv, Actors, Files, DRIVER
<1>1. Types'
  BY
     DEF OpenStarts, Goto, Race, dev, thr, bnd, Types, Labels, Races, Starting, Using,
         Unregistering, Removed
<1>2. Holder'
  BY
     DEF OpenStarts, Goto, Race, dev, thr, bnd, Types, Holder, Opening, Starting, Using,
         Unregistering, Removed
<1>3. OneWriter'
  BY DEF OpenStarts, Goto, Race, dev, thr, bnd, Types, OneWriter, Counted, Starting, Using
<1>4. Closing'
  BY
     DEF OpenStarts, Goto, Race, dev, thr, bnd, Types, Holder, Closing, Opening,
         Unregistering, Removed
<1>5. Counts'
  BY CountsKept DEF OpenStarts, Goto, Race, dev, thr, bnd, Types, Using
<1>6. Threading'
  BY
     DEF OpenStarts, Goto, Race, dev, thr, bnd, Types, Holder, Closing, Opening,
         Unregistering, Threading, Semaphore, SemT, SemF, Critical, Known, Active, Young,
         Makes, Stops
<1>7. Ended'
  BY
     DEF OpenStarts, Goto, Race, dev, thr, bnd, Types, Closing, Opening, Unregistering,
         Removed, Ended, Running
<1>8. Served'
  <2> SUFFICES ASSUME raced' \cap {"sem", "decided"} = {}, pc'[DRIVER] = "closed",
                      NEW w \in Writers, pc'[w] \in {"get"} \cup Using
               PROVE  exit' = "NO_EXIT" /\ thread' # NULL /\ tpc'[thread'] \in Young
    BY DEF Served
  <2>1. /\ UNCHANGED <<exit, thread, tpc>> /\ pc[f] = "counted"
        /\ \A g \in Actors \ {f} : pc'[g] = pc[g]
        /\ raced' = raced /\ ~(thread # NULL /\ exit = "NO_EXIT" /\ tpc[thread] = "decided")
    BY DEF OpenStarts, Goto, Race, thr, Types
  <2>2. pc'[f] \in {"down", "get", "stop"} /\ (pc'[f] = "get" => thread # NULL /\ exit = "NO_EXIT")
    BY DEF OpenStarts, Goto, Types
  <2>3. CASE w = f
    <3>1. thread # NULL /\ exit = "NO_EXIT"
      BY <2>2, <2>3 DEF Using
    <3>2. raced \cap {"sem", "open"} = {}
      BY <2>1 DEF Types, Closing
    <3> QED
      BY <2>1, <3>1, <3>2 DEF Types, Threading, Known, Stops, Young
  <2>4. CASE w # f
    BY <2>1, <2>4 DEF Types, Served
  <2> QED
    BY <2>3, <2>4
<1> QED
  BY <1>1, <1>2, <1>3, <1>4, <1>5, <1>6, <1>7, <1>8

(* It takes the semaphore: no thread is left that holds it.                *)
LEMMA OpenDownsKeeps ==
    ASSUME IInv, NEW f \in Files, OpenDowns(f)
    PROVE  IInv'
<1> USE FrontendAssumption DEF IInv, Actors, Files, DRIVER
<1>1. Types'
  BY
     DEF OpenDowns, Goto, dev, thr, bnd, Types, Labels, Races, Starting, Using,
         Unregistering, Removed
<1>2. Holder'
  BY
     DEF OpenDowns, Goto, dev, thr, bnd, Types, Holder, Opening, Starting, Using,
         Unregistering, Removed
<1>3. OneWriter'
  BY DEF OpenDowns, Goto, dev, thr, bnd, Types, OneWriter, Counted, Starting, Using
<1>4. Closing'
  BY
     DEF OpenDowns, Goto, dev, thr, bnd, Types, Holder, Closing, Opening, Unregistering,
         Removed
<1>5. Counts'
  BY CountsKept DEF OpenDowns, Goto, dev, thr, bnd, Types, Using
<1>6. Threading'
  BY
     DEF OpenDowns, Goto, dev, thr, bnd, Types, Holder, Closing, Opening, Unregistering,
         Threading, Semaphore, SemT, SemF, Critical, Known, Active, Young, Makes, Stops
<1>7. Ended'
  BY
     DEF OpenDowns, Goto, dev, thr, bnd, Types, Closing, Opening, Unregistering, Removed,
         Ended, Running
<1>8. Served'
  BY
     DEF OpenDowns, Goto, dev, thr, bnd, Types, Closing, OneWriter, Counted, Starting,
         Using, Threading, Known, Makes, Stops, Young, Served
<1> QED
  BY <1>1, <1>2, <1>3, <1>4, <1>5, <1>6, <1>7, <1>8

(* It fails, and gives up what it has;                                     *)
LEMMA OpenFailsKeeps ==
    ASSUME IInv, NEW f \in Files, OpenFails(f)
    PROVE  IInv'
<1> USE FrontendAssumption DEF IInv, Actors, Files, DRIVER
<1>1. Types'
  BY
     DEF OpenFails, Goto, thr, bnd, Types, Labels, Races, Starting, Using, Unregistering,
         Removed
<1>2. Holder'
  BY
     DEF OpenFails, Goto, thr, bnd, Types, Holder, Opening, Starting, Using,
         Unregistering, Removed
<1>3. OneWriter'
  BY DEF OpenFails, Goto, thr, bnd, Types, OneWriter, Counted, Starting, Using
<1>4. Closing'
  BY DEF OpenFails, Goto, thr, bnd, Types, Holder, Closing, Opening, Unregistering, Removed
<1>5. Counts'
  BY CountsKept DEF OpenFails, Goto, thr, bnd, Types, Using
<1>6. Threading'
  BY
     DEF OpenFails, Goto, thr, bnd, Types, Holder, Closing, Opening, Unregistering,
         Threading, Semaphore, SemT, SemF, Critical, Known, Active, Young, Makes, Stops
<1>7. Ended'
  BY
     DEF OpenFails, Goto, thr, bnd, Types, Closing, Opening, Unregistering, Removed,
         Ended, Running
<1>8. Served'
  BY
     DEF OpenFails, Goto, thr, bnd, Types, Closing, OneWriter, Counted, Starting, Using,
         Threading, Known, Makes, Stops, Young, Served
<1> QED
  BY <1>1, <1>2, <1>3, <1>4, <1>5, <1>6, <1>7, <1>8

(* it makes a thread, which takes over the semaphore;                      *)
LEMMA OpenCreatesKeeps ==
    ASSUME IInv, NEW f \in Files, OpenCreates(f)
    PROVE  IInv'
<1> USE FrontendAssumption DEF IInv, Actors, Files, DRIVER
<1>1. Types'
  BY
     DEF OpenCreates, Goto, TGoto, dev, bnd, Running, Types, Labels, Races, Starting,
         Using, Unregistering, Removed
<1>2. Holder'
  BY
     DEF OpenCreates, Goto, TGoto, dev, bnd, Running, Types, Holder, Opening, Starting,
         Using, Unregistering, Removed
<1>3. OneWriter'
  BY
     DEF OpenCreates, Goto, TGoto, dev, bnd, Running, Types, OneWriter, Counted,
         Starting, Using
<1>4. Closing'
  BY
     DEF OpenCreates, Goto, TGoto, dev, bnd, Running, Types, Holder, Closing, Opening,
         Unregistering, Removed
<1>5. Counts'
  BY CountsKept DEF OpenCreates, Goto, TGoto, dev, bnd, Running, Types, Using
<1>6. PICK t \in Threads :
        /\ tpc[t] = "gone" /\ \A b \in Actors : victim[b] # t
        /\ tpc' = [tpc EXCEPT ![t] = "init"] /\ should_stop' = [should_stop EXCEPT ![t] = FALSE]
        /\ victim' = [victim EXCEPT ![f] = t]
  <2> DEFINE unused == {t \in Threads \ Running : \A b \in DOMAIN victim : victim[b] # t}
             t == CHOOSE x \in unused : TRUE
  <2>1. unused # {} /\ TGoto(t, "init") /\ should_stop' = [should_stop EXCEPT ![t] = FALSE]
        /\ victim' = [victim EXCEPT ![f] = t]
    BY DEF OpenCreates
  <2>2. t \in unused
    BY <2>1
  <2> HIDE DEF t
  <2> QED
    BY <2>1, <2>2 DEF Running, TGoto, Types
<1>7. Threading'
  <2> SUFFICES ASSUME raced \cap {"sem", "open"} = {}
               PROVE  Semaphore' /\ Known' /\ Makes' /\ Stops'
    BY DEF OpenCreates, Threading
  <2>1. /\ UNCHANGED sem /\ exit' = "NO_EXIT" /\ thread' = NULL
        /\ pc[f] = "create" /\ pc' = [pc EXCEPT ![f] = "publish"]
    BY DEF OpenCreates, Goto
  <2>2. Active = {} /\ Active' = {t}
    BY <2>1, <1>6 DEF Threading, Makes, Active, Types
  <2>3. f \in Writers /\ \A g \in Actors : pc'[g] \in {"create", "publish", "down", "join"} => g = f
    BY <2>1 DEF Types, Starting, Using, Holder, Opening, Closing
  <2>4. Semaphore'
    BY <2>1, <2>2, <1>6 DEF Threading, Semaphore, SemT, SemF, Active, Critical, Types
  <2>5. Known'
    BY <2>1, <2>2, <1>6 DEF Known, Types
  <2>6. Makes'
    BY <2>1, <2>2, <2>3, <1>6 DEF Threading, Makes, Young, Types
  <2>7. \A u \in Threads : ~should_stop[u]
    BY <2>1, <2>3, <1>6 DEF Threading, Stops, Types
  <2>8. Stops'
    BY <2>1, <2>2, <2>3, <2>7, <1>6 DEF Stops, Active, Types
  <2> QED
    BY <2>4, <2>5, <2>6, <2>8
<1>9. Ended'
  <2>1. /\ pc[f] = "create" /\ pc' = [pc EXCEPT ![f] = "publish"] /\ raced' = raced
    BY DEF OpenCreates, Goto
  <2>2. f \in Writers /\ ("open" \notin raced => pc[DRIVER] = "closed")
    BY <2>1 DEF Types, Using, Closing, Opening
  <2> QED
    BY <2>1, <2>2 DEF Ended, Types, Removed
<1>8. Served'
  BY
     DEF OpenCreates, Goto, TGoto, dev, bnd, Running, Types, Closing, OneWriter, Counted,
         Starting, Using, Threading, Known, Makes, Stops, Young, Served
<1> QED
  BY <1>1, <1>2, <1>3, <1>4, <1>5, <1>7, <1>8, <1>9

(* it tells fepriv->thread of it;                                          *)
LEMMA OpenPublishesKeeps ==
    ASSUME IInv, NEW f \in Files, OpenPublishes(f)
    PROVE  IInv'
<1> USE FrontendAssumption DEF IInv, Actors, Files, DRIVER
<1>1. Types'
  BY
     DEF OpenPublishes, Goto, dev, thr, bnd, Types, Labels, Races, Starting, Using,
         Unregistering, Removed
<1>2. Holder'
  BY
     DEF OpenPublishes, Goto, dev, thr, bnd, Types, Holder, Opening, Starting, Using,
         Unregistering, Removed
<1>3. OneWriter'
  BY DEF OpenPublishes, Goto, dev, thr, bnd, Types, OneWriter, Counted, Starting, Using
<1>4. Closing'
  BY
     DEF OpenPublishes, Goto, dev, thr, bnd, Types, Holder, Closing, Opening,
         Unregistering, Removed
<1>5. Counts'
  BY CountsKept DEF OpenPublishes, Goto, dev, thr, bnd, Types, Using
<1>6. Threading'
  BY
     DEF OpenPublishes, Goto, dev, thr, bnd, Types, Holder, Closing, Opening,
         Unregistering, Threading, Semaphore, SemT, SemF, Critical, Known, Active, Young,
         Makes, Stops
<1>7. Ended'
  BY
     DEF OpenPublishes, Goto, dev, thr, bnd, Types, Closing, Opening, Unregistering,
         Removed, Ended, Running
<1>8. Served'
  BY
     DEF OpenPublishes, Goto, dev, thr, bnd, Types, Closing, OneWriter, Counted,
         Starting, Using, Threading, Known, Makes, Stops, Young, Served
<1> QED
  BY <1>1, <1>2, <1>3, <1>4, <1>5, <1>6, <1>7, <1>8

(* it gets its reference, and the file is open.                            *)
LEMMA OpenGetsKeeps ==
    ASSUME IInv, NEW f \in Files, OpenGets(f)
    PROVE  IInv'
<1> USE FrontendAssumption DEF IInv, Actors, Files, DRIVER
<1>1. Types'
  BY
     DEF OpenGets, Goto, thr, bnd, Types, Labels, Races, Starting, Using, Unregistering,
         Removed
<1>2. Holder'
  BY
     DEF OpenGets, Goto, thr, bnd, Types, Holder, Opening, Starting, Using,
         Unregistering, Removed
<1>3. OneWriter'
  BY DEF OpenGets, Goto, thr, bnd, Types, OneWriter, Counted, Starting, Using
<1>4. Closing'
  BY DEF OpenGets, Goto, thr, bnd, Types, Holder, Closing, Opening, Unregistering, Removed
<1>5. Counts'
  <2>1. /\ pc[f] = "get" /\ pc' = [pc EXCEPT ![f] = "open"]
        /\ refcount' = refcount + 1 /\ freed' = freed
    BY DEF OpenGets, Goto
  <2>2. f \notin Refs /\ Refs' = Refs \cup {f}
    BY <2>1 DEF Types, Refs, Using
  <2>3. Cardinality(Refs)' = Cardinality(Refs) + 1
    BY <2>2, RefsFinite, FS_AddElement
  <2>4. DriverRefs' = DriverRefs /\ DriverRefs > 0 /\ DriverRefs \in Nat
    BY <2>1 DEF DriverRefs, Types, Closing, Opening, Removed
  <2> QED
    BY <2>1, <2>3, <2>4, RefsFinite DEF Counts
<1>6. Threading'
  BY
     DEF OpenGets, Goto, thr, bnd, Types, Holder, Closing, Opening, Unregistering,
         Threading, Semaphore, SemT, SemF, Critical, Known, Active, Young, Makes, Stops
<1>7. Ended'
  BY
     DEF OpenGets, Goto, thr, bnd, Types, Closing, Opening, Unregistering, Removed,
         Ended, Running
<1>8. Served'
  BY
     DEF OpenGets, Goto, thr, bnd, Types, Closing, OneWriter, Counted, Starting, Using,
         Threading, Known, Makes, Stops, Young, Served
<1> QED
  BY <1>1, <1>2, <1>3, <1>4, <1>5, <1>6, <1>7, <1>8

(* A close is no longer counted as a writer,                               *)
LEMMA ReleaseKeeps ==
    ASSUME IInv, NEW f \in Files, Release(f)
    PROVE  IInv'
<1> USE FrontendAssumption DEF IInv, Actors, Files, DRIVER
<1>1. Types'
  BY
     DEF Release, Goto, thr, bnd, Types, Labels, Races, Starting, Using, Unregistering,
         Removed
<1>2. Holder'
  BY
     DEF Release, Goto, thr, bnd, Types, Holder, Opening, Starting, Using, Unregistering,
         Removed
<1>3. OneWriter'
  BY DEF Release, Goto, thr, bnd, Types, OneWriter, Counted, Starting, Using
<1>4. Closing'
  BY DEF Release, Goto, thr, bnd, Types, Holder, Closing, Opening, Unregistering, Removed
<1>5. Counts'
  BY CountsKept DEF Release, Goto, thr, bnd, Types, Using
<1>6. Threading'
  BY
     DEF Release, Goto, thr, bnd, Types, Holder, Closing, Opening, Unregistering,
         Threading, Semaphore, SemT, SemF, Critical, Known, Active, Young, Makes, Stops
<1>7. Ended'
  BY
     DEF Release, Goto, thr, bnd, Types, Closing, Opening, Unregistering, Removed, Ended,
         Running
<1>8. Served'
  BY
     DEF Release, Goto, thr, bnd, Types, Closing, OneWriter, Counted, Starting, Using,
         Threading, Known, Makes, Stops, Young, Served
<1> QED
  BY <1>1, <1>2, <1>3, <1>4, <1>5, <1>6, <1>7, <1>8

(* and puts its reference.                                                 *)
LEMMA ReleasePutsKeeps ==
    ASSUME IInv, NEW f \in Files, ReleasePuts(f)
    PROVE  IInv'
<1> USE FrontendAssumption DEF IInv, Actors, Files, DRIVER
<1>1. Types'
  BY
     DEF ReleasePuts, Goto, Put, thr, bnd, Types, Labels, Races, Starting, Using,
         Unregistering, Removed
<1>2. Holder'
  BY
     DEF ReleasePuts, Goto, Put, thr, bnd, Types, Holder, Opening, Starting, Using,
         Unregistering, Removed
<1>3. OneWriter'
  BY DEF ReleasePuts, Goto, Put, thr, bnd, Types, OneWriter, Counted, Starting, Using
<1>4. Closing'
  BY
     DEF ReleasePuts, Goto, Put, thr, bnd, Types, Holder, Closing, Opening,
         Unregistering, Removed
<1>5. Counts'
  <2>1. /\ pc[f] = "put" /\ pc' = [pc EXCEPT ![f] = "closed"]
        /\ refcount' = refcount - 1
    BY DEF ReleasePuts, Goto, Put
  <2>2. f \in Refs /\ Refs' = Refs \ {f}
    BY <2>1 DEF Types, Refs, Using
  <2>3. Cardinality(Refs)' = Cardinality(Refs) - 1 /\ Cardinality(Refs) # 0
    <3>1. Cardinality(Refs) # 0
      BY <2>2, RefsFinite
    <3> QED
      BY <2>2, <3>1, RefsFinite, FS_RemoveElement
  <2>4. DriverRefs' = DriverRefs /\ DriverRefs \in Nat
    BY <2>1 DEF DriverRefs, Types
  <2>5. freed' <=> freed \/ refcount = 1
    BY DEF ReleasePuts, Put
  <2> QED
    BY <2>1, <2>3, <2>4, <2>5, RefsFinite DEF Counts
<1>6. Threading'
  BY
     DEF ReleasePuts, Goto, Put, thr, bnd, Types, Holder, Closing, Opening,
         Unregistering, Threading, Semaphore, SemT, SemF, Critical, Known, Active, Young,
         Makes, Stops
<1>7. Ended'
  BY
     DEF ReleasePuts, Goto, Put, thr, bnd, Types, Closing, Opening, Unregistering,
         Removed, Ended, Running
<1>8. Served'
  BY
     DEF ReleasePuts, Goto, Put, thr, bnd, Types, Closing, OneWriter, Counted, Starting,
         Using, Threading, Known, Makes, Stops, Young, Served
<1> QED
  BY <1>1, <1>2, <1>3, <1>4, <1>5, <1>6, <1>7, <1>8

(* An ioctl takes the semaphore,                                           *)
LEMMA IoctlDownsKeeps ==
    ASSUME IInv, NEW f \in Files, IoctlDowns(f)
    PROVE  IInv'
<1> USE FrontendAssumption DEF IInv, Actors, Files, DRIVER
<1>1. Types'
  BY
     DEF IoctlDowns, Goto, dev, thr, Types, Labels, Races, Starting, Using,
         Unregistering, Removed
<1>2. Holder'
  BY
     DEF IoctlDowns, Goto, dev, thr, Types, Holder, Opening, Starting, Using,
         Unregistering, Removed
<1>3. OneWriter'
  BY DEF IoctlDowns, Goto, dev, thr, Types, OneWriter, Counted, Starting, Using
<1>4. Closing'
  BY DEF IoctlDowns, Goto, dev, thr, Types, Holder, Closing, Opening, Unregistering, Removed
<1>5. Counts'
  BY CountsKept DEF IoctlDowns, Goto, dev, thr, Types, Using
<1>6. Threading'
  BY
     DEF IoctlDowns, Goto, dev, thr, Types, Holder, Closing, Opening, Unregistering,
         Threading, Semaphore, SemT, SemF, Critical, Known, Active, Young, Makes, Stops
<1>7. Ended'
  BY
     DEF IoctlDowns, Goto, dev, thr, Types, Closing, Opening, Unregistering, Removed,
         Ended, Running
<1>8. Served'
  BY
     DEF IoctlDowns, Goto, dev, thr, Types, Closing, OneWriter, Counted, Starting, Using,
         Threading, Known, Makes, Stops, Young, Served
<1> QED
  BY <1>1, <1>2, <1>3, <1>4, <1>5, <1>6, <1>7, <1>8

(* looks at fe->exit,                                                      *)
LEMMA IoctlTestsKeeps ==
    ASSUME IInv, NEW f \in Files, IoctlTests(f)
    PROVE  IInv'
<1> USE FrontendAssumption DEF IInv, Actors, Files, DRIVER
<1>1. Types'
  BY
     DEF IoctlTests, Goto, dev, thr, bnd, Types, Labels, Races, Starting, Using,
         Unregistering, Removed
<1>2. Holder'
  BY
     DEF IoctlTests, Goto, dev, thr, bnd, Types, Holder, Opening, Starting, Using,
         Unregistering, Removed
<1>3. OneWriter'
  BY DEF IoctlTests, Goto, dev, thr, bnd, Types, OneWriter, Counted, Starting, Using
<1>4. Closing'
  BY
     DEF IoctlTests, Goto, dev, thr, bnd, Types, Holder, Closing, Opening, Unregistering,
         Removed
<1>5. Counts'
  BY CountsKept DEF IoctlTests, Goto, dev, thr, bnd, Types, Using
<1>6. Threading'
  BY
     DEF IoctlTests, Goto, dev, thr, bnd, Types, Holder, Closing, Opening, Unregistering,
         Threading, Semaphore, SemT, SemF, Critical, Known, Active, Young, Makes, Stops
<1>7. Ended'
  BY
     DEF IoctlTests, Goto, dev, thr, bnd, Types, Closing, Opening, Unregistering,
         Removed, Ended, Running
<1>8. Served'
  BY
     DEF IoctlTests, Goto, dev, thr, bnd, Types, Closing, OneWriter, Counted, Starting,
         Using, Threading, Known, Makes, Stops, Young, Served
<1> QED
  BY <1>1, <1>2, <1>3, <1>4, <1>5, <1>6, <1>7, <1>8

(* and gives it up.                                                        *)
LEMMA IoctlEndsKeeps ==
    ASSUME IInv, NEW f \in Files, IoctlEnds(f)
    PROVE  IInv'
<1> USE FrontendAssumption DEF IInv, Actors, Files, DRIVER
<1>1. Types'
  BY
     DEF IoctlEnds, Goto, dev, thr, bnd, Types, Labels, Races, Starting, Using,
         Unregistering, Removed
<1>2. Holder'
  BY
     DEF IoctlEnds, Goto, dev, thr, bnd, Types, Holder, Opening, Starting, Using,
         Unregistering, Removed
<1>3. OneWriter'
  BY DEF IoctlEnds, Goto, dev, thr, bnd, Types, OneWriter, Counted, Starting, Using
<1>4. Closing'
  BY
     DEF IoctlEnds, Goto, dev, thr, bnd, Types, Holder, Closing, Opening, Unregistering,
         Removed
<1>5. Counts'
  BY CountsKept DEF IoctlEnds, Goto, dev, thr, bnd, Types, Using
<1>6. Threading'
  BY
     DEF IoctlEnds, Goto, dev, thr, bnd, Types, Holder, Closing, Opening, Unregistering,
         Threading, Semaphore, SemT, SemF, Critical, Known, Active, Young, Makes, Stops
<1>7. Ended'
  BY
     DEF IoctlEnds, Goto, dev, thr, bnd, Types, Closing, Opening, Unregistering, Removed,
         Ended, Running
<1>8. Served'
  BY
     DEF IoctlEnds, Goto, dev, thr, bnd, Types, Closing, OneWriter, Counted, Starting,
         Using, Threading, Known, Makes, Stops, Young, Served
<1> QED
  BY <1>1, <1>2, <1>3, <1>4, <1>5, <1>6, <1>7, <1>8

(* The driver begins to unregister,                                        *)
LEMMA UnregisterKeeps ==
    ASSUME IInv, Unregister
    PROVE  IInv'
<1> USE FrontendAssumption DEF IInv, Actors, Files, DRIVER
<1>1. Types'
  BY
     DEF Unregister, Goto, Race, dev, thr, bnd, Types, Labels, Races, Starting, Using,
         Unregistering, Removed
<1>2. Holder'
  BY
     DEF Unregister, Goto, Race, dev, thr, bnd, Types, Holder, Opening, Starting, Using,
         Unregistering, Removed
<1>3. OneWriter'
  BY DEF Unregister, Goto, Race, dev, thr, bnd, Types, OneWriter, Counted, Starting, Using
<1>4. Closing'
  BY
     DEF Unregister, Goto, Race, dev, thr, bnd, Types, Holder, Closing, Opening,
         Unregistering, Removed
<1>5. Counts'
  BY CountsKept DEF Unregister, Goto, Race, dev, thr, bnd, Types, Using
<1>6. Threading'
  BY
     DEF Unregister, Goto, Race, dev, thr, bnd, Types, Holder, Closing, Opening,
         Unregistering, Threading, Semaphore, SemT, SemF, Critical, Known, Active, Young,
         Makes, Stops
<1>7. Ended'
  BY
     DEF Unregister, Goto, Race, dev, thr, bnd, Types, Closing, Opening, Unregistering,
         Removed, Ended, Running
<1>8. Served'
  BY
     DEF Unregister, Goto, Race, dev, thr, bnd, Types, Closing, OneWriter, Counted,
         Starting, Using, Threading, Known, Makes, Stops, Young, Served
<1> QED
  BY <1>1, <1>2, <1>3, <1>4, <1>5, <1>6, <1>7, <1>8

(* removes the device when no open is under way,                           *)
LEMMA RemoveKeeps ==
    ASSUME IInv, Remove
    PROVE  IInv'
<1> USE FrontendAssumption DEF IInv, Actors, Files, DRIVER
<1>1. Types'
  BY DEF Remove, Goto, thr, bnd, Types, Labels, Races, Starting, Using, Unregistering, Removed
<1>2. Holder'
  BY
     DEF Remove, Goto, thr, bnd, Types, Holder, Opening, Starting, Using, Unregistering,
         Removed
<1>3. OneWriter'
  BY DEF Remove, Goto, thr, bnd, Types, OneWriter, Counted, Starting, Using
<1>4. Closing'
  BY DEF Remove, Goto, thr, bnd, Types, Holder, Closing, Opening, Unregistering, Removed
<1>5. Counts'
  BY CountsKept DEF Remove, Goto, thr, bnd, Types, Using
<1>6. Threading'
  BY
     DEF Remove, Goto, thr, bnd, Types, Holder, Closing, Opening, Unregistering,
         Threading, Semaphore, SemT, SemF, Critical, Known, Active, Young, Makes, Stops
<1>7. Ended'
  BY
     DEF Remove, Goto, thr, bnd, Types, Closing, Opening, Unregistering, Removed, Ended,
         Running
<1>8. Served'
  BY
     DEF Remove, Goto, thr, bnd, Types, Closing, OneWriter, Counted, Starting, Using,
         Threading, Known, Makes, Stops, Young, Served
<1> QED
  BY <1>1, <1>2, <1>3, <1>4, <1>5, <1>6, <1>7, <1>8

(* and puts its two references.                                            *)
LEMMA DriverPutsKeeps ==
    ASSUME IInv, DriverPuts
    PROVE  IInv'
<1> USE FrontendAssumption DEF IInv, Actors, Files, DRIVER
<1>1. Types'
  BY
     DEF DriverPuts, Goto, Put, thr, bnd, Types, Labels, Races, Starting, Using,
         Unregistering, Removed
<1>2. Holder'
  BY
     DEF DriverPuts, Goto, Put, thr, bnd, Types, Holder, Opening, Starting, Using,
         Unregistering, Removed
<1>3. OneWriter'
  BY DEF DriverPuts, Goto, Put, thr, bnd, Types, OneWriter, Counted, Starting, Using
<1>4. Closing'
  BY
     DEF DriverPuts, Goto, Put, thr, bnd, Types, Holder, Closing, Opening, Unregistering,
         Removed
<1>5. Counts'
  <2>1. /\ \/ pc[DRIVER] = "put" /\ pc' = [pc EXCEPT ![DRIVER] = "detach"]
           \/ pc[DRIVER] = "detach" /\ pc' = [pc EXCEPT ![DRIVER] = "done"]
        /\ refcount' = refcount - 1
    BY DEF DriverPuts, Goto, Put
  <2>2. Refs' = Refs
    BY <2>1 DEF Types, Refs
  <2>3. DriverRefs' = DriverRefs - 1 /\ DriverRefs > 0 /\ DriverRefs \in Nat
    BY <2>1 DEF DriverRefs, Types
  <2>4. freed' <=> freed \/ refcount = 1
    BY DEF DriverPuts, Put
  <2> QED
    BY <2>1, <2>2, <2>3, <2>4, RefsFinite DEF Counts
<1>6. Threading'
  BY
     DEF DriverPuts, Goto, Put, thr, bnd, Types, Holder, Closing, Opening, Unregistering,
         Threading, Semaphore, SemT, SemF, Critical, Known, Active, Young, Makes, Stops
<1>7. Ended'
  BY
     DEF DriverPuts, Goto, Put, thr, bnd, Types, Closing, Opening, Unregistering,
         Removed, Ended, Running
<1>8. Served'
  BY
     DEF DriverPuts, Goto, Put, thr, bnd, Types, Closing, OneWriter, Counted, Starting,
         Using, Threading, Known, Makes, Stops, Young, Served
<1> QED
  BY <1>1, <1>2, <1>3, <1>4, <1>5, <1>6, <1>7, <1>8

---------------------------------------------------------------------------
(* Every step keeps the invariant.                                         *)
LEMMA NextIInv == IInv /\ [Next]_vars => IInv'
<1> SUFFICES ASSUME IInv, [Next]_vars PROVE IInv'
  OBVIOUS
<1>1. ASSUME NEW t \in Threads, ThreadStep(t) PROVE IInv'
  BY <1>1, ThreadInitKeeps, ThreadWakesKeeps, ThreadDownKeeps, ThreadIteratesKeeps, ThreadQuitsKeeps,
     ThreadSleepsKeeps, ThreadUpsKeeps, ThreadEndsKeeps DEF ThreadStep
<1>2. ASSUME NEW a \in Actors, Stop(a) PROVE IInv'
  BY <1>2, StopSetsExitKeeps, StopThreadKeeps, StopJoinsKeeps DEF Stop
<1>3. ASSUME NEW f \in Files, OpenEnters(f) \/ Release(f) \/ IoctlDowns(f) PROVE IInv'
  BY <1>3, OpenEntersKeeps, ReleaseKeeps, IoctlDownsKeeps
<1>4. ASSUME NEW f \in Files, FileStep(f) PROVE IInv'
  <2>1. CASE Stop(f)
    BY <1>2, <2>1 DEF Actors
  <2> QED
    BY <1>4, <2>1, OpenCountsKeeps, OpenStartsKeeps, OpenDownsKeeps, OpenFailsKeeps, OpenCreatesKeeps,
       OpenPublishesKeeps, OpenGetsKeeps, ReleasePutsKeeps, IoctlTestsKeeps, IoctlEndsKeeps DEF FileStep
<1>5. CASE Unregister \/ DriverStep
  <2>1. CASE Stop(DRIVER)
    BY <1>2, <2>1 DEF Actors
  <2> QED
    BY <1>5, <2>1, UnregisterKeeps, RemoveKeeps, DriverPutsKeeps DEF DriverStep
<1>6. CASE Done \/ UNCHANGED vars
  <2>1. /\ UNCHANGED <<sem, exit, thread, state, writers, registered, refcount, freed, mutex>>
        /\ UNCHANGED <<tpc, should_stop, pc, victim, raced>>
    BY <1>6 DEF Done, vars, dev, thr, act
  <2>2. Types' /\ Holder' /\ OneWriter' /\ Closing' /\ Counts'
    BY <2>1 DEF IInv, Types, Holder, OneWriter, Closing, Counts, Refs, DriverRefs
  <2>3. Threading'
    BY <2>1 DEF IInv, Threading, Semaphore, SemT, SemF, Known, Active, Makes, Stops
  <2>4. Ended' /\ Served'
    BY <2>1 DEF IInv, Ended, Running, Served
  <2> QED
    BY <2>2, <2>3, <2>4 DEF IInv
<1> QED
  BY <1>1, <1>3, <1>4, <1>5, <1>6 DEF Next

(* The invariant holds in every reachable state.                           *)
LEMMA Invariant == Spec => []IInv
<1> QED
  BY InitIInv, NextIInv, PTL DEF Spec

(* A set whose elements are all equal has at most one.                     *)
LEMMA AtMostOne ==
    ASSUME NEW S, \A x, y \in S : x = y
    PROVE  (S = {} /\ Cardinality(S) = 0) \/ Cardinality(S) = 1
<1>1. CASE S = {}
  BY <1>1, FS_EmptySet
<1>2. CASE S # {}
  <2>1. PICK x : x \in S
    BY <1>2
  <2>2. S = {x}
    BY <2>1
  <2> QED
    BY <2>2, FS_Singleton
<1> QED
  BY <1>1, <1>2

(* The thread's iterations and the ioctls exclude one another: fepriv->sem *)
(* is held by one of them at a time, although dvb_frontend_stop            *)
(* initialises it again, as long as it does not do so under an ioctl and   *)
(* no open for writing overlaps the unregistering.                         *)
THEOREM SemaphoreExcludes == Spec => []MutualExclusion
<1>1. IInv => MutualExclusion
  <2> SUFFICES ASSUME IInv, raced \cap {"sem", "open"} = {}
               PROVE  Cardinality(SemT) + Cardinality({f \in Files : pc[f] = "ioctl"}) <= 1
    BY DEF MutualExclusion, SemT
  <2> DEFINE I == {f \in Files : pc[f] = "ioctl"}
  <2>1. Semaphore /\ I \subseteq SemF
    BY DEF IInv, Threading, SemF
  <2>2. (SemT = {} \/ I = {}) /\ (\A t, u \in SemT : t = u) /\ (\A f, g \in I : f = g)
    BY <2>1 DEF Semaphore
  <2>3. (SemT = {} /\ Cardinality(SemT) = 0) \/ Cardinality(SemT) = 1
    BY <2>2, AtMostOne
  <2>4. (I = {} /\ Cardinality(I) = 0) \/ Cardinality(I) = 1
    <3> HIDE DEF I
    <3> QED
      BY <2>2, AtMostOne
  <2> QED
    BY <2>2, <2>3, <2>4, FS_EmptySet
<1> QED
  BY <1>1, Invariant, PTL

(* However fast the device is closed and opened again, at most one kernel  *)
(* thread uses the hardware, and fepriv->thread is one that has not ended, *)
(* with the same two exceptions.                                           *)
THEOREM AtMostOneThread == Spec => []OneThread
<1>1. IInv => OneThread
  <2> SUFFICES ASSUME IInv, raced \cap {"sem", "open"} = {}
               PROVE  /\ Cardinality({t \in Running : tpc[t] # "last"}) <= 1
                      /\ thread # NULL => thread \in Running
    BY DEF OneThread
  <2>1. Known /\ Types
    BY DEF IInv, Threading
  <2>2. {t \in Running : tpc[t] # "last"} = Active
    BY DEF Running, Active
  <2>3. Cardinality(Active) <= 1
    BY <2>1, AtMostOne DEF Known
  <2>4. thread # NULL => thread \in Running
    BY <2>1 DEF Known, Types, Running, Young
  <2> QED
    BY <2>2, <2>3, <2>4
<1> QED
  BY <1>1, Invariant, PTL

(* The reference count is exact, unregistering leaves no thread behind,    *)
(* and a frontend that dvb_frontend_free has freed has no user, if nobody  *)
(* opens it for writing meanwhile and no thread was ending on its own.     *)
THEOREM NoUseAfterFree == Spec => []FreedIsUnused
<1>1. IInv => TypeOK
  <2> SUFFICES ASSUME IInv PROVE TypeOK
    OBVIOUS
  <2>1. {f \in Files : pc[f] \in {"open", "down_ioctl", "ioctl", "put"}} = Refs
    BY DEF Refs, Using
  <2>2. DriverRefs = CASE pc[DRIVER] = "detach" -> 1 [] pc[DRIVER] = "done" -> 0 [] OTHER -> 2
    BY Zenon DEF DriverRefs
  <2>3. refcount = Cardinality(Refs) + DriverRefs /\ (freed <=> refcount = 0)
    BY DEF IInv, Counts
  <2>4. /\ sem \in Nat /\ exit \in {"NO_EXIT", "NORMAL_EXIT", "DEVICE_REMOVED"}
        /\ thread \in Threads \cup {NULL} /\ mutex \in Files \cup {NULL}
        /\ state \in {"IDLE", "RETUNE", "TUNED"} /\ raced \subseteq Races
    BY DEF IInv, Types
  <2> QED
    BY <2>1, <2>2, <2>3, <2>4, Zenon DEF TypeOK
<1>2. ASSUME IInv, raced \cap {"open", "ending"} = {}
      PROVE  pc[DRIVER] \in {"put", "detach", "done"} => Running = {}
  BY <1>2 DEF IInv, Ended, Removed
<1>3. ASSUME IInv, freed PROVE \A f \in Files : pc[f] = "closed"
  <2>1. DriverRefs \in 0 .. 2 /\ (DriverRefs = 0 => pc[DRIVER] = "done")
    BY DEF DriverRefs
  <2>2. Refs = {} /\ pc[DRIVER] = "done"
    BY <1>3, <2>1, RefsFinite DEF IInv, Counts
  <2>3. \A f \in Files : pc[f] \notin {"put"} \cup Using \cup Opening
    BY <1>3, <2>2 DEF IInv, Closing, Removed, Refs
  <2> QED
    BY <1>3, <2>3 DEF IInv, Types, Files, Opening, Starting, Using
<1>4. IInv => FreedIsUnused
  BY <1>1, <1>2, <1>3 DEF FreedIsUnused
<1> QED
  BY <1>4, Invariant, PTL

(* The hardware is never put to sleep under a file that is open for        *)
(* writing, before the frontend is unregistered, unless the file relied on *)
(* a thread that had decided to end or the semaphore was initialised under *)
(* an ioctl.                                                               *)
THEOREM HardwareStaysAwake == Spec => AwakeWhileOpen
<1> DEFINE A == hw = "awake" /\ hw' = "asleep" =>
                  InUse = {} \/ pc[DRIVER] # "closed" \/ raced \cap {"decided", "sem"} # {}
<1>1. ASSUME IInv, [Next]_vars, hw = "awake", hw' = "asleep",
             pc[DRIVER] = "closed", raced \cap {"decided", "sem"} = {}
      PROVE  InUse = {}
  <2>1. PICK t \in Threads : tpc[t] = "quit"
    BY <1>1
       DEF Next, ThreadStep, ThreadInit, ThreadWakes, ThreadDown, ThreadIterates, ThreadQuits, ThreadSleeps,
           ThreadUps, ThreadEnds, FileStep, Stop, StopSetsExit, StopThread, StopJoins, OpenEnters, OpenCounts,
           OpenStarts, OpenDowns, OpenFails, OpenCreates, OpenPublishes, OpenGets, Release, ReleasePuts,
           IoctlDowns, IoctlTests, IoctlEnds, Unregister, DriverStep, Remove, DriverPuts, Done, vars
  <2>2. raced \cap {"sem", "open"} = {}
    BY <1>1 DEF IInv, Closing
  <2>3. exit # "NO_EXIT"
    BY <1>1, <2>1, <2>2 DEF IInv, Threading, Stops
  <2> QED
    BY <1>1, <2>3 DEF IInv, Served, InUse, Using
<1>2. IInv /\ [Next]_vars => [A]_vars
  BY <1>1
<1> QED
  BY <1>2, Invariant, PTL DEF Spec, AwakeWhileOpen
=============================================================================
