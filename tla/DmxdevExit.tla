---------------------------- MODULE DmxdevExit -----------------------------
(***************************************************************************)
(* The end of a demux: dvb_dmxdev_release waits until nobody uses the      *)
(* demux and the dvr device any more, unregisters and frees them, while    *)
(* files are opened, read and closed.  open and close hold dmxdev->mutex,  *)
(* open also dvbdev_mutex and minor_rwsem; dvb_dmxdev_release holds none   *)
(* of them, and takes minor_rwsem only to remove a device.                 *)
(*                                                                         *)
(* exit shares its word with may_do_mmap, which every open stores: read    *)
(* and write of the word are two steps.                                    *)
(***************************************************************************)
EXTENDS Integers, FiniteSets

CONSTANTS
    DemuxFiles, DvrFiles    \* the files that are opened and closed

VARIABLES
    exit,                   \* dmxdev->exit
    users,                  \* dvbdev->users of the two devices
    freed,                  \* devices that are unregistered and freed
    mutex,                  \* the open that holds dmxdev->mutex
    fpc, word,              \* a file, and the word it has read
    relpc,                  \* dvb_dmxdev_release
    raced                   \* an open overlapped its beginning or came later

exitvars == <<exit, users, freed, mutex, fpc, word, relpc, raced>>

NoFile == "no file"
Files == DemuxFiles \cup DvrFiles
Devices == {"demux", "dvr"}

ASSUME ExitAssumption ==
    /\ DemuxFiles \cap DvrFiles = {}
    /\ IsFiniteSet(Files) /\ NoFile \notin Files

Device(f) == IF f \in DemuxFiles THEN "demux" ELSE "dvr"

ExitInit ==
    /\ exit = FALSE
    /\ users = [d \in Devices |-> 1] /\ freed = {}
    /\ mutex = NoFile
    /\ fpc = [f \in Files |-> "closed"] /\ word = [f \in Files |-> FALSE]
    /\ relpc = "idle" /\ raced = FALSE

---------------------------------------------------------------------------
(* The files                                                               *)

(* dvb_device_open, then dvb_demux_open or dvb_dvr_open, which alone looks *)
(* at exit                                                                 *)
OpenBegins(f) ==
    /\ fpc[f] = "closed" /\ Device(f) \notin freed
    /\ mutex = NoFile /\ mutex' = f
    /\ f \in DvrFiles => ~exit
    /\ raced' = (raced \/ relpc # "idle")
    /\ fpc' = [fpc EXCEPT ![f] = "opening"]
    /\ UNCHANGED <<exit, users, freed, word, relpc>>

(* dmxdev->may_do_mmap = 0: the word is read ...                           *)
OpenReads(f) ==
    /\ fpc[f] = "opening"
    /\ word' = [word EXCEPT ![f] = exit]
    /\ fpc' = [fpc EXCEPT ![f] = "storing"]
    /\ UNCHANGED <<exit, users, freed, mutex, relpc, raced>>

(* ... and written; users++ and mutex_unlock                               *)
OpenEnds(f) ==
    /\ fpc[f] = "storing"
    /\ exit' = word[f] /\ word' = [word EXCEPT ![f] = FALSE]
    /\ users' = [users EXCEPT ![Device(f)] = @ + 1]
    /\ mutex' = NoFile
    /\ fpc' = [fpc EXCEPT ![f] = "open"]
    /\ UNCHANGED <<freed, relpc, raced>>

(* A read on an empty buffer; dvb_dvr_read looks at exit before it.        *)
ReadBlocks(f) ==
    /\ fpc[f] = "open" /\ (f \in DvrFiles => ~exit)
    /\ fpc' = [fpc EXCEPT ![f] = "reading"]
    /\ UNCHANGED <<exit, users, freed, mutex, word, relpc, raced>>

(* Data, or a signal                                                       *)
ReadReturns(f) ==
    /\ fpc[f] = "reading"
    /\ fpc' = [fpc EXCEPT ![f] = "open"]
    /\ UNCHANGED <<exit, users, freed, mutex, word, relpc, raced>>

(* A bug: close does not look for a release.                               *)
CloseSilent(f) ==
    /\ fpc[f] = "open" /\ mutex = NoFile
    /\ users' = [users EXCEPT ![Device(f)] = @ - 1]
    /\ fpc' = [fpc EXCEPT ![f] = "closed"]
    /\ UNCHANGED <<exit, freed, mutex, word, relpc, raced>>

(* dvb_demux_release and dvb_dvr_release                                   *)
Close(f) ==
    /\ fpc[f] = "open" /\ mutex = NoFile
    /\ users' = [users EXCEPT ![Device(f)] = @ - 1]
    /\ fpc' = [fpc EXCEPT ![f] =
                  IF users[Device(f)] = 2 /\ exit THEN "wakes" ELSE "closed"]
    /\ UNCHANGED <<exit, freed, mutex, word, relpc, raced>>

(* wake_up(&dvbdev->wait_queue), after mutex_unlock                        *)
WakeUp(f) ==
    /\ fpc[f] = "wakes"
    /\ fpc' = [fpc EXCEPT ![f] = "closed"]
    /\ relpc' = CASE relpc = "demux asleep" /\ f \in DemuxFiles -> "demux"
                  [] relpc = "dvr asleep" /\ f \in DvrFiles -> "dvr"
                  [] OTHER -> relpc
    /\ UNCHANGED <<exit, users, freed, mutex, word, raced>>

---------------------------------------------------------------------------
(* dvb_dmxdev_release                                                      *)

ReleaseBegins ==
    /\ relpc = "idle" /\ relpc' = "demux"
    /\ exit' = TRUE
    /\ raced' = (mutex # NoFile)
    /\ UNCHANGED <<users, freed, mutex, fpc, word>>

WaitForDemux ==
    /\ relpc = "demux"
    /\ relpc' = IF users["demux"] = 1 THEN "dvr" ELSE "demux asleep"
    /\ UNCHANGED <<exit, users, freed, mutex, fpc, word, raced>>

(* A bug: the dvr device is not waited for.                                *)
WaitForDvrNot ==
    /\ relpc = "dvr"
    /\ relpc' = "unregister demux"
    /\ UNCHANGED <<exit, users, freed, mutex, fpc, word, raced>>

WaitForDvr ==
    /\ relpc = "dvr"
    /\ relpc' = IF users["dvr"] = 1 THEN "unregister demux" ELSE "dvr asleep"
    /\ UNCHANGED <<exit, users, freed, mutex, fpc, word, raced>>

(* dvb_unregister_device: an open holds minor_rwsem to its end.            *)
Unregister(d, next) ==
    /\ \A f \in Files : fpc[f] \notin {"opening", "storing"}
    /\ freed' = freed \cup {d}
    /\ relpc' = next
    /\ UNCHANGED <<exit, users, mutex, fpc, word, raced>>

UnregisterDemux == relpc = "unregister demux" /\ Unregister("demux", "unregister dvr")
UnregisterDvr == relpc = "unregister dvr" /\ Unregister("dvr", "done")

---------------------------------------------------------------------------
OpenSteps(f) == OpenReads(f) \/ OpenEnds(f)
CloseSteps(f) == Close(f) \/ WakeUp(f)
Release == WaitForDemux \/ WaitForDvr \/ UnregisterDemux \/ UnregisterDvr

ExitNext ==
    \/ \E f \in Files : \/ OpenBegins(f) \/ OpenSteps(f)
                        \/ ReadBlocks(f) \/ ReadReturns(f) \/ CloseSteps(f)
    \/ ReleaseBegins \/ Release

(* Whoever finds the device gone closes his file: the programs owe that,   *)
(* nothing is owed to a read that waits.  dmxdev->mutex is handed over in  *)
(* turn.                                                                   *)
ExitSpec ==
    /\ ExitInit /\ [][ExitNext]_exitvars
    /\ WF_exitvars(Release)
    /\ \A f \in Files : /\ WF_exitvars(OpenSteps(f)) /\ WF_exitvars(WakeUp(f))
                        /\ SF_exitvars(Close(f))

---------------------------------------------------------------------------
(* Properties                                                              *)

ExitTypeOK ==
    /\ exit \in BOOLEAN /\ freed \subseteq Devices
    /\ users \in [Devices -> 1 .. Cardinality(Files) + 1]
    /\ fpc \in [Files -> {"closed", "opening", "storing", "open", "reading", "wakes"}]
    /\ mutex # NoFile <=> \E f \in Files : fpc[f] \in {"opening", "storing"}

(* The users are counted right, and a file that is open, or read from, has *)
(* its device: exit is the "flag to indicate that the demux is being       *)
(* released", and dvb_dmxdev_release waits for the present users, unless   *)
(* an open is not through when it begins or comes later.                   *)
OpenKeepsDevice ==
    /\ ExitTypeOK
    /\ ~raced => \A f \in Files : fpc[f] \in {"open", "reading"} => Device(f) \notin freed

(* dvb_dmxdev_release "releases a digital TV demux and unregisters it":    *)
(* it comes to its end once all have closed their files, no wake-up is     *)
(* lost; but a reader who waits for data keeps it waiting.                 *)
ReleaseReturns ==
    relpc # "idle" ~> \/ relpc = "done"
                      \/ raced
                      \/ \E f \in Files : fpc[f] = "reading"
=============================================================================
