---------------------------- MODULE FileCheckpoint ----------------------------
(***************************************************************************)
(* FileCheckpointStore: the positions of several sources share one JSON    *)
(* file.  An update (save or clear) reads the file, changes its own key    *)
(* and replaces the file under a process-wide lock of the path; updates of *)
(* different keys run at once, fail or are dropped at any await, and the   *)
(* process or the machine may go down between any two steps.               *)
(***************************************************************************)
EXTENDS Naturals, FiniteSets

CONSTANTS
    Savers,         \* the stores, one key each
    FcSaves,        \* how many positions each saves, numbered from 1
    FcClears,       \* bound on clears
    FcOutages       \* bound on crashes and power losses

ASSUME CheckpointBounds ==
    /\ IsFiniteSet(Savers) /\ Savers # {}
    /\ FcSaves \in Nat /\ FcClears \in Nat /\ FcOutages \in Nat

\* A file maps keys to positions, 0 for none; Torn is one that does not parse.
Maps == [Savers -> 0..FcSaves]
Torn == [k \in {} |-> 0]

\* Lock objects: at most one per saver and the entry of the map.
Locks == 0..Cardinality(Savers)

VARIABLES
    fcPc,           \* where each store's update is
    fcGoal,         \* the position it is to leave, 0 if it clears the key
    fcLock,         \* the lock object it got from path_lock
    fcEntry,        \* the lock object the process-wide map has for the path
    fcMap,          \* the map an update has read and changed
    fcTmp,          \* its temporary file: none, written, synced
    fcFile,         \* the file as processes see it
    fcDurable,      \* what the disk may hold of it when power is lost
    fcLate,         \* renames of dropped updates that are still to happen
    fcLast,         \* the last position each store began to save
    fcKept,         \* what the last update that returned left, or one begun since may leave
    fcUndone,       \* a late rename or a power loss has brought back an older file
    fcClears,       \* clears so far
    fcOutages       \* outages so far

fcVars == <<fcPc, fcGoal, fcLock, fcEntry, fcMap, fcTmp, fcFile, fcDurable, fcLate, fcLast, fcKept,
            fcUndone, fcClears, fcOutages>>

Empty == [k \in Savers |-> 0]

FcInit ==
    /\ fcPc = [s \in Savers |-> "idle"]
    /\ fcGoal = Empty
    /\ fcLock = [s \in Savers |-> 0]
    /\ fcEntry = 0
    /\ fcMap = [s \in Savers |-> Empty]
    /\ fcTmp = [s \in Savers |-> "none"]
    /\ fcFile = Empty
    /\ fcDurable = {Empty}
    /\ fcLate = {}
    /\ fcLast = Empty
    /\ fcKept = [s \in Savers |-> {0}]
    /\ fcUndone = FALSE
    /\ fcClears = 0 /\ fcOutages = 0

-----------------------------------------------------------------------------
(* update *)

\* Updates that hold an Arc of a lock object.
Holders(lock) == {s \in Savers : fcPc[s] # "idle" /\ fcLock[s] = lock}

\* path_lock: the map's lock for the path; one that nobody else has is replaced.
PathLock ==
    IF Holders(fcEntry) # {} THEN fcEntry ELSE CHOOSE l \in Locks : Holders(l) = {}

UpdateBegins(s, goal) ==
    /\ fcPc[s] = "idle"
    /\ fcGoal' = [fcGoal EXCEPT ![s] = goal]
    /\ fcKept' = [fcKept EXCEPT ![s] = @ \cup {goal}]
    /\ fcLock' = [fcLock EXCEPT ![s] = PathLock]
    /\ fcEntry' = PathLock
    /\ fcPc' = [fcPc EXCEPT ![s] = "queued"]
    /\ UNCHANGED <<fcMap, fcTmp, fcFile, fcDurable, fcLate, fcUndone, fcOutages>>

\* save: the source has got on.
SaveBegins(s) ==
    /\ fcLast[s] < FcSaves
    /\ fcLast' = [fcLast EXCEPT ![s] = @ + 1]
    /\ UpdateBegins(s, fcLast[s] + 1)
    /\ UNCHANGED fcClears

\* clear: the position is to be forgotten.
ClearBegins(s) ==
    /\ fcClears < FcClears
    /\ fcClears' = fcClears + 1
    /\ UpdateBegins(s, 0)
    /\ UNCHANGED fcLast

\* The lock is got and the file read; a file that does not parse fails the update.
ReadMap(s) ==
    /\ fcPc[s] = "queued"
    /\ \A t \in Holders(fcLock[s]) \ {s} : fcPc[t] = "queued"
    /\ IF fcFile = Torn
         THEN fcPc' = [fcPc EXCEPT ![s] = "idle"] /\ fcMap' = fcMap
         ELSE /\ fcMap' = [fcMap EXCEPT ![s] = [fcFile EXCEPT ![s] = fcGoal[s]]]
              /\ fcPc' = [fcPc EXCEPT ![s] = "writing"]
    /\ UNCHANGED <<fcGoal, fcLock, fcEntry, fcTmp, fcFile, fcDurable, fcLate, fcLast, fcKept, fcUndone, fcClears, fcOutages>>

\* Mutated: the temporary file is not synced.
WriteTmpUnsynced(s) ==
    /\ fcPc[s] = "writing"
    /\ fcTmp' = [fcTmp EXCEPT ![s] = "written"]
    /\ fcPc' = [fcPc EXCEPT ![s] = "renaming"]
    /\ UNCHANGED <<fcGoal, fcLock, fcEntry, fcMap, fcFile, fcDurable, fcLate, fcLast, fcKept, fcUndone, fcClears, fcOutages>>

\* A temporary file of its own is written, then synced.
WriteTmp(s) ==
    /\ fcPc[s] = "writing"
    /\ \/ fcTmp[s] = "none" /\ fcTmp' = [fcTmp EXCEPT ![s] = "written"] /\ fcPc' = fcPc
       \/ /\ fcTmp[s] = "written"
          /\ fcTmp' = [fcTmp EXCEPT ![s] = "synced"]
          /\ fcPc' = [fcPc EXCEPT ![s] = "renaming"]
    /\ UNCHANGED <<fcGoal, fcLock, fcEntry, fcMap, fcFile, fcDurable, fcLate, fcLast, fcKept, fcUndone, fcClears, fcOutages>>

\* A file that replaces the target: without a sync, power loss may leave it torn.
Replaces(map, tmp) ==
    /\ fcFile' = map
    /\ fcDurable' = fcDurable \cup {map} \cup (IF tmp = "synced" THEN {} ELSE {Torn})

Rename(s) ==
    /\ fcPc[s] = "renaming"
    /\ Replaces(fcMap[s], fcTmp[s])
    /\ fcTmp' = [fcTmp EXCEPT ![s] = "none"]
    /\ fcPc' = [fcPc EXCEPT ![s] = "syncing"]
    /\ UNCHANGED <<fcGoal, fcLock, fcEntry, fcMap, fcLate, fcLast, fcKept, fcUndone, fcClears, fcOutages>>

\* The directory is synced, if that can be done, and the update returns.
SyncDir(s) ==
    /\ fcPc[s] = "syncing"
    /\ fcDurable' \in {fcDurable, {fcFile}}
    /\ fcKept' = [fcKept EXCEPT ![s] = {fcGoal[s]}]
    /\ fcPc' = [fcPc EXCEPT ![s] = "idle"]
    /\ UNCHANGED <<fcGoal, fcLock, fcEntry, fcMap, fcTmp, fcFile, fcLate, fcLast, fcUndone, fcClears, fcOutages>>

\* Writing or renaming fails: the temporary file is removed and the update returns an error.
SaveFails(s) ==
    /\ fcPc[s] \in {"writing", "renaming"}
    /\ fcTmp' = [fcTmp EXCEPT ![s] = "none"]
    /\ fcPc' = [fcPc EXCEPT ![s] = "idle"]
    /\ UNCHANGED <<fcGoal, fcLock, fcEntry, fcMap, fcFile, fcDurable, fcLate, fcLast, fcKept, fcUndone, fcClears, fcOutages>>

\* The update is dropped at an await and lets go of the lock.  A rename already handed to the
\* blocking pool happens all the same.
SaveDropped(s) ==
    /\ fcPc[s] # "idle"
    /\ fcPc' = [fcPc EXCEPT ![s] = "idle"]
    /\ fcTmp' = [fcTmp EXCEPT ![s] = "none"]
    /\ fcLate' = IF fcPc[s] = "renaming" THEN fcLate \cup {fcMap[s]} ELSE fcLate
    /\ UNCHANGED <<fcGoal, fcLock, fcEntry, fcMap, fcFile, fcDurable, fcLast, fcKept, fcUndone, fcClears, fcOutages>>

LateRename(m) ==
    /\ Replaces(m, "synced")
    /\ fcLate' = fcLate \ {m}
    /\ fcUndone' = TRUE
    /\ UNCHANGED <<fcPc, fcGoal, fcLock, fcEntry, fcMap, fcTmp, fcLast, fcKept, fcClears, fcOutages>>

\* The process ends between two steps, or the machine does.  Temporary files stay behind;
\* a new process picks other names.
Outage ==
    /\ fcOutages < FcOutages
    /\ fcOutages' = fcOutages + 1
    /\ \/ fcFile' = fcFile /\ fcDurable' = fcDurable
       \/ fcFile' \in fcDurable /\ fcDurable' = {fcFile'}
    /\ fcUndone' = (fcUndone \/ fcFile' # fcFile)
    /\ fcPc' = [s \in Savers |-> "idle"]
    /\ fcTmp' = [s \in Savers |-> "none"]
    /\ fcLate' = {}
    /\ UNCHANGED <<fcGoal, fcLock, fcEntry, fcMap, fcLast, fcKept, fcClears>>

FcNext ==
    \/ \E s \in Savers :
        \/ SaveBegins(s) \/ ClearBegins(s) \/ ReadMap(s) \/ WriteTmp(s) \/ Rename(s) \/ SyncDir(s)
        \/ SaveFails(s) \/ SaveDropped(s)
    \/ \E m \in fcLate : LateRename(m)
    \/ Outage

FcSpec == FcInit /\ [][FcNext]_fcVars

-----------------------------------------------------------------------------
(* Properties *)

\* The types of the variables.
FcTypeOK ==
    /\ fcPc \in [Savers -> {"idle", "queued", "writing", "renaming", "syncing"}]
    /\ fcGoal \in Maps /\ fcLock \in [Savers -> Locks] /\ fcEntry \in Locks
    /\ fcMap \in [Savers -> Maps]
    /\ fcTmp \in [Savers -> {"none", "written", "synced"}]
    /\ fcFile \in Maps \cup {Torn}
    /\ fcLast \in Maps /\ fcKept \in [Savers -> SUBSET (0..FcSaves)]

\* Two updates of one file never run at once, although the map forgets locks.
OneWriter ==
    \A s, t \in Savers : fcPc[s] \notin {"idle", "queued"} /\ fcPc[t] \notin {"idle", "queued"} => s = t

\* Neither a crash nor a loss of power leaves a file that cannot be read, and with it the
\* positions of all stores.
NeverTorn == fcFile # Torn /\ Torn \notin fcDurable

\* What an update that returned has left, a position or none, is neither lost to an update
\* of another key or a crash of the process nor comes back once it is cleared; only a power
\* loss before the directory was synced, or the rename of a dropped update, may bring back
\* an older file.
SavedStays ==
    ~fcUndone => \A s \in Savers : fcFile[s] \in fcKept[s]

\* Whatever happens, no position runs ahead of what its source asked to save.
NeverAhead == \A s \in Savers : fcFile[s] <= fcLast[s]

\* What the checkpoint file keeps true.
FileCheckpointInv == FcTypeOK /\ OneWriter /\ NeverTorn /\ SavedStays /\ NeverAhead

-----------------------------------------------------------------------------
(* The inductive invariant *)

Saving(s) == fcPc[s] \in {"writing", "renaming"}

\* Every update under way has the lock the map has now.
LockInv == \A s \in Savers : fcPc[s] # "idle" => fcLock[s] = fcEntry

\* Only a synced temporary file is renamed.
TmpInv == \A s \in Savers : fcPc[s] = "renaming" => fcTmp[s] = "synced"

\* What a file that may come up next holds.
Bounded(m) == m \in Maps /\ \A s \in Savers : m[s] <= fcLast[s]

FileInv ==
    /\ Bounded(fcFile) /\ Bounded(fcGoal)
    /\ \A m \in fcDurable \cup fcLate : Bounded(m)

\* What an update is about to write keeps the positions of the others, and its own is the
\* one asked for; it stays in the file until the update returns.
MapInv ==
    \A s \in Savers :
        /\ fcPc[s] # "idle" => fcGoal[s] \in fcKept[s]
        /\ Saving(s) => fcMap[s][s] = fcGoal[s] /\ Bounded(fcMap[s])
        /\ Saving(s) /\ ~fcUndone => \A t \in Savers : fcMap[s][t] \in fcKept[t]
        /\ fcPc[s] = "syncing" /\ ~fcUndone => fcFile[s] = fcGoal[s]

FcInv == FileCheckpointInv /\ LockInv /\ TmpInv /\ FileInv /\ MapInv
=============================================================================
