---------------------------- MODULE Stores_proofs ----------------------------
(***************************************************************************)
(* What the stores keep true, proved for any number of savers and          *)
(* outages, of subscribers, events and nacks, and of messages, faults and  *)
(* producers of a directory spool.                                         *)
(***************************************************************************)
EXTENDS FileCheckpoint, EventStore, DirSpool, FiniteSetTheorems, WellFoundedInduction, NaturalsInduction, TLAPS

-----------------------------------------------------------------------------
(* The checkpoint file *)

LEMMA TornIsNoMap == Torn \notin Maps
<1>1. PICK s : s \in Savers
  BY CheckpointBounds
<1>2. \A m \in Maps : s \in DOMAIN m
  BY <1>1 DEF Maps
<1>3. s \notin DOMAIN Torn
  BY DEF Torn
<1>4. QED BY <1>2, <1>3

LEMMA CheckpointStarts == FcInit => FcInv
<1>. USE CheckpointBounds
<1>. SUFFICES ASSUME FcInit PROVE FcInv
  OBVIOUS
<1>1. Empty \in Maps /\ (\A s \in Savers : Empty[s] = 0) /\ 0 \in 0..FcSaves
  BY DEF Empty, Maps
<1>2. 0 \in Locks
  BY FS_CardinalityType DEF Locks
<1>3. FcTypeOK
  BY <1>1, <1>2 DEF FcInit, FcTypeOK
<1>4. OneWriter /\ NeverTorn /\ SavedStays /\ NeverAhead
  BY <1>1, TornIsNoMap DEF FcInit, OneWriter, NeverTorn, SavedStays, NeverAhead
<1>5. LockInv /\ TmpInv /\ FileInv /\ MapInv
  BY <1>1 DEF FcInit, LockInv, TmpInv, FileInv, MapInv, Bounded, Saving
<1>6. QED BY <1>3, <1>4, <1>5 DEF FcInv, FileCheckpointInv

\* The files a step leaves are maps, never torn ones.
LEMMA FilesAreWhole ==
    ASSUME FileInv PROVE NeverTorn /\ NeverAhead
BY TornIsNoMap DEF FileInv, NeverTorn, NeverAhead, Bounded

\* path_lock: the lock of the saves under way, or a new one when there are none.
LEMMA OneLock ==
    ASSUME FcInv
    PROVE  PathLock \in Locks /\ \A s \in Savers : fcPc[s] # "idle" => PathLock = fcEntry
<1>1. CASE Holders(fcEntry) # {}
  BY <1>1 DEF PathLock, FcInv, FileCheckpointInv, FcTypeOK
<1>2. CASE Holders(fcEntry) = {}
  <2>1. \A s \in Savers : fcPc[s] = "idle"
    BY <1>2 DEF Holders, FcInv, LockInv
  <2>2. 0 \in Locks /\ Holders(0) = {}
    BY <2>1, CheckpointBounds, FS_CardinalityType DEF Locks, Holders
  <2>3. PathLock \in Locks
    BY <1>2, <2>2 DEF PathLock
  <2>4. QED BY <2>1, <2>3
<1>3. QED BY <1>1, <1>2

LEMMA UpdateBeginsKeeps ==
    ASSUME FcInv, NEW s \in Savers, SaveBegins(s) \/ ClearBegins(s) PROVE FcInv'
<1>. USE CheckpointBounds
<1>0. PICK goal \in 0..FcSaves :
        /\ UpdateBegins(s, goal)
        /\ \/ goal = 0 /\ fcLast' = fcLast
           \/ goal = fcLast[s] + 1 /\ fcLast' = [fcLast EXCEPT ![s] = @ + 1]
  <2>1. fcLast[s] \in Nat
    BY DEF FcInv, FileCheckpointInv, FcTypeOK, Maps
  <2>2. CASE SaveBegins(s)
    <3>1. fcLast[s] + 1 \in 0..FcSaves
      BY <2>1, <2>2 DEF SaveBegins
    <3>2. QED BY <2>2, <3>1 DEF SaveBegins
  <2>3. CASE ClearBegins(s)
    <3>1. 0 \in 0..FcSaves
      OBVIOUS
    <3>2. QED BY <2>3, <3>1 DEF ClearBegins
  <2>4. QED BY <2>2, <2>3
<1>1. /\ fcPc[s] = "idle"
      /\ fcGoal' = [fcGoal EXCEPT ![s] = goal] /\ fcKept' = [fcKept EXCEPT ![s] = @ \cup {goal}]
      /\ fcLock' = [fcLock EXCEPT ![s] = PathLock] /\ fcEntry' = PathLock
      /\ fcPc' = [fcPc EXCEPT ![s] = "queued"]
      /\ UNCHANGED <<fcMap, fcTmp, fcFile, fcDurable, fcLate, fcUndone>>
  BY <1>0 DEF UpdateBegins
<1>2. /\ fcLast' \in Maps /\ fcGoal' \in Maps /\ goal <= fcLast'[s]
      /\ \A t \in Savers : fcLast[t] <= fcLast'[t]
  <2>1. fcLast \in Maps /\ fcGoal \in Maps /\ \A t \in Savers : fcLast[t] \in 0..FcSaves
    BY DEF FcInv, FileCheckpointInv, FcTypeOK, Maps
  <2>2. fcGoal' \in Maps
    BY <1>1, <2>1 DEF Maps
  <2>3. CASE goal = 0 /\ fcLast' = fcLast
    BY <2>1, <2>2, <2>3
  <2>4. CASE goal = fcLast[s] + 1 /\ fcLast' = [fcLast EXCEPT ![s] = @ + 1]
    BY <2>1, <2>2, <2>4 DEF Maps
  <2>5. QED BY <1>0, <2>3, <2>4
<1>3. /\ fcKept' \in [Savers -> SUBSET (0..FcSaves)] /\ goal \in fcKept'[s]
      /\ \A t \in Savers : fcKept[t] \subseteq fcKept'[t]
  BY <1>0, <1>1 DEF FcInv, FileCheckpointInv, FcTypeOK
<1>4. FcTypeOK' /\ LockInv'
  BY <1>1, <1>2, <1>3, OneLock DEF FcInv, FileCheckpointInv, FcTypeOK, LockInv
<1>5. OneWriter' /\ TmpInv' /\ SavedStays'
  BY <1>1, <1>3 DEF FcInv, FileCheckpointInv, FcTypeOK, OneWriter, TmpInv, SavedStays
<1>6. \A m : Bounded(m) => Bounded(m)'
  <2>1. \A m \in Maps, t \in Savers : m[t] \in Nat /\ fcLast[t] \in Nat /\ fcLast'[t] \in Nat
    BY <1>2 DEF FcInv, FileCheckpointInv, FcTypeOK, Maps
  <2>2. QED BY <1>2, <2>1 DEF Bounded
<1>7. FileInv'
  <2>1. \A t \in Savers : fcGoal'[t] <= fcLast'[t]
    <3>1. \A t \in Savers : /\ fcGoal[t] \in Nat /\ fcLast[t] \in Nat /\ fcLast'[t] \in Nat
                            /\ fcGoal[t] <= fcLast[t]
      BY <1>2 DEF FcInv, FileCheckpointInv, FcTypeOK, Maps, FileInv, Bounded
    <3>2. fcGoal'[s] = goal /\ \A t \in Savers : t # s => fcGoal'[t] = fcGoal[t]
      BY <1>1 DEF FcInv, FileCheckpointInv, FcTypeOK, Maps
    <3>3. QED BY <1>2, <3>1, <3>2
  <2>2. QED BY <1>1, <1>2, <1>6, <2>1 DEF FcInv, FileInv, Bounded
<1>8. MapInv'
  BY <1>1, <1>3, <1>6 DEF FcInv, FileCheckpointInv, FcTypeOK, Maps, MapInv, Saving
<1>9. QED BY <1>4, <1>5, <1>7, <1>8, FilesAreWhole, PTL DEF FcInv, FileCheckpointInv

\* The saves of a path take turns: whoever reads the file is the only writer.
LEMMA ReadMapKeeps ==
    ASSUME FcInv, NEW s \in Savers, ReadMap(s) PROVE FcInv'
<1>. USE CheckpointBounds
<1>1. /\ fcPc[s] = "queued"
      /\ fcPc' = [fcPc EXCEPT ![s] = "writing"]
      /\ fcMap' = [fcMap EXCEPT ![s] = [fcFile EXCEPT ![s] = fcGoal[s]]]
      /\ UNCHANGED <<fcGoal, fcLock, fcEntry, fcTmp, fcFile, fcDurable, fcLate, fcLast, fcKept, fcUndone>>
  BY DEF ReadMap, FcInv, FileCheckpointInv, NeverTorn
<1>2. \A t \in Savers \ {s} : fcPc[t] \in {"idle", "queued"}
  BY <1>1 DEF ReadMap, Holders, FcInv, LockInv
<1>3. fcFile \in Maps /\ fcLast \in Maps /\ fcGoal \in Maps /\ \A m : Bounded(m)' = Bounded(m)
  BY <1>1 DEF FcInv, FileCheckpointInv, FcTypeOK, FileInv, Bounded
<1>. DEFINE map == [fcFile EXCEPT ![s] = fcGoal[s]]
<1>4. /\ map \in Maps /\ map[s] = fcGoal[s]
      /\ \A t \in Savers : t # s => map[t] = fcFile[t]
  BY <1>3 DEF Maps
<1>5. /\ Bounded(map)
      /\ ~fcUndone => \A t \in Savers : map[t] \in fcKept[t]
  <2>1. \A t \in Savers : /\ fcGoal[t] <= fcLast[t] /\ fcFile[t] <= fcLast[t]
                          /\ ~fcUndone => fcFile[t] \in fcKept[t]
    BY <1>3 DEF FcInv, FileCheckpointInv, FileInv, Bounded, SavedStays, Maps
  <2>2. fcGoal[s] \in fcKept[s]
    BY <1>1 DEF FcInv, MapInv
  <2>3. QED BY <1>4, <2>1, <2>2 DEF Bounded
<1>6. fcMap'[s] = map /\ fcMap' \in [Savers -> Maps] /\ \A t \in Savers : t # s => fcMap'[t] = fcMap[t]
  BY <1>1, <1>4 DEF FcInv, FileCheckpointInv, FcTypeOK
<1>. HIDE DEF map
<1>7. FcTypeOK' /\ LockInv' /\ TmpInv' /\ SavedStays' /\ NeverAhead' /\ NeverTorn'
  BY <1>1, <1>6
    DEF FcInv, FileCheckpointInv, FcTypeOK, LockInv, TmpInv, SavedStays, NeverAhead, NeverTorn
<1>8. OneWriter'
  BY <1>1, <1>2 DEF FcInv, FileCheckpointInv, FcTypeOK, OneWriter
<1>9. FileInv'
  BY <1>1, <1>3 DEF FcInv, FileInv
<1>10. MapInv'
  BY <1>1, <1>2, <1>3, <1>4, <1>5, <1>6 DEF FcInv, FileCheckpointInv, FcTypeOK, MapInv, Saving
<1>11. QED BY <1>7, <1>8, <1>9, <1>10 DEF FcInv, FileCheckpointInv

\* The temporary file, and a save that ends without touching the file.
LEMMA SaveEndsKeeps ==
    ASSUME FcInv, NEW s \in Savers, WriteTmp(s) \/ SaveFails(s) \/ SaveDropped(s) PROVE FcInv'
<1>. USE CheckpointBounds
<1>1. /\ UNCHANGED <<fcGoal, fcLock, fcEntry, fcMap, fcFile, fcDurable, fcLast, fcKept, fcUndone>>
      /\ \A t \in Savers : t # s => fcPc'[t] = fcPc[t] /\ fcTmp'[t] = fcTmp[t]
      /\ \/ fcPc' = fcPc /\ fcPc[s] = "writing"
         \/ fcPc[s] = "writing" /\ fcPc'[s] = "renaming" /\ fcTmp'[s] = "synced"
         \/ fcPc[s] # "idle" /\ fcPc'[s] = "idle"
      /\ fcLate' = fcLate \/ (fcPc[s] = "renaming" /\ fcLate' = fcLate \cup {fcMap[s]})
      /\ fcPc' \in [Savers -> {"idle", "queued", "writing", "renaming", "syncing"}]
      /\ fcTmp' \in [Savers -> {"none", "written", "synced"}]
  <2>1. CASE WriteTmp(s)
    BY <2>1 DEF WriteTmp, FcInv, FileCheckpointInv, FcTypeOK
  <2>2. CASE SaveFails(s)
    BY <2>2 DEF SaveFails, FcInv, FileCheckpointInv, FcTypeOK
  <2>3. CASE SaveDropped(s)
    BY <2>3 DEF SaveDropped, FcInv, FileCheckpointInv, FcTypeOK
  <2>4. QED BY <2>1, <2>2, <2>3
<1>2. \A m : Bounded(m)' = Bounded(m)
  BY <1>1 DEF Bounded
<1>3. FcTypeOK' /\ LockInv' /\ TmpInv' /\ SavedStays' /\ NeverAhead' /\ NeverTorn'
  BY <1>1
    DEF FcInv, FileCheckpointInv, FcTypeOK, LockInv, TmpInv, SavedStays, NeverAhead, NeverTorn
<1>4. OneWriter'
  BY <1>1 DEF FcInv, FileCheckpointInv, OneWriter
<1>5. FileInv'
  BY <1>1, <1>2 DEF FcInv, FileInv, MapInv, Saving
<1>6. MapInv'
  BY <1>1, <1>2 DEF FcInv, MapInv, Saving
<1>7. QED BY <1>3, <1>4, <1>5, <1>6 DEF FcInv, FileCheckpointInv

\* The save that replaces the file.
LEMMA RenameKeeps ==
    ASSUME FcInv, NEW s \in Savers, Rename(s) PROVE FcInv'
<1>. USE CheckpointBounds
<1>1. /\ fcPc[s] = "renaming"
      /\ fcFile' = fcMap[s] /\ fcDurable' = fcDurable \cup {fcMap[s]}
      /\ fcTmp' = [fcTmp EXCEPT ![s] = "none"]
      /\ fcPc' = [fcPc EXCEPT ![s] = "syncing"]
      /\ UNCHANGED <<fcGoal, fcLock, fcEntry, fcMap, fcLate, fcLast, fcKept, fcUndone>>
  BY DEF Rename, Replaces, FcInv, TmpInv
<1>2. \A t \in Savers \ {s} : fcPc[t] \in {"idle", "queued"}
  BY <1>1 DEF FcInv, FileCheckpointInv, OneWriter
<1>3. /\ fcMap[s][s] = fcGoal[s] /\ Bounded(fcMap[s])
      /\ ~fcUndone => \A t \in Savers : fcMap[s][t] \in fcKept[t]
      /\ \A m : Bounded(m)' = Bounded(m)
  BY <1>1 DEF FcInv, MapInv, Saving, Bounded
<1>4. FileInv'
  BY <1>1, <1>3 DEF FcInv, FileInv
<1>5. FcTypeOK' /\ LockInv' /\ TmpInv'
  BY <1>1, <1>3 DEF FcInv, FileCheckpointInv, FcTypeOK, LockInv, TmpInv, Bounded
<1>6. SavedStays' /\ OneWriter'
  BY <1>1, <1>2, <1>3 DEF FcInv, FileCheckpointInv, FcTypeOK, SavedStays, OneWriter
<1>7. MapInv'
  BY <1>1, <1>2, <1>3 DEF FcInv, FileCheckpointInv, FcTypeOK, MapInv, Saving
<1>8. QED BY <1>4, <1>5, <1>6, <1>7, FilesAreWhole, PTL DEF FcInv, FileCheckpointInv

\* An update that returns has left its position, or none, in the file.
LEMMA SyncDirKeeps ==
    ASSUME FcInv, NEW s \in Savers, SyncDir(s) PROVE FcInv'
<1>. USE CheckpointBounds
<1>1. /\ fcPc[s] = "syncing"
      /\ fcDurable' \subseteq fcDurable \cup {fcFile}
      /\ fcKept' = [fcKept EXCEPT ![s] = {fcGoal[s]}]
      /\ fcPc' = [fcPc EXCEPT ![s] = "idle"]
      /\ UNCHANGED <<fcGoal, fcLock, fcEntry, fcMap, fcTmp, fcFile, fcLate, fcLast, fcUndone>>
  BY DEF SyncDir
<1>2. \A t \in Savers \ {s} : fcPc[t] \in {"idle", "queued"}
  BY <1>1 DEF FcInv, FileCheckpointInv, OneWriter
<1>3. \A m : Bounded(m)' = Bounded(m)
  BY <1>1 DEF Bounded
<1>4. /\ fcKept' \in [Savers -> SUBSET (0..FcSaves)] /\ fcKept'[s] = {fcGoal[s]}
      /\ \A t \in Savers : t # s => fcKept'[t] = fcKept[t]
  <2>1. fcGoal[s] \in 0..FcSaves
    BY DEF FcInv, FileCheckpointInv, FcTypeOK, Maps
  <2>2. QED BY <1>1, <2>1 DEF FcInv, FileCheckpointInv, FcTypeOK
<1>5. FileInv'
  BY <1>1, <1>3 DEF FcInv, FileInv
<1>6. FcTypeOK' /\ LockInv' /\ TmpInv' /\ OneWriter'
  BY <1>1, <1>2, <1>4 DEF FcInv, FileCheckpointInv, FcTypeOK, LockInv, TmpInv, OneWriter
<1>7. SavedStays'
  BY <1>1, <1>4 DEF FcInv, FileCheckpointInv, SavedStays, MapInv
<1>8. MapInv'
  BY <1>1, <1>2, <1>3, <1>4 DEF FcInv, FileCheckpointInv, FcTypeOK, MapInv, Saving
<1>9. QED BY <1>5, <1>6, <1>7, <1>8, FilesAreWhole, PTL DEF FcInv, FileCheckpointInv

\* The rename of a dropped save happens late, or the process or the machine goes down.
LEMMA OutageKeeps ==
    ASSUME FcInv, Outage \/ \E m \in fcLate : LateRename(m) PROVE FcInv'
<1>. USE CheckpointBounds
<1>1. /\ UNCHANGED <<fcGoal, fcLock, fcEntry, fcMap, fcLast, fcKept>>
      /\ fcFile' \in {fcFile} \cup fcDurable \cup fcLate
      /\ fcDurable' \subseteq {fcFile} \cup fcDurable \cup fcLate
      /\ fcLate' \subseteq fcLate
      /\ (fcFile' = fcFile /\ (fcUndone => fcUndone')) \/ fcUndone'
      /\ \/ fcUndone' /\ UNCHANGED <<fcPc, fcTmp>>
         \/ /\ fcPc' = [s \in Savers |-> "idle"] /\ fcTmp' = [s \in Savers |-> "none"]
  <2>1. CASE Outage
    BY <2>1 DEF Outage
  <2>2. ASSUME NEW m \in fcLate, LateRename(m) PROVE <1>1!:
    BY <2>2 DEF LateRename, Replaces
  <2>3. QED BY <2>1, <2>2
<1>2. \A m : Bounded(m)' = Bounded(m)
  BY <1>1 DEF Bounded
<1>3. FileInv'
  BY <1>1, <1>2 DEF FcInv, FileInv
<1>4. fcFile' \in Maps
  BY <1>3 DEF FileInv, Bounded
<1>5. FcTypeOK' /\ LockInv' /\ TmpInv' /\ OneWriter'
  BY <1>1, <1>4 DEF FcInv, FileCheckpointInv, FcTypeOK, LockInv, TmpInv, OneWriter
<1>6. SavedStays' /\ MapInv'
  BY <1>1, <1>2 DEF FcInv, FileCheckpointInv, SavedStays, MapInv, Saving
<1>7. QED BY <1>3, <1>5, <1>6, FilesAreWhole, PTL DEF FcInv, FileCheckpointInv

\* FileCheckpointStore: however many stores share the file, and whichever saves and clears
\* fail, are dropped or cut short by an outage, one update writes at a time, the file can
\* always be read, and no update of another key loses a position that was saved or brings
\* back one that was cleared.
THEOREM CheckpointsKept == FcSpec => []FileCheckpointInv
<1>1. ASSUME FcInv, [FcNext]_fcVars PROVE FcInv'
  <2>1. CASE FcNext
    BY <1>1, <2>1, UpdateBeginsKeeps, ReadMapKeeps, SaveEndsKeeps, RenameKeeps, SyncDirKeeps,
       OutageKeeps DEF FcNext
  <2>2. CASE UNCHANGED fcVars
    BY <1>1, <2>2
      DEF fcVars, FcInv, FileCheckpointInv, FcTypeOK, OneWriter, NeverTorn, SavedStays, NeverAhead,
          LockInv, TmpInv, FileInv, MapInv, Bounded, Saving
  <2>3. QED BY <1>1, <2>1, <2>2
<1>2. FcInv => FileCheckpointInv
  BY DEF FcInv
<1>3. QED BY <1>1, <1>2, CheckpointStarts, PTL DEF FcSpec

-----------------------------------------------------------------------------
(* The event store *)

LEMMA MaxOfTwo ==
    ASSUME NEW a \in Int, NEW b \in Int
    PROVE  Max({a, b}) = IF a >= b THEN a ELSE b
BY DEF Max

LEMMA MinOfTwo ==
    ASSUME NEW a \in Int, NEW b \in Int
    PROVE  Min({a, b}) = IF a <= b THEN a ELSE b
BY DEF Min

LEMMA MaxOfRange ==
    ASSUME NEW a \in Int, NEW b \in Int, a <= b
    PROVE  Max(a..b) = b
BY DEF Max

\* The slowest of the subscribers.
LEMMA MinOfNats ==
    ASSUME NEW S \in SUBSET Nat, S # {}
    PROVE  Min(S) \in S /\ \A n \in S : Min(S) <= n
<1>1. \E x \in S : \A y \in S : ~(<<y, x>> \in OpToRel(<, Nat))
  BY NatLessThanWellFounded, WFMin
<1>2. PICK x \in S : \A y \in S : ~(<<y, x>> \in OpToRel(<, Nat))
  BY <1>1
<1>3. ASSUME NEW y \in S PROVE x <= y
  <2>1. <<y, x>> \in Nat \X Nat /\ <<y, x>>[1] = y /\ <<y, x>>[2] = x
    OBVIOUS
  <2>2. ~(y < x)
    BY <1>2, <2>1 DEF OpToRel
  <2>3. QED BY <2>2
<1>4. QED BY <1>2, <1>3 DEF Min

\* A batch is handed to the route, and one settled.
LEMMA BatchHandedOn ==
    ASSUME NEW q \in Seq(Deliveries), NEW d \in Deliveries
    PROVE  /\ Append(q, d) \in Seq(Deliveries)
           /\ DOMAIN Append(q, d) = DOMAIN q \cup {Len(q) + 1}
           /\ \A i \in DOMAIN q : Append(q, d)[i] = q[i]
           /\ Append(q, d)[Len(q) + 1] = d
           /\ EventsOf(Append(q, d), DOMAIN Append(q, d)) = EventsOf(q, DOMAIN q) \cup d.events
           /\ \A i \in DOMAIN q : EventsOf(Append(q, d), 1..(i - 1)) = EventsOf(q, 1..(i - 1))
           /\ EventsOf(Append(q, d), 1..Len(q)) = EventsOf(q, DOMAIN q)
<1>1. /\ Append(q, d) \in Seq(Deliveries)
      /\ DOMAIN q = 1..Len(q) /\ Len(q) \in Nat
      /\ DOMAIN Append(q, d) = 1..(Len(q) + 1)
      /\ \A i \in 1..Len(q) : Append(q, d)[i] = q[i]
      /\ Append(q, d)[Len(q) + 1] = d
  OBVIOUS
<1>. DEFINE p == Append(q, d)
<1>. HIDE DEF p
<1>2. EventsOf(p, 1..(Len(q) + 1)) = EventsOf(q, 1..Len(q)) \cup d.events
  BY <1>1 DEF EventsOf, p
<1>3. \A i \in 1..Len(q) : EventsOf(p, 1..(i - 1)) = EventsOf(q, 1..(i - 1))
  BY <1>1 DEF EventsOf, p
<1>4. EventsOf(p, 1..Len(q)) = EventsOf(q, 1..Len(q))
  BY <1>1 DEF EventsOf, p
<1>5. DOMAIN p = DOMAIN q \cup {Len(q) + 1}
  BY <1>1 DEF p
<1>6. QED BY <1>1, <1>2, <1>3, <1>4, <1>5 DEF p

LEMMA BatchSettled ==
    ASSUME NEW q \in Seq(Deliveries), q # <<>>
    PROVE  /\ Tail(q) \in Seq(Deliveries) /\ 1 \in DOMAIN q /\ Head(q) = q[1] /\ q[1] \in Deliveries
           /\ \A i \in DOMAIN Tail(q) : i + 1 \in DOMAIN q /\ Tail(q)[i] = q[i + 1] /\ i \in Nat
           /\ EventsOf(q, DOMAIN q) = q[1].events \cup EventsOf(Tail(q), DOMAIN Tail(q))
           /\ \A i \in DOMAIN Tail(q) :
                EventsOf(q, 1..i) = q[1].events \cup EventsOf(Tail(q), 1..(i - 1))
           /\ EventsOf(q, 1..0) = {}
<1>. DEFINE p == Tail(q)
<1>1. /\ p \in Seq(Deliveries) /\ Head(q) = q[1] /\ q[1] \in Deliveries
      /\ DOMAIN q = 1..Len(q) /\ Len(q) \in Nat \ {0}
      /\ DOMAIN p = 1..(Len(q) - 1)
      /\ \A i \in 1..(Len(q) - 1) : p[i] = q[i + 1]
  OBVIOUS
<1>. HIDE DEF p
<1>2. ASSUME NEW n \in 1..Len(q)
      PROVE  EventsOf(q, 1..n) = q[1].events \cup EventsOf(p, 1..(n - 1))
  <2>1. ASSUME NEW e \in EventsOf(q, 1..n) PROVE e \in q[1].events \cup EventsOf(p, 1..(n - 1))
    <3>1. PICK i \in 1..n : e \in q[i].events
      BY <2>1 DEF EventsOf
    <3>2. CASE i = 1
      BY <3>1, <3>2
    <3>3. CASE i # 1
      <4>1. i - 1 \in 1..(n - 1) /\ p[i - 1] = q[i]
        BY <1>1, <3>3
      <4>2. QED BY <3>1, <4>1 DEF EventsOf
    <3>4. QED BY <3>2, <3>3
  <2>2. ASSUME NEW e \in EventsOf(p, 1..(n - 1)) PROVE e \in EventsOf(q, 1..n)
    <3>1. PICK i \in 1..(n - 1) : e \in p[i].events
      BY <2>2 DEF EventsOf
    <3>2. i + 1 \in 1..n /\ p[i] = q[i + 1]
      BY <1>1
    <3>3. QED BY <3>1, <3>2 DEF EventsOf
  <2>3. \A e \in q[1].events : e \in EventsOf(q, 1..n)
    BY DEF EventsOf
  <2>4. QED BY <2>1, <2>2, <2>3
<1>3. EventsOf(q, 1..0) = {}
  BY DEF EventsOf
<1>4. QED BY <1>1, <1>2, <1>3 DEF p

LEMMA EventStoreStarts == EsInit => EsInv
<1>. USE EventStoreBounds
<1>. SUFFICES ASSUME EsInit PROVE EsInv
  OBVIOUS
<1>1. EsTypeOK
  BY DEF EsInit, EsTypeOK
<1>2. EsDataOK
  BY DEF EsInit, EsDataOK, EventSets
<1>3. ASSUME NEW s \in Subscribers PROVE ConsumerInv(s)
  <2>1. DOMAIN esOut[s] = {} /\ esLast[s] = 0 /\ esCall[s] = "idle" /\ esBatch[s] = {}
    BY DEF EsInit
  <2>2. QED BY <2>1 DEF ConsumerInv, OutInv, ReadInv, AheadInv, Accounted
<1>4. NothingPassedOver /\ AckIsTrue
  BY <1>3 DEF NothingPassedOver, AckIsTrue, ConsumerInv, EsInit
<1>5. QED BY <1>1, <1>2, <1>3, <1>4 DEF EsInv, EventStoreInv

\* What a step of another subscriber, or of the store, leaves alone.
LEMMA ConsumerFrame ==
    ASSUME NEW t, ConsumerInv(t), t \in esRaced <=> t \in esRaced',
           UNCHANGED <<esLast[t], esRewinds[t], esCall[t], esFrom[t], esBatch[t], esOut[t], esTaken[t]>>
    PROVE  ConsumerInv(t)'
BY DEF ConsumerInv, OutInv, ReadInv, AheadInv, Accounted, Outstanding

\* max_count: the base only grows, and not past the end.
LEMMA AppendKeeps ==
    ASSUME EsInv, NEW n \in 1..EsBatch, AppendBatch(n)
    PROVE  /\ EsInv'
           /\ \A o \in esBase..(esBase' - 1) : o \in esLost'
<1>. USE EventStoreBounds
<1>1. esBase \in Nat /\ esNext \in Nat /\ esMax \in Nat \ {0} /\ esBase <= esNext /\ 1 <= esBase
  BY DEF EsInv, EventStoreInv, EsTypeOK, EsDataOK
<1>. DEFINE next == esNext + n
<1>2. BaseAfter(next) \in esBase..next
  <2>1. CASE next - esBase > esMax
    <3>1. {esBase} \cup (IF next - esBase > esMax THEN {next - esMax} ELSE {}) = {esBase, next - esMax}
      BY <2>1
    <3>2. BaseAfter(next) = Max({esBase, next - esMax})
      BY <3>1 DEF BaseAfter
    <3>3. QED BY <1>1, <3>2, MaxOfTwo
  <2>2. CASE ~(next - esBase > esMax)
    <3>1. {esBase} \cup (IF next - esBase > esMax THEN {next - esMax} ELSE {}) = {esBase, esBase}
      BY <2>2
    <3>2. BaseAfter(next) = Max({esBase, esBase})
      BY <3>1 DEF BaseAfter
    <3>3. QED BY <1>1, <3>2, MaxOfTwo
  <2>3. QED BY <2>1, <2>2
<1>3. /\ esNext' = next /\ esBase' = BaseAfter(next) /\ next <= EsEvents + 1
      /\ esLost' = esLost \cup (esBase..(BaseAfter(next) - 1))
      /\ UNCHANGED <<esMax, esAck, esLast, esRewinds, esCall, esFrom, esBatch, esOut, esTaken, esRaced>>
  BY DEF AppendBatch
<1>4. EsTypeOK' /\ EsDataOK' /\ NothingPassedOver' /\ AckIsTrue'
  BY <1>1, <1>2, <1>3
    DEF EsInv, EventStoreInv, EsTypeOK, EsDataOK, NothingPassedOver, AckIsTrue, Accounted, Outstanding
<1>5. \A s \in Subscribers : ConsumerInv(s)'
  BY <1>3, ConsumerFrame DEF EsInv
<1>6. QED BY <1>3, <1>4, <1>5 DEF EsInv, EventStoreInv

LEMMA ConsumerStep ==
    ASSUME EsInv, NEW s \in Subscribers, EsTypeOK', EsDataOK', AckIsTrue', ConsumerInv(s)',
           \A t \in Subscribers \ {s} :
                /\ t \in esRaced <=> t \in esRaced'
                /\ UNCHANGED <<esLast[t], esRewinds[t], esCall[t], esFrom[t], esBatch[t], esOut[t], esTaken[t]>>
    PROVE  EsInv'
<1>1. \A t \in Subscribers : ConsumerInv(t)'
  BY ConsumerFrame DEF EsInv
<1>2. NothingPassedOver'
  BY <1>1 DEF NothingPassedOver, ConsumerInv
<1>3. QED BY <1>1, <1>2 DEF EsInv, EventStoreInv

\* receive_batch starts where the consumer is.
LEMMA EsReceiveKeeps ==
    ASSUME EsInv, NEW s \in Subscribers, EsReceive(s) PROVE EsInv'
<1>. USE EventStoreBounds
<1>1. /\ esCall[s] = "idle" /\ esCall' = [esCall EXCEPT ![s] = "reading"]
      /\ esFrom' = [esFrom EXCEPT ![s] = esLast[s]]
      /\ UNCHANGED <<esMax, esBase, esNext, esLast, esRewinds, esBatch, esOut, esTaken, esRaced>>
  BY DEF EsReceive
<1>2. /\ DOMAIN esAck' \subseteq Subscribers
      /\ \A t \in DOMAIN esAck' : esAck'[t] = 0 \/ (t \in DOMAIN esAck /\ esAck'[t] = esAck[t])
  <2>1. CASE s \in DOMAIN esAck
    BY <2>1 DEF EsReceive, EsInv, EventStoreInv, EsTypeOK
  <2>2. CASE s \notin DOMAIN esAck
    <3>1. esAck' = [t \in DOMAIN esAck \cup {s} |-> IF t = s THEN 0 ELSE esAck[t]]
      BY <2>2 DEF EsReceive
    <3>2. QED BY <3>1 DEF EsInv, EventStoreInv, EsTypeOK
  <2>3. QED BY <2>1, <2>2
<1>3. EsTypeOK' /\ EsDataOK'
  <2>1. ASSUME NEW t \in DOMAIN esAck' PROVE esAck'[t] \in 0..EsEvents
    <3>1. t \in DOMAIN esAck => esAck[t] \in 0..EsEvents
      BY DEF EsInv, EsDataOK
    <3>2. QED BY <1>2, <3>1
  <2>2. esFrom' \in [Subscribers -> 0..EsEvents]
        /\ esCall' \in [Subscribers -> {"idle", "reading", "read", "gap"}]
    BY <1>1 DEF EsInv, EsDataOK
  <2>3. EsDataOK'
    BY <1>1, <2>1, <2>2 DEF EsInv, EsDataOK
  <2>4. QED BY <1>1, <1>2, <2>2, <2>3 DEF EsInv, EventStoreInv, EsTypeOK
<1>4. AckIsTrue'
  BY <1>1, <1>2 DEF EsInv, EventStoreInv, AckIsTrue
<1>5. /\ esCall'[s] = "reading" /\ esFrom'[s] = esLast[s]
      /\ \A t \in Subscribers \ {s} : esCall'[t] = esCall[t] /\ esFrom'[t] = esFrom[t]
  BY <1>1 DEF EsInv, EsDataOK
<1>6. ConsumerInv(s)'
  BY <1>1, <1>5
    DEF EsInv, ConsumerInv, OutInv, ReadInv, AheadInv, Accounted, Outstanding
<1>7. QED BY <1>1, <1>3, <1>4, <1>5, <1>6, ConsumerStep

\* The events after last_offset are read, without a hole: a hole would have been a gap.
LEMMA EsReadKeeps ==
    ASSUME EsInv, NEW s \in Subscribers, EsRead(s) PROVE EsInv'
<1>. USE EventStoreBounds
<1>. DEFINE first == Max({esFrom[s] + 1, esBase})
            new   == Min({first + EsBatch, esNext}) - 1
<1>1. /\ esCall[s] = "reading" /\ esCall' = [esCall EXCEPT ![s] = "read"]
      /\ first < esNext /\ ~(esFrom[s] + 1 < esBase)
      /\ esBatch' = [esBatch EXCEPT ![s] = first..new]
      /\ esLast' = [esLast EXCEPT ![s] = new]
      /\ UNCHANGED <<esMax, esBase, esNext, esAck, esRewinds, esFrom, esOut, esTaken, esRaced>>
  BY DEF EsRead, Gap
<1>2. esFrom[s] \in Nat /\ esBase \in Nat /\ esNext \in 1..(EsEvents + 1)
  BY DEF EsInv, EventStoreInv, EsTypeOK, EsDataOK
<1>3. first = esFrom[s] + 1
  BY <1>1, <1>2, MaxOfTwo
<1>. HIDE DEF first
<1>4. new \in first..EsEvents
  BY <1>1, <1>2, <1>3, MinOfTwo
<1>. HIDE DEF new
<1>5. /\ esCall'[s] = "read" /\ esBatch'[s] = (esFrom[s] + 1)..new /\ esLast'[s] = new
      /\ \A t \in Subscribers \ {s} :
            esCall'[t] = esCall[t] /\ esBatch'[t] = esBatch[t] /\ esLast'[t] = esLast[t]
  BY <1>1, <1>3 DEF EsInv, EsDataOK
<1>6. first..new \in EventSets /\ new \in 0..EsEvents
  BY <1>2, <1>3, <1>4 DEF EventSets
<1>7. EsDataOK'
  BY <1>1, <1>6 DEF EsInv, EsDataOK
<1>8. EsTypeOK' /\ AckIsTrue'
  BY <1>1, <1>7 DEF EsInv, EventStoreInv, EsTypeOK, EsDataOK, AckIsTrue, EventSets
<1>9. OutInv(s)' /\ (s \notin esRaced => AheadInv(s)') /\ Outstanding(s)' = Outstanding(s)
  BY <1>1 DEF EsInv, ConsumerInv, OutInv, AheadInv, Outstanding
<1>10. s \notin esRaced => 1..esFrom[s] \subseteq esTaken[s] \cup Outstanding(s)
  BY <1>1 DEF EsInv, ConsumerInv, ReadInv
<1>11. ReadInv(s)'
  BY <1>1, <1>3, <1>4, <1>5, <1>9, <1>10 DEF ReadInv
<1>12. s \notin esRaced => Accounted(s)'
  <2>1. 1..new \subseteq (1..esFrom[s]) \cup ((esFrom[s] + 1)..new)
    BY <1>2, <1>3, <1>4
  <2>2. QED BY <1>1, <1>5, <1>9, <1>10, <2>1 DEF Accounted
<1>13. ConsumerInv(s)'
  BY <1>1, <1>9, <1>11, <1>12 DEF ConsumerInv
<1>14. QED BY <1>1, <1>5, <1>7, <1>8, <1>13, ConsumerStep

\* The batch goes to the route behind those it has.
LEMMA EsReturnKeeps ==
    ASSUME EsInv, NEW s \in Subscribers, EsReturn(s) PROVE EsInv'
<1>. USE EventStoreBounds
<1>. DEFINE q == esOut[s]
            d == [events |-> esBatch[s], from |-> esFrom[s], readAt |-> esRewinds[s]]
<1>1. /\ esCall[s] = "read" /\ esCall' = [esCall EXCEPT ![s] = "idle"]
      /\ esOut' = [esOut EXCEPT ![s] = Append(q, d)]
      /\ esBatch' = [esBatch EXCEPT ![s] = {}]
      /\ esFrom' = [esFrom EXCEPT ![s] = 0]
      /\ UNCHANGED <<esMax, esBase, esNext, esAck, esLast, esRewinds, esTaken, esRaced>>
  BY DEF EsReturn
<1>2. q \in Seq(Deliveries) /\ d \in Deliveries /\ Append(q, d) \in Seq(Deliveries)
  <2>1. q \in Seq(Deliveries) /\ d \in Deliveries
    BY DEF EsInv, EsDataOK, Deliveries
  <2>2. QED BY <2>1, BatchHandedOn
<1>3. d.events = esBatch[s] /\ d.from = esFrom[s] /\ d.readAt = esRewinds[s]
  OBVIOUS
<1>. HIDE DEF d
<1>4. EsDataOK'
  BY <1>1, <1>2 DEF EsInv, EsDataOK, EventSets
<1>5. EsTypeOK' /\ AckIsTrue'
  BY <1>1, <1>4 DEF EsInv, EventStoreInv, EsTypeOK, EsDataOK, AckIsTrue, EventSets
<1>6. /\ esCall'[s] = "idle" /\ esBatch'[s] = {} /\ esOut'[s] = Append(q, d)
      /\ \A t \in Subscribers \ {s} :
            esCall'[t] = esCall[t] /\ esBatch'[t] = esBatch[t] /\ esFrom'[t] = esFrom[t] /\ esOut'[t] = esOut[t]
  BY <1>1 DEF EsInv, EsDataOK
<1>. DEFINE p == esOut'[s]
<1>7. /\ DOMAIN p = DOMAIN q \cup {Len(q) + 1}
      /\ \A i \in DOMAIN q : p[i] = q[i]
      /\ p[Len(q) + 1] = d
      /\ EventsOf(p, DOMAIN p) = EventsOf(q, DOMAIN q) \cup d.events
      /\ \A i \in DOMAIN q : EventsOf(p, 1..(i - 1)) = EventsOf(q, 1..(i - 1))
      /\ EventsOf(p, 1..Len(q)) = EventsOf(q, DOMAIN q)
  BY <1>2, <1>6, BatchHandedOn
<1>8. Len(q) \in Nat /\ Len(q) + 1 - 1 = Len(q)
  BY <1>2
<1>. HIDE DEF p
<1>9. PICK last \in (esFrom[s] + 1)..EsEvents :
        esBatch[s] = (esFrom[s] + 1)..last /\ (s \notin esRaced => esLast[s] = last)
  BY <1>1 DEF EsInv, ConsumerInv, ReadInv
<1>10. OutInv(s)'
  <2>1. \A i \in DOMAIN q :
            /\ \E hi \in (q[i].from + 1)..EsEvents : q[i].events = (q[i].from + 1)..hi
            /\ q[i].readAt <= esRewinds[s]
    BY DEF EsInv, ConsumerInv, OutInv
  <2>2. /\ \E hi \in (d.from + 1)..EsEvents : d.events = (d.from + 1)..hi
        /\ d.readAt <= esRewinds[s]
    BY <1>3, <1>9 DEF EsInv, EsDataOK
  <2>. HIDE DEF q
  <2>3. \A i \in DOMAIN p :
            /\ \E hi \in (p[i].from + 1)..EsEvents : p[i].events = (p[i].from + 1)..hi
            /\ p[i].readAt <= esRewinds'[s]
    BY <1>1, <1>7, <2>1, <2>2
  <2>4. QED BY <2>3 DEF OutInv, p
<1>11. s \notin esRaced => AheadInv(s)' /\ Accounted(s)'
  <2>1. SUFFICES ASSUME s \notin esRaced PROVE AheadInv(s)' /\ Accounted(s)'
    OBVIOUS
  <2>2. \A i \in DOMAIN q :
            q[i].readAt = esRewinds[s] => 1..q[i].from \subseteq esTaken[s] \cup EventsOf(q, 1..(i - 1))
    BY <2>1 DEF EsInv, ConsumerInv, AheadInv
  <2>3. 1..d.from \subseteq esTaken[s] \cup EventsOf(q, DOMAIN q)
    BY <1>1, <1>3, <2>1 DEF EsInv, ConsumerInv, ReadInv, Outstanding
  <2>4. 1..esLast[s] \subseteq esTaken[s] \cup EventsOf(q, DOMAIN q) \cup d.events
    BY <1>3, <2>1 DEF EsInv, ConsumerInv, Accounted, Outstanding
  <2>. HIDE DEF q
  <2>5. \A i \in DOMAIN p :
            p[i].readAt = esRewinds'[s] => 1..p[i].from \subseteq esTaken'[s] \cup EventsOf(p, 1..(i - 1))
    BY <1>1, <1>7, <1>8, <2>2, <2>3
  <2>6. 1..esLast'[s] \subseteq esTaken'[s] \cup EventsOf(p, DOMAIN p)
    BY <1>1, <1>7, <2>4
  <2>7. QED BY <2>5, <2>6 DEF AheadInv, Accounted, Outstanding, p
<1>12. ReadInv(s)'
  BY <1>6 DEF ReadInv
<1>13. ConsumerInv(s)'
  BY <1>1, <1>10, <1>11, <1>12 DEF ConsumerInv
<1>14. QED BY <1>1, <1>4, <1>5, <1>6, <1>13, ConsumerStep

\* A gap, or nothing to read.
LEMMA EsGapKeeps ==
    ASSUME EsInv, NEW s \in Subscribers, EsGap(s) PROVE EsInv'
<1>. USE EventStoreBounds
<1>1. /\ esCall[s] = "reading"
      /\ \E c \in {"gap", "idle"} : esCall' = [esCall EXCEPT ![s] = c]
      /\ esFrom' = [esFrom EXCEPT ![s] = 0]
      /\ UNCHANGED <<esMax, esBase, esNext, esAck, esLast, esRewinds, esBatch, esOut, esTaken, esRaced>>
  BY DEF EsGap
<1>2. EsTypeOK' /\ EsDataOK' /\ AckIsTrue'
  BY <1>1 DEF EsInv, EventStoreInv, EsTypeOK, EsDataOK, AckIsTrue
<1>3. /\ esCall'[s] \in {"gap", "idle"}
      /\ \A t \in Subscribers \ {s} : esCall'[t] = esCall[t] /\ esFrom'[t] = esFrom[t]
  BY <1>1 DEF EsInv, EsDataOK
<1>4. ConsumerInv(s)'
  BY <1>1, <1>3 DEF EsInv, ConsumerInv, OutInv, ReadInv, AheadInv, Accounted, Outstanding
<1>5. QED BY <1>1, <1>2, <1>3, <1>4, ConsumerStep

\* run_gc: what it removes all active subscribers have acknowledged, or it is too old.
LEMMA CollectSpares ==
    ASSUME EsInv, NEW s \in Subscribers, NEW offset \in 1..EsEvents, AckAndCollect(s, offset)
    PROVE  /\ DOMAIN esAck' \subseteq DOMAIN esAck
           /\ \A t \in DOMAIN esAck' : esAck'[t] = esAck[t] \/ (t = s /\ esAck'[t] = offset)
           /\ esBase' \in esBase..esNext
           /\ \A o \in esBase..(esBase' - 1) : o \in esLost' \/ \A t \in DOMAIN esAck' : o <= esAck'[t]
<1>. USE EventStoreBounds
<1>. DEFINE acks == IF s \in DOMAIN esAck THEN [esAck EXCEPT ![s] = Max({@, offset})] ELSE esAck
<1>1. esBase \in Nat /\ esNext \in Nat /\ 1 <= esBase /\ esBase <= esNext
  BY DEF EsInv, EventStoreInv, EsTypeOK
<1>2. /\ DOMAIN acks = DOMAIN esAck
      /\ \A t \in DOMAIN acks : /\ acks[t] = esAck[t] \/ (t = s /\ acks[t] = offset)
                                /\ acks[t] \in Nat
  <2>1. CASE s \in DOMAIN esAck
    <3>1. esAck[s] \in Nat /\ \A t \in DOMAIN esAck : esAck[t] \in Nat
      BY <2>1 DEF EsInv, EsDataOK
    <3>2. Max({esAck[s], offset}) \in {esAck[s], offset}
      BY <3>1, MaxOfTwo
    <3>3. acks = [esAck EXCEPT ![s] = Max({esAck[s], offset})]
      BY <2>1
    <3>. HIDE DEF acks
    <3>4. QED BY <2>1, <3>1, <3>2, <3>3
  <2>2. CASE s \notin DOMAIN esAck
    BY <2>2 DEF EsInv, EsDataOK
  <2>3. QED BY <2>1, <2>2
<1>. HIDE DEF acks
<1>3. CASE esAck' = acks /\ UNCHANGED <<esBase, esLost>>
  BY <1>1, <1>2, <1>3
<1>4. ASSUME NEW seen \in SUBSET DOMAIN acks,
             NEW active, active = [t \in seen |-> acks[t]],
             NEW base, base = Max({esBase, Min({Collectable(active) + 1, esNext})}),
             esAck' = active,
             NEW aged \in base..esNext, esBase' = aged, esLost' = esLost \cup (base..(aged - 1))
      PROVE  /\ DOMAIN esAck' \subseteq DOMAIN esAck
             /\ \A t \in DOMAIN esAck' : esAck'[t] = esAck[t] \/ (t = s /\ esAck'[t] = offset)
             /\ esBase' \in esBase..esNext
             /\ \A o \in esBase..(esBase' - 1) : o \in esLost' \/ \A t \in DOMAIN esAck' : o <= esAck'[t]
  <2>1. DOMAIN active = seen /\ \A t \in seen : active[t] = acks[t] /\ active[t] \in Nat
    BY <1>2, <1>4
  <2>2. Collectable(active) \in Nat /\ (\A t \in seen : Collectable(active) <= active[t])
        /\ (seen = {} => Collectable(active) = 0)
    <3>1. CASE seen = {}
      BY <2>1, <3>1 DEF Collectable
    <3>2. CASE seen # {}
      <4>. DEFINE S == {active[t] : t \in DOMAIN active}
      <4>1. S \in SUBSET Nat /\ S # {} /\ \A t \in seen : active[t] \in S
        BY <2>1, <3>2
      <4>2. Collectable(active) = Min(S)
        BY <2>1, <3>2 DEF Collectable
      <4>. HIDE DEF S
      <4>3. Min(S) \in S /\ \A n \in S : Min(S) <= n
        BY <4>1, MinOfNats
      <4>4. QED BY <3>2, <4>1, <4>2, <4>3
    <3>3. QED BY <3>1, <3>2
  <2>. DEFINE upTo == Min({Collectable(active) + 1, esNext})
  <2>3. upTo \in Nat /\ upTo <= Collectable(active) + 1 /\ upTo <= esNext
    BY <1>1, <2>2, MinOfTwo
  <2>. HIDE DEF upTo
  <2>4. base \in Nat /\ esBase <= base /\ base <= esNext
        /\ (base = esBase \/ base <= Collectable(active) + 1)
    BY <1>1, <1>4, <2>2, <2>3, MaxOfTwo DEF upTo
  <2>5. \A o \in esBase..(aged - 1) : o \in base..(aged - 1) \/ o <= Collectable(active)
    BY <1>1, <2>2, <2>4
  <2>6. esAck' = active /\ esBase' = aged /\ esLost' = esLost \cup (base..(aged - 1))
    BY <1>4
  <2>7. /\ DOMAIN esAck' \subseteq DOMAIN esAck
        /\ \A t \in DOMAIN esAck' : esAck'[t] = esAck[t] \/ (t = s /\ esAck'[t] = offset)
    BY <1>2, <2>1, <2>6
  <2>8. esBase' \in esBase..esNext
    BY <1>1, <2>4, <2>6
  <2>9. ASSUME NEW o \in esBase..(esBase' - 1), o \notin esLost', NEW t \in DOMAIN esAck'
        PROVE  o <= esAck'[t]
    <3>1. o <= Collectable(active)
      BY <2>5, <2>6, <2>9
    <3>2. Collectable(active) <= esAck'[t] /\ esAck'[t] \in Nat
      BY <2>1, <2>2, <2>6
    <3>3. QED BY <1>1, <2>2, <3>1, <3>2
  <2>10. QED BY <2>7, <2>8, <2>9
<1>5. QED
  <2>1. CASE ~(esAck' = acks /\ UNCHANGED <<esBase, esLost>>)
    <3>1. PICK seen \in SUBSET DOMAIN acks :
            /\ esAck' = [t \in seen |-> acks[t]]
            /\ \E aged \in Max({esBase, Min({Collectable([t \in seen |-> acks[t]]) + 1, esNext})})..esNext :
                    /\ esBase' = aged
                    /\ esLost' = esLost \cup
                        (Max({esBase, Min({Collectable([t \in seen |-> acks[t]]) + 1, esNext})})..(aged - 1))
      BY <2>1 DEF AckAndCollect, acks
    <3>2. QED BY <1>4, <3>1
  <2>2. QED BY <1>3, <2>1

\* The oldest batch leaves the route: the others move up.
LEMMA BatchLeaves ==
    ASSUME EsInv, NEW s \in Subscribers, esOut[s] # <<>>, NEW d, d = Head(esOut[s]),
           esOut' = [esOut EXCEPT ![s] = Tail(@)]
    PROVE  /\ esOut' \in [Subscribers -> Seq(Deliveries)] /\ d \in Deliveries
           /\ \E last \in (d.from + 1)..EsEvents : d.events = (d.from + 1)..last
           /\ \A i \in DOMAIN esOut'[s] :
                i \in Nat /\ i + 1 \in DOMAIN esOut[s] /\ esOut'[s][i] = esOut[s][i + 1]
           /\ Outstanding(s) = d.events \cup Outstanding(s)'
           /\ \A t \in Subscribers \ {s} : esOut'[t] = esOut[t]
           /\ \A i \in DOMAIN esOut'[s] :
                EventsOf(esOut[s], 1..i) = d.events \cup EventsOf(esOut'[s], 1..(i - 1))
           /\ s \notin esRaced /\ d.readAt = esRewinds[s] => 1..d.from \subseteq esTaken[s]
<1>. DEFINE q == esOut[s]
            p == Tail(q)
<1>1. q \in Seq(Deliveries) /\ q # <<>> /\ esOut \in [Subscribers -> Seq(Deliveries)]
  BY DEF EsInv, EsDataOK
<1>2. /\ p \in Seq(Deliveries) /\ 1 \in DOMAIN q /\ d = q[1] /\ q[1] \in Deliveries
      /\ \A i \in DOMAIN p : i + 1 \in DOMAIN q /\ p[i] = q[i + 1] /\ i \in Nat
      /\ EventsOf(q, DOMAIN q) = d.events \cup EventsOf(p, DOMAIN p)
      /\ \A i \in DOMAIN p : EventsOf(q, 1..i) = d.events \cup EventsOf(p, 1..(i - 1))
      /\ EventsOf(q, 1..0) = {}
  BY <1>1, BatchSettled
<1>3. esOut' = [esOut EXCEPT ![s] = p]
  OBVIOUS
<1>4. (\E last \in (q[1].from + 1)..EsEvents : q[1].events = (q[1].from + 1)..last)
      /\ (s \notin esRaced /\ q[1].readAt = esRewinds[s] =>
            1..q[1].from \subseteq esTaken[s] \cup EventsOf(q, 1..(1 - 1)))
  BY <1>2 DEF EsInv, ConsumerInv, OutInv, AheadInv
<1>. HIDE DEF p
<1>5. esOut' \in [Subscribers -> Seq(Deliveries)] /\ esOut'[s] = p
      /\ \A t \in Subscribers \ {s} : esOut'[t] = esOut[t]
  BY <1>1, <1>2, <1>3
<1>7. 1 - 1 = 0
  OBVIOUS
<1>8. \A i \in DOMAIN p : EventsOf(q, 1..i) = d.events \cup EventsOf(p, 1..(i - 1))
  BY <1>2
<1>9. Outstanding(s) = d.events \cup Outstanding(s)'
  BY <1>2, <1>5 DEF Outstanding
<1>10. (\E last \in (d.from + 1)..EsEvents : d.events = (d.from + 1)..last)
       /\ (s \notin esRaced /\ d.readAt = esRewinds[s] => 1..d.from \subseteq esTaken[s])
  BY <1>2, <1>4, <1>7
<1>11. QED BY <1>2, <1>5, <1>8, <1>9, <1>10

\* The sink took the oldest batch.  It is acknowledged unless a nack came after it was read.
LEMMA EsCommitAckKeeps ==
    ASSUME EsInv, NEW s \in Subscribers, EsCommitAck(s)
    PROVE  /\ EsInv'
           /\ \A o \in esBase..(esBase' - 1) :
                o \in esLost' \/ \A t \in DOMAIN esAck' \ esRaced : o \in esTaken'[t]
<1>. USE EventStoreBounds
<1>. DEFINE d == Head(esOut[s])
<1>1. /\ esOut[s] # <<>> /\ esOut' = [esOut EXCEPT ![s] = Tail(@)]
      /\ esTaken' = [esTaken EXCEPT ![s] = @ \cup d.events]
      /\ \/ esRewinds[s] = d.readAt /\ AckAndCollect(s, Max(d.events))
         \/ UNCHANGED <<esAck, esBase, esLost>>
      /\ UNCHANGED <<esMax, esNext, esLast, esRewinds, esCall, esFrom, esBatch, esRaced>>
  BY DEF EsCommitAck
<1>2. /\ esOut' \in [Subscribers -> Seq(Deliveries)] /\ d \in Deliveries
      /\ \E last \in (d.from + 1)..EsEvents : d.events = (d.from + 1)..last
      /\ \A i \in DOMAIN esOut'[s] :
                i \in Nat /\ i + 1 \in DOMAIN esOut[s] /\ esOut'[s][i] = esOut[s][i + 1]
      /\ Outstanding(s) = d.events \cup Outstanding(s)'
      /\ \A t \in Subscribers \ {s} : esOut'[t] = esOut[t]
      /\ \A i \in DOMAIN esOut'[s] :
                EventsOf(esOut[s], 1..i) = d.events \cup EventsOf(esOut'[s], 1..(i - 1))
      /\ s \notin esRaced /\ d.readAt = esRewinds[s] => 1..d.from \subseteq esTaken[s]
  BY <1>1, BatchLeaves
<1>. HIDE DEF d
<1>3. /\ esTaken' \in [Subscribers -> EventSets]
      /\ esTaken'[s] = esTaken[s] \cup d.events
      /\ \A t \in Subscribers \ {s} : esTaken'[t] = esTaken[t]
  BY <1>1, <1>2 DEF EsInv, EsDataOK, Deliveries, EventSets
<1>4. PICK last \in (d.from + 1)..EsEvents : d.events = (d.from + 1)..last
  BY <1>2
<1>5. d.from \in Nat /\ last \in 1..EsEvents /\ Max(d.events) = last
  BY <1>2, <1>4, MaxOfRange DEF Deliveries
<1>6. esBase \in 1..esNext /\ esNext \in Nat
  BY DEF EsInv, EventStoreInv, EsTypeOK
<1>7. /\ DOMAIN esAck' \subseteq DOMAIN esAck
      /\ \A t \in DOMAIN esAck' : \/ esAck'[t] = esAck[t]
                                  \/ t = s /\ esAck'[t] = last /\ d.readAt = esRewinds[s]
      /\ esBase' \in esBase..esNext
      /\ \A o \in esBase..(esBase' - 1) : o \in esLost' \/ \A t \in DOMAIN esAck' : o <= esAck'[t]
  <2>1. CASE UNCHANGED <<esAck, esBase, esLost>>
    BY <1>6, <2>1
  <2>2. CASE esRewinds[s] = d.readAt /\ AckAndCollect(s, Max(d.events))
    BY <1>5, <2>2, CollectSpares
  <2>3. QED BY <1>1, <2>1, <2>2
<1>8. EsDataOK'
  <2>1. ASSUME NEW t \in DOMAIN esAck' PROVE esAck'[t] \in 0..EsEvents
    <3>1. esAck[t] \in 0..EsEvents
      BY <1>7 DEF EsInv, EsDataOK
    <3>2. QED BY <1>5, <1>7, <3>1
  <2>2. QED BY <1>1, <1>2, <1>3, <2>1 DEF EsInv, EsDataOK
<1>9. EsTypeOK'
  BY <1>1, <1>3, <1>6, <1>7 DEF EsInv, EventStoreInv, EsTypeOK, EventSets
<1>10. AckIsTrue'
  <2>1. ASSUME NEW t \in DOMAIN esAck' \ esRaced PROVE 1..esAck'[t] \subseteq esTaken'[t]
    <3>1. t \in Subscribers /\ 1..esAck[t] \subseteq esTaken[t] /\ esTaken[t] \subseteq esTaken'[t]
      BY <1>3, <1>7 DEF EsInv, EventStoreInv, EsTypeOK, AckIsTrue
    <3>2. CASE t = s /\ esAck'[t] = last /\ d.readAt = esRewinds[s]
      <4>1. 1..last \subseteq (1..d.from) \cup d.events
        BY <1>4, <1>5
      <4>2. QED BY <1>2, <1>3, <2>1, <3>2, <4>1
    <3>3. QED BY <1>7, <3>1, <3>2
  <2>2. QED BY <1>1, <2>1 DEF AckIsTrue
<1>11. ConsumerInv(s)'
  <2>1. OutInv(s)'
    <3>1. OutInv(s)
      BY DEF EsInv, ConsumerInv
    <3>2. ASSUME NEW i \in DOMAIN esOut'[s]
          PROVE  /\ \E n \in (esOut'[s][i].from + 1)..EsEvents :
                        esOut'[s][i].events = (esOut'[s][i].from + 1)..n
                 /\ esOut'[s][i].readAt <= esRewinds'[s]
      <4>1. i + 1 \in DOMAIN esOut[s] /\ esOut'[s][i] = esOut[s][i + 1] /\ esRewinds'[s] = esRewinds[s]
        BY <1>1, <1>2
      <4>2. QED BY <3>1, <4>1 DEF OutInv
    <3>3. QED BY <3>2 DEF OutInv
  <2>2. s \notin esRaced => AheadInv(s)'
    <3>1. SUFFICES ASSUME s \notin esRaced, NEW i \in DOMAIN esOut'[s], esOut'[s][i].readAt = esRewinds[s]
                   PROVE  1..esOut'[s][i].from \subseteq esTaken'[s] \cup EventsOf(esOut'[s], 1..(i - 1))
      BY <1>1 DEF AheadInv
    <3>2. 1..esOut[s][i + 1].from \subseteq esTaken[s] \cup EventsOf(esOut[s], 1..i)
      <4>. DEFINE j == i + 1
      <4>1. j \in DOMAIN esOut[s] /\ esOut[s][j].readAt = esRewinds[s]
        BY <1>2, <3>1
      <4>. HIDE DEF j
      <4>2. 1..esOut[s][j].from \subseteq esTaken[s] \cup EventsOf(esOut[s], 1..(j - 1))
        BY <3>1, <4>1 DEF EsInv, ConsumerInv, AheadInv
      <4>3. j - 1 = i /\ j = i + 1
        BY <1>2 DEF j
      <4>4. QED BY <4>2, <4>3
    <3>3. QED BY <1>2, <1>3, <3>1, <3>2
  <2>3. s \notin esRaced => Accounted(s)'
    BY <1>1, <1>2, <1>3 DEF EsInv, ConsumerInv, Accounted
  <2>4. ReadInv(s)'
    BY <1>1, <1>2, <1>3 DEF EsInv, ConsumerInv, ReadInv
  <2>5. QED BY <1>1, <2>1, <2>2, <2>3, <2>4 DEF ConsumerInv
<1>12. EsInv'
  BY <1>1, <1>2, <1>3, <1>8, <1>9, <1>10, <1>11, ConsumerStep
<1>13. ASSUME NEW o \in esBase..(esBase' - 1), o \notin esLost', NEW t \in DOMAIN esAck' \ esRaced
       PROVE  o \in esTaken'[t]
  <2>1. o <= esAck'[t]
    BY <1>7, <1>13
  <2>2. o \in 1..esAck'[t]
    BY <1>6, <1>8, <2>1 DEF EsDataOK
  <2>3. QED BY <1>1, <1>10, <2>2 DEF AckIsTrue
<1>14. QED BY <1>12, <1>13

\* The sink refused some of the oldest batch: the consumer goes back to its start, and no
\* batch it has read so far counts any more.
LEMMA EsCommitNackKeeps ==
    ASSUME EsInv, NEW s \in Subscribers, EsCommitNack(s) PROVE EsInv' /\ esBase' = esBase
<1>. USE EventStoreBounds
<1>. DEFINE d == Head(esOut[s])
<1>1. PICK some \in SUBSET d.events : esTaken' = [esTaken EXCEPT ![s] = @ \cup some]
  BY DEF EsCommitNack
<1>2. /\ esOut[s] # <<>> /\ esOut' = [esOut EXCEPT ![s] = Tail(@)]
      /\ esRewinds' = [esRewinds EXCEPT ![s] = @ + 1]
      /\ esLast' = [esLast EXCEPT ![s] = Min({@, d.from})]
      /\ esRaced' = IF esCall[s] \in {"reading", "read"} THEN esRaced \cup {s} ELSE esRaced
      /\ UNCHANGED <<esMax, esBase, esNext, esAck, esCall, esFrom, esBatch>>
  BY DEF EsCommitNack
<1>3. /\ esOut' \in [Subscribers -> Seq(Deliveries)] /\ d \in Deliveries
      /\ \E last \in (d.from + 1)..EsEvents : d.events = (d.from + 1)..last
      /\ \A i \in DOMAIN esOut'[s] :
                i \in Nat /\ i + 1 \in DOMAIN esOut[s] /\ esOut'[s][i] = esOut[s][i + 1]
      /\ Outstanding(s) = d.events \cup Outstanding(s)'
      /\ \A t \in Subscribers \ {s} : esOut'[t] = esOut[t]
  BY <1>2, BatchLeaves
<1>. HIDE DEF d
<1>4. /\ esTaken' \in [Subscribers -> EventSets]
      /\ esTaken[s] \subseteq esTaken'[s]
      /\ \A t \in Subscribers \ {s} : esTaken'[t] = esTaken[t]
  BY <1>1, <1>3 DEF EsInv, EsDataOK, Deliveries, EventSets
<1>5. d.from \in 0..EsEvents /\ esLast[s] \in 0..EsEvents /\ Min({esLast[s], d.from}) \in 0..EsEvents
      /\ Min({esLast[s], d.from}) <= d.from /\ Min({esLast[s], d.from}) <= esLast[s]
  <2>1. d.from \in 0..EsEvents /\ esLast[s] \in 0..EsEvents
    BY <1>3 DEF Deliveries, EsInv, EsDataOK
  <2>2. d.from \in Int /\ esLast[s] \in Int
    BY <2>1
  <2>3. Min({esLast[s], d.from}) = IF esLast[s] <= d.from THEN esLast[s] ELSE d.from
    BY <2>2, MinOfTwo
  <2>4. QED BY <2>1, <2>3
<1>6. /\ esLast' \in [Subscribers -> 0..EsEvents] /\ esRewinds' \in [Subscribers -> Nat]
      /\ esLast'[s] = Min({esLast[s], d.from}) /\ esRewinds'[s] = esRewinds[s] + 1 /\ esRewinds[s] \in Nat
      /\ \A t \in Subscribers \ {s} : esLast'[t] = esLast[t] /\ esRewinds'[t] = esRewinds[t]
  BY <1>2, <1>5 DEF EsInv, EsDataOK
<1>7. EsDataOK' /\ EsTypeOK'
  <2>1. EsDataOK'
    BY <1>2, <1>3, <1>4, <1>6 DEF EsInv, EsDataOK
  <2>2. QED BY <1>2, <1>4, <1>6, <2>1 DEF EsInv, EventStoreInv, EsTypeOK, EventSets
<1>8. \A t \in Subscribers : t \in esRaced => t \in esRaced'
  BY <1>2
<1>9. AckIsTrue'
  BY <1>2, <1>4, <1>8 DEF EsInv, EventStoreInv, EsTypeOK, AckIsTrue
<1>10. ConsumerInv(s)'
  <2>1. \A i \in DOMAIN esOut'[s] :
            /\ \E last \in (esOut'[s][i].from + 1)..EsEvents :
                    esOut'[s][i].events = (esOut'[s][i].from + 1)..last
            /\ esOut'[s][i].readAt <= esRewinds[s] /\ esOut'[s][i].readAt \in Nat
    <3>1. ASSUME NEW i \in DOMAIN esOut'[s]
          PROVE /\ \E last \in (esOut'[s][i].from + 1)..EsEvents :
                        esOut'[s][i].events = (esOut'[s][i].from + 1)..last
                /\ esOut'[s][i].readAt <= esRewinds[s]
      <4>1. PICK j \in DOMAIN esOut[s] : esOut'[s][i] = esOut[s][j]
        BY <1>3
      <4>2. QED BY <4>1 DEF EsInv, ConsumerInv, OutInv
    <3>2. ASSUME NEW i \in DOMAIN esOut'[s] PROVE esOut'[s][i] \in Deliveries
      BY <1>3
    <3>3. QED BY <3>1, <3>2 DEF Deliveries
  <2>2. OutInv(s)' /\ AheadInv(s)'
    BY <1>6, <2>1 DEF OutInv, AheadInv
  <2>3. ASSUME s \notin esRaced'
        PROVE  Accounted(s)' /\ s \notin esRaced /\ esCall[s] \notin {"reading", "read"}
    <3>1. s \notin esRaced /\ esCall[s] \notin {"reading", "read"}
      BY <1>2, <2>3
    <3>2. 1..esLast[s] \subseteq esTaken[s] \cup Outstanding(s) \cup esBatch[s]
      BY <3>1 DEF EsInv, ConsumerInv, Accounted
    <3>3. \A o \in 1..esLast'[s] : o \in 1..esLast[s] /\ o \notin d.events
      BY <1>3, <1>5, <1>6
    <3>4. 1..esLast'[s] \subseteq esTaken'[s] \cup Outstanding(s)' \cup esBatch'[s]
      BY <1>2, <1>3, <1>4, <3>2, <3>3
    <3>5. QED BY <3>1, <3>4 DEF Accounted
  <2>4. ReadInv(s)'
    <3>1. CASE esCall[s] \in {"reading", "read"}
      BY <1>2, <3>1 DEF EsInv, ConsumerInv, ReadInv
    <3>2. CASE esCall[s] \notin {"reading", "read"}
      BY <1>2, <3>2 DEF EsInv, ConsumerInv, ReadInv
    <3>3. QED BY <3>1, <3>2
  <2>5. QED BY <2>2, <2>3, <2>4 DEF ConsumerInv
<1>11. \A t \in Subscribers \ {s} : t \in esRaced <=> t \in esRaced'
  BY <1>2
<1>12. QED BY <1>2, <1>3, <1>4, <1>6, <1>7, <1>9, <1>10, <1>11, ConsumerStep

LEMMA EventStoreStep ==
    ASSUME EsInv, [EsNext]_esVars
    PROVE  /\ EsInv'
           /\ \A o \in esBase..(esBase' - 1) :
                o \in esLost' \/ \A t \in DOMAIN esAck' \ esRaced : o \in esTaken'[t]
<1>0. esBase \in Nat
  BY DEF EsInv, EventStoreInv, EsTypeOK
<1>1. CASE \E n \in 1..EsBatch : AppendBatch(n)
  BY <1>1, AppendKeeps
<1>2. CASE \E s \in Subscribers : EsReceive(s) \/ EsRead(s) \/ EsReturn(s) \/ EsGap(s) \/ EsCommitNack(s)
  <2>1. EsInv'
    BY <1>2, EsReceiveKeeps, EsReadKeeps, EsReturnKeeps, EsGapKeeps, EsCommitNackKeeps
  <2>2. esBase' = esBase
    BY <1>2 DEF EsReceive, EsRead, EsReturn, EsGap, EsCommitNack
  <2>3. QED BY <1>0, <2>1, <2>2
<1>3. CASE \E s \in Subscribers : EsCommitAck(s)
  BY <1>3, EsCommitAckKeeps
<1>4. CASE UNCHANGED esVars
  <2>1. EsInv' /\ esBase' = esBase
    BY <1>4
      DEF esVars, EsInv, EventStoreInv, EsTypeOK, EsDataOK, NothingPassedOver, AckIsTrue, ConsumerInv,
          OutInv, ReadInv, AheadInv, Accounted, Outstanding
  <2>2. QED BY <1>0, <2>1
<1>5. QED BY <1>1, <1>2, <1>3, <1>4 DEF EsNext

\* EventStoreConsumer: for any number of events, subscribers, nacks and collections, a

\* consumer whose receives no nack ran into passes nothing over, and its acknowledged
\* offset covers only what its sink took.
THEOREM EventStorePassesNothing == EsSpec => []EventStoreInv
<1>1. EsInv => EventStoreInv
  BY DEF EsInv
<1>2. QED BY <1>1, EventStoreStarts, EventStoreStep, PTL DEF EsSpec

\* EventStore::run_gc and the retention policy, for any number of subscribers: a slow

\* subscriber keeps the events its sink has not taken, or the policy counts them as lost.
THEOREM EventStoreCollectsTaken == EsSpec => CollectsOnlyTaken
<1>. DEFINE Spares == \A o \in esBase..(esBase' - 1) :
                o \in esLost' \/ \A s \in DOMAIN esAck' \ esRaced : o \in esTaken'[s]
<1>1. EsInv /\ [EsNext]_esVars => EsInv'
  BY EventStoreStep
<1>2. EsInv /\ [EsNext]_esVars => [Spares]_esVars
  BY EventStoreStep
<1>3. QED BY <1>1, <1>2, EventStoreStarts, PTL DEF EsSpec, CollectsOnlyTaken
-----------------------------------------------------------------------------
(* The directory spool *)

SpTypes ==
    /\ spDrain \in BOOLEAN /\ spBad \subseteq 1..SpMessages
    /\ spProducer \in {"none", "locked", "cleared", "open", "sending", "sidecar", "closing"}
    /\ spReopens \in Nat /\ spFaultsLeft \in 0..SpFaults
    /\ spNext \in 1..(SpMessages + 1) /\ spSeq \in 0..SpNames
    /\ spBack \cup spSend \cup spLeft \cup spAgain \subseteq Messages
    /\ spUnwritten \in [Messages -> Nat] /\ spWriteFailed \in BOOLEAN
    /\ spWritten \cup spMissing \subseteq Messages
    /\ spPayload \in [Names -> 0..SpMessages] /\ spSidecar \in [Names -> 0..SpMessages]
    /\ spPhase \in {"idle", "listing", "absorbed", "empty", "reading", "end"}
    /\ spAttempts \in 0..2 /\ (spAttempts = 2 => spPhase = "idle")
    /\ spReady \subseteq Names /\ spTaken \subseteq Names
    /\ spClaimed \subseteq Names /\ spRequeued \subseteq Names
    /\ spTodo \in [SpSlots -> [Names -> 0..SpMessages]]
    /\ spAt \in [SpSlots -> {"free", "first", "deleted", "swept", "nacked", "dropped"}]

\* No producer will start its numbers anew.
Steady == spReopens = 0 /\ spProducer \notin {"locked", "cleared"}

\* The only producer has not begun, so the consumer has found nothing.
Untouched ==
    /\ spReopens = 0 \/ (spReopens = 1 /\ spProducer = "none")
    /\ spProducer \in {"none", "locked", "cleared"}
    /\ Chunks = {}
    /\ spReady = {} /\ spTaken = {} /\ spClaimed = {} /\ spRequeued = {}
    /\ \A b \in SpSlots : Held(b) = {} /\ spAt[b] = "free"

\* Faults and producers that take over from each other do not meet.
RegimeInv == (spFaultsLeft = 0 /\ spProducers # 1) \/ Steady \/ Untouched

AtWork == spProducer \in {"open", "sending", "sidecar"}

\* Numbers go up, and so do messages that are not sent again.
WriterInv ==
    /\ \A n \in Chunks : spPayload[n] \in spWritten
    /\ spWritten \cup spBack \cup spSend \subseteq 1..(spNext - 1)
    /\ spLeft \subseteq spSend /\ spBack \subseteq spAgain
    /\ Steady \/ AtWork => \A n \in Chunks : n < spSeq
    /\ spProducer = "sidecar" => spLeft # {} /\ spSeq < SpNames
    /\ \A n \in Chunks : \A m \in spLeft \ spAgain : spPayload[n] < m

\* The chunks of a delivery whose name still stands for what it read: a deleted one's name
\* may be taken by the next producer.
Live(b) == {n \in Held(b) :
                ~(spFaultsLeft = 0 /\ spAt[b] \in {"deleted", "swept"} /\ n = First(b))}

\* The chunks a delivery still holds a claim for.
Firm(b) == {n \in Held(b) : spAt[b] # "dropped" /\ ~(spAt[b] = "nacked" /\ n = First(b))}

\* A name no producer will write to: behind the numbers given out, or on disk.
Reached(n) == IF Steady THEN n < spSeq ELSE n \in Chunks

HandsInv ==
    /\ \A n \in spReady \cup spTaken \cup spRequeued : Reached(n)
    /\ \A b \in SpSlots : \A n \in Live(b) :
            Reached(n) /\ spPayload[n] \in {NoFile, spTodo[b][n]}

ClaimedInv ==
    \A n \in spClaimed :
        \/ \E b \in SpSlots : n \in Firm(b)
        \/ n \in Chunks /\ spPayload[n] \in spAcked \cup spBad
        \/ n \notin Chunks /\ Steady /\ n < spSeq

\* While numbers can start anew no chunk is in two hands.
UniqueInv ==
    ~Steady =>
        /\ spRequeued = {}
        /\ (spReady \cup spTaken) \cap spClaimed = {}
        /\ spReady \cap spTaken = {}
        /\ \A b \in SpSlots : spAt[b] \notin {"nacked", "dropped"} /\ Held(b) \subseteq spClaimed
        /\ \A b, c \in SpSlots : b # c => Held(b) \cap Held(c) = {}

\* An empty listing leaves nothing owed that no open delivery answers for.
EmptyInv ==
    spPhase = "empty" /\ spSampled =>
        spSettled \/ OpenDeliveries # {} \/ spOwed \subseteq spAcked \cup spBad

OwedInv ==
    /\ spOwed \subseteq spWritten
    /\ \A b \in SpSlots : spAt[b] = "free" => Held(b) = {}

SpInv ==
    /\ SpTypes /\ RegimeInv /\ WriterInv /\ HandsInv /\ ClaimedInv /\ UniqueInv /\ EmptyInv
    /\ OwedInv /\ SpooledUntilAcked /\ OnlyResentOvertaken /\ EndIsDrained

LEMMA NamesAreNumbers ==
    /\ Names \subseteq Nat /\ \A n \in Nat : n < SpNames => n \in Names
    /\ Messages \subseteq Nat /\ \A m \in Messages : m # NoFile
BY SpoolBounds DEF Names, Messages, NoFile

LEMMA SlotIsAKey == SpSlots \subseteq Nat
BY SpoolBounds DEF SpSlots

\* The first chunk of a delivery is one of its chunks.
LEMMA FirstIsHeld ==
    ASSUME NEW b \in SpSlots, Held(b) # {}
    PROVE  First(b) \in Held(b) /\ First(b) \in Names
BY MinOfNats, NamesAreNumbers DEF First, Held

LEMMA MaxOfNats ==
    ASSUME NEW S \in SUBSET Nat, NEW k \in S, \A n \in S : n <= k
    PROVE  Max(S) = k
<1>1. \A n \in S : (\A m \in S : n >= m) <=> n = k
  OBVIOUS
<1>2. QED BY <1>1, Zenon DEF Max

\* highest_sequence: a number above all on disk, and no higher than it must be.
LEMMA NextSeqIsFree ==
    ASSUME SpTypes
    PROVE  /\ NextSeq \in Nat
           /\ \A n \in Chunks : n < NextSeq
           /\ NextSeq <= SpNames
<1>. USE SpoolBounds
<1>1. CASE Chunks = {}
  BY <1>1 DEF NextSeq
<1>2. CASE Chunks # {}
  <2>. DEFINE above == {k \in Nat : \A n \in Chunks : n < k}
  <2>1. Chunks \subseteq Nat /\ \A n \in Chunks : n < SpNames
    BY NamesAreNumbers DEF Chunks, Names
  <2>2. SpNames \in above
    BY <2>1
  <2>3. PICK k \in above : \A j \in above : k <= j
    <3>1. above \in SUBSET Nat /\ above # {}
      BY <2>2
    <3>. HIDE DEF above
    <3>2. QED BY <3>1, MinOfNats
  <2>4. k - 1 \in Chunks
    <3>1. PICK n \in Chunks : TRUE
      BY <1>2
    <3>2. k \in Nat /\ k # 0 /\ k - 1 \in Nat /\ k - 1 \notin above
      BY <3>1, <2>1, <2>3
    <3>3. PICK m \in Chunks : ~(m < k - 1)
      BY <3>2
    <3>4. m < k /\ m \in Nat
      BY <2>1, <2>3
    <3>5. QED BY <3>2, <3>3, <3>4
  <2>5. \A n \in Chunks : n <= k - 1
    BY <2>1, <2>3
  <2>6. Max(Chunks) = k - 1
    BY <2>1, <2>4, <2>5, MaxOfNats
  <2>7. QED BY <1>2, <2>1, <2>3, <2>4, <2>6 DEF NextSeq
<1>3. QED BY <1>1, <1>2

\* The start of a listing: some of it, and nothing only if there is nothing.
LEMMA SmallestOf ==
    ASSUME NEW S \in SUBSET Names
    PROVE  Smallest(S, SpBatch) \subseteq S /\ (Smallest(S, SpBatch) = {} => S = {})
<1>1. ASSUME S # {} PROVE Min(S) \in Smallest(S, SpBatch)
  <2>1. Min(S) \in S /\ \A n \in S : Min(S) <= n
    BY <1>1, MinOfNats, NamesAreNumbers
  <2>2. {m \in S : m < Min(S)} = {}
    <3>1. \A m \in S : m \in Nat /\ Min(S) \in Nat /\ Min(S) <= m
      BY <2>1, NamesAreNumbers
    <3>2. \A m \in S : ~(m < Min(S))
      BY <3>1
    <3>3. QED BY <3>2
  <2>3. Cardinality({}) = 0
    BY FS_EmptySet
  <2>4. QED BY <2>1, <2>2, <2>3, SpoolBounds DEF Smallest
<1>2. QED BY <1>1 DEF Smallest

LEMMA SpoolStarts == SpInit /\ (spFaultsLeft = 0 \/ spProducers = 1) => SpInv
<1>. SUFFICES ASSUME SpInit, spFaultsLeft = 0 \/ spProducers = 1 PROVE SpInv
  OBVIOUS
<1>. USE SpoolBounds
<1>1. /\ Chunks = {}
      /\ \A b \in SpSlots : Held(b) = {} /\ spAt[b] = "free"
      /\ NoChunks \in [Names -> 0..SpMessages]
  BY DEF SpInit, Chunks, Held, NoChunks, NoFile
<1>2. SpTypes
  <2>1. NoneUnwritten \in [Messages -> Nat]
    BY DEF NoneUnwritten
  <2>2. spDrain \in BOOLEAN /\ spWriteFailed \in BOOLEAN /\ spBad \subseteq 1..SpMessages
    BY DEF SpInit, Messages
  <2>3. spReopens \in Nat /\ spFaultsLeft \in 0..SpFaults /\ spNext \in 1..(SpMessages + 1)
        /\ spSeq \in 0..SpNames /\ spAttempts \in 0..2
    BY DEF SpInit
  <2>4. spTodo \in [SpSlots -> [Names -> 0..SpMessages]]
    BY <1>1 DEF SpInit
  <2>5. QED BY <1>1, <2>1, <2>2, <2>3, <2>4 DEF SpInit, SpTypes
<1>3. RegimeInv /\ UniqueInv /\ OwedInv /\ EmptyInv
  BY <1>1 DEF SpInit, RegimeInv, Untouched, UniqueInv, OwedInv, EmptyInv
<1>4. WriterInv /\ HandsInv /\ ClaimedInv
  BY <1>1 DEF SpInit, WriterInv, HandsInv, ClaimedInv, Steady, Live
<1>5. SpooledUntilAcked /\ OnlyResentOvertaken /\ EndIsDrained
  BY <1>1 DEF SpInit, SpooledUntilAcked, OnlyResentOvertaken, EndIsDrained
<1>6. QED BY <1>2, <1>3, <1>4, <1>5 DEF SpInv

\* What such a step does to the messages of the producer: it goes on with them, or begins to
\* send new ones or some again.
SendsOn ==
    /\ spNext' \in 1..(SpMessages + 1) /\ spNext <= spNext'
    /\ spBack' \cup spSend' \subseteq 1..(spNext' - 1)
    /\ spLeft' \subseteq spSend' /\ spBack' \subseteq spAgain'
    /\ spAgain \subseteq spAgain' /\ spAgain' \subseteq Messages
    /\ \A m \in spLeft' \ spAgain' : m \in spLeft \ spAgain \/ m >= spNext

LEMMA SendsOnAgain ==
    ASSUME SpInv, UNCHANGED <<spNext, spBack, spSend, spLeft, spAgain>> PROVE SendsOn
BY SpoolBounds DEF SpInv, SpTypes, WriterInv, SendsOn, Messages

LEMMA SendBatchSends ==
    ASSUME SpInv, SpSendBatch PROVE SendsOn
<1>1. /\ spNext \in 1..(SpMessages + 1) /\ SpMessages \in Nat
      /\ spBack \cup spSend \subseteq 1..(spNext - 1) /\ spBack \subseteq spAgain /\ spAgain \subseteq Messages
  BY SpoolBounds DEF SpInv, SpTypes, WriterInv
<1>2. spLeft' = spSend' /\ spAgain' = spAgain
  BY DEF SpSendBatch
<1>3. CASE \E last \in spNext..SpMessages :
               spSend' = spNext..last /\ spNext' = last + 1 /\ spBack' = spBack
  <2>1. PICK last \in spNext..SpMessages :
               spSend' = spNext..last /\ spNext' = last + 1 /\ spBack' = spBack
    BY <1>3
  <2>2. spNext' \in 1..(SpMessages + 1) /\ spNext <= spNext' /\ spNext' - 1 = last
    BY <1>1, <2>1
  <2>3. spBack' \cup spSend' \subseteq 1..last
    BY <1>1, <2>1
  <2>4. \A m \in spLeft' : m >= spNext
    BY <1>1, <1>2, <2>1
  <2>5. QED BY <1>1, <1>2, <2>1, <2>2, <2>3, <2>4 DEF SendsOn
<1>4. CASE \E again \in SUBSET spBack \ {{}} :
               spSend' = again /\ spBack' = spBack \ again /\ spNext' = spNext
  BY <1>1, <1>2, <1>4 DEF SendsOn
<1>5. QED BY <1>3, <1>4 DEF SpSendBatch

\* The steps of a producer that put no chunk on disk.
LEMMA ProducerMoves ==
    ASSUME SpInv,
           \/ SpOpenProducer \/ SpClearDone \/ SpSendBatch \/ SpWriteSidecar \/ SpWriteFails \/ SpSent
           \/ SpSyncFails \/ SpWriteDone \/ SpRelease \/ SpStop
    PROVE  SpInv'
<1>. USE SpoolBounds
<1>1. /\ UNCHANGED <<spDrain, spBad, spProducers, spPayload, spWritten, spPhase, spSampled, spAttempts,
                     spReady, spTaken, spFailed, spOwed, spClaimed, spRequeued, spTodo, spAt, spSettled,
                     spAcked>>
      /\ spProducer' \in {"none", "locked", "cleared", "open", "sending", "sidecar", "closing"}
      /\ spReopens' \in Nat /\ spFaultsLeft' \in 0..SpFaults
      /\ spFaultsLeft = 0 => spFaultsLeft' = 0
      /\ Steady' <=> Steady
      /\ AtWork' => AtWork
      /\ Untouched => /\ spReopens' = 0 \/ (spReopens' = 1 /\ spProducer' = "none")
                      /\ spProducer' \in {"none", "locked", "cleared"}
      /\ spSeq' \in 0..SpNames /\ spSeq <= spSeq'
      /\ spProducer' = "sidecar" => spLeft' # {} /\ spSeq' < SpNames
  <2>. USE DEF SpInv, SpTypes, AtWork, Steady, Untouched, spSending, spNotes, spFiles, spReader, spShared
  <2>1. CASE SpOpenProducer
    BY <2>1 DEF SpOpenProducer
  <2>2. CASE SpClearDone
    BY <2>2 DEF SpClearDone
  <2>3. CASE SpSendBatch
    BY <2>3 DEF SpSendBatch
  <2>4. CASE SpWriteSidecar
    BY <2>4 DEF SpWriteSidecar
  <2>5. CASE SpWriteFails
    BY <2>5 DEF SpWriteFails
  <2>6. CASE SpSent
    BY <2>6 DEF SpSent
  <2>7. CASE SpSyncFails
    BY <2>7 DEF SpSyncFails
  <2>8. CASE SpWriteDone
    BY <2>8 DEF SpWriteDone
  <2>9. CASE SpRelease
    BY <2>9 DEF SpRelease
  <2>10. CASE SpStop
    BY <2>10 DEF SpStop
  <2>11. QED BY <2>1, <2>2, <2>3, <2>4, <2>5, <2>6, <2>7, <2>8, <2>9, <2>10
<1>2. SendsOn
  <2>1. CASE SpOpenProducer \/ SpClearDone \/ SpWriteSidecar \/ SpWriteDone \/ SpRelease
    <3>1. UNCHANGED <<spNext, spBack, spSend, spLeft, spAgain>>
      BY <2>1 DEF SpOpenProducer, SpClearDone, SpWriteSidecar, SpWriteDone, SpRelease, spSending
    <3>2. QED BY <3>1, SendsOnAgain
  <2>2. CASE SpSendBatch
    BY <2>2, SendBatchSends
  <2>3. /\ spNext \in 1..(SpMessages + 1) /\ SpMessages \in Nat
        /\ spBack \cup spSend \subseteq 1..(spNext - 1) /\ spLeft \subseteq spSend
        /\ spBack \subseteq spAgain /\ spAgain \cup spSend \cup spLeft \subseteq Messages
    BY DEF SpInv, SpTypes, WriterInv
  <2>4. CASE SpWriteFails
    <3>1. Min(spLeft) \in spLeft
      BY <2>3, <2>4, MinOfNats, NamesAreNumbers DEF SpWriteFails
    <3>2. /\ UNCHANGED <<spNext, spSend>> /\ spLeft' \subseteq spLeft
          /\ spBack' = spBack \cup {Min(spLeft)} /\ spAgain' = spAgain \cup {Min(spLeft)}
      BY <2>4 DEF SpWriteFails
    <3>3. QED BY <2>3, <3>1, <3>2 DEF SendsOn
  <2>5. CASE SpSent \/ SpSyncFails
    <3>1. /\ UNCHANGED <<spNext, spLeft>> /\ spLeft = {} /\ spSend' = {}
          /\ \/ UNCHANGED <<spBack, spAgain>>
             \/ spBack' = spBack \cup spSend /\ spAgain' = spAgain \cup spSend
      BY <2>5 DEF SpSent, SpSyncFails
    <3>2. QED BY <2>3, <3>1 DEF SendsOn
  <2>6. CASE SpStop
    <3>1. PICK again \in SUBSET (1..(spNext - 1)) :
             spBack' = spBack \cup again /\ spAgain' = spAgain \cup again
      BY <2>6 DEF SpStop
    <3>2. spNext' = spNext /\ spSend' = {} /\ spLeft' = {}
      BY <2>6 DEF SpStop
    <3>3. again \subseteq Messages
      BY <2>3 DEF Messages
    <3>4. spBack' \subseteq 1..(spNext - 1) /\ spBack' \subseteq spAgain' /\ spAgain' \subseteq Messages
      BY <2>3, <3>1, <3>3
    <3>5. spNext <= spNext
      BY <2>3
    <3>6. QED BY <2>3, <3>1, <3>2, <3>4, <3>5 DEF SendsOn
  <2>7. QED BY <2>1, <2>2, <2>4, <2>5, <2>6
<1>3. /\ spSidecar' \in [Names -> 0..SpMessages]
      /\ spUnwritten' \in [Messages -> Nat] /\ spWriteFailed' \in BOOLEAN /\ spMissing' \subseteq Messages
  <2>1. /\ spSidecar \in [Names -> 0..SpMessages] /\ spLeft \subseteq Messages
        /\ spUnwritten \in [Messages -> Nat] /\ spWriteFailed \in BOOLEAN /\ spMissing \subseteq Messages
        /\ spLeft # {} => Min(spLeft) \in spLeft /\ Min(spLeft) \in 0..SpMessages
    <3>1. spLeft \in SUBSET Nat /\ spLeft \subseteq 0..SpMessages
      BY NamesAreNumbers DEF SpInv, SpTypes, Messages
    <3>2. QED BY <3>1, MinOfNats DEF SpInv, SpTypes
  <2>2. CASE SpWriteSidecar
    BY <2>1, <2>2 DEF SpWriteSidecar, spNotes
  <2>3. CASE SpWriteFails
    <3>1. UNCHANGED spSidecar /\ spMissing' \subseteq Messages
      BY <2>1, <2>3 DEF SpWriteFails, spFiles
    <3>2. NoteUnwritten(Min(spLeft)) /\ Min(spLeft) \in Messages
      BY <2>1, <2>3 DEF SpWriteFails
    <3>3. CASE spUnwritten' = [spUnwritten EXCEPT ![Min(spLeft)] = @ + 1] /\ spWriteFailed' = spWriteFailed
      BY <2>1, <3>1, <3>2, <3>3
    <3>4. CASE spUnwritten' = spUnwritten /\ spWriteFailed' = TRUE
      BY <2>1, <3>1, <3>4
    <3>5. QED BY <3>2, <3>3, <3>4 DEF NoteUnwritten
  <2>4. CASE SpOpenProducer
    BY <2>1, <2>4 DEF SpOpenProducer, NoneUnwritten, spFiles
  <2>5. CASE SpSyncFails
    BY <2>1, <2>5 DEF SpSyncFails, spFiles
  <2>6. CASE SpClearDone \/ SpSendBatch \/ SpSent \/ SpWriteDone \/ SpRelease \/ SpStop
    BY <2>1, <2>6 DEF SpClearDone, SpSendBatch, SpSent, SpWriteDone, SpRelease, SpStop, spNotes, spFiles
  <2>7. QED BY <2>2, <2>3, <2>4, <2>5, <2>6
<1>4. Chunks' = Chunks /\ Chunks \subseteq Names /\ Names \subseteq Nat
  BY <1>1, NamesAreNumbers DEF Chunks
<1>5. /\ OpenDeliveries' = OpenDeliveries
      /\ \A b \in SpSlots : Held(b)' = Held(b) /\ Firm(b)' = Firm(b) /\ Live(b)' \subseteq Live(b)
  BY <1>1 DEF OpenDeliveries, Held, Firm, Live, First
<1>6. \A n \in Names : Reached(n) => Reached(n)'
  BY <1>1, <1>4 DEF Reached, SpInv, SpTypes
<1>7. SpTypes'
  <2>1. spSend' \subseteq Messages /\ spBack' \cup spLeft' \cup spAgain' \subseteq Messages
    <3>1. 1..(spNext' - 1) \subseteq Messages
      <4>1. spNext' \in 1..(SpMessages + 1) /\ SpMessages \in Nat
        BY <1>2 DEF SendsOn
      <4>2. \A k \in 1..(SpMessages + 1) : \A m \in 1..(k - 1) : m \in 1..SpMessages
        BY <4>1
      <4>3. QED BY <4>1, <4>2 DEF Messages
    <3>2. QED BY <1>2, <3>1 DEF SendsOn
  <2>2. QED BY <1>1, <1>2, <1>3, <2>1 DEF SpInv, SpTypes, SendsOn
<1>8. RegimeInv'
  <2>1. Untouched => Untouched'
    BY <1>1, <1>4, <1>5 DEF Untouched
  <2>2. QED BY <1>1, <2>1 DEF SpInv, RegimeInv
<1>9. WriterInv'
  <2>1. \A n \in Chunks : /\ n \in Nat /\ spPayload[n] \in Nat
                          /\ spPayload[n] \in spWritten /\ spPayload[n] < spNext
    BY <1>4 DEF SpInv, SpTypes, WriterInv
  <2>2. spNext \in Nat /\ spNext' \in Nat /\ spSeq \in Nat /\ spSeq' \in Nat /\ spLeft' \subseteq Nat
    BY <1>1, <1>2, NamesAreNumbers DEF SpInv, SpTypes, SendsOn
  <2>3. spWritten \subseteq 1..(spNext' - 1)
    BY <1>2, <2>2 DEF SpInv, WriterInv, SendsOn
  <2>4. Steady' \/ AtWork' => \A n \in Chunks : n < spSeq'
    BY <1>1, <2>1, <2>2 DEF SpInv, WriterInv
  <2>5. \A n \in Chunks : \A m \in spLeft' \ spAgain' : spPayload[n] < m
    <3>1. ASSUME NEW n \in Chunks, NEW m \in spLeft' \ spAgain' PROVE spPayload[n] < m
      <4>1. CASE m \in spLeft \ spAgain
        BY <4>1 DEF SpInv, WriterInv
      <4>2. CASE m >= spNext
        BY <2>1, <2>2, <4>2
      <4>3. QED BY <1>2, <4>1, <4>2 DEF SendsOn
    <3>2. QED BY <3>1
  <2>6. QED BY <1>1, <1>2, <1>4, <2>1, <2>3, <2>4, <2>5 DEF WriterInv, SendsOn
<1>10. HandsInv'
  <2>1. \A n \in spReady \cup spTaken \cup spRequeued : Reached(n)'
    BY <1>6 DEF SpInv, SpTypes, HandsInv
  <2>2. ASSUME NEW b \in SpSlots, NEW n \in Live(b)'
        PROVE  Reached(n)' /\ spPayload'[n] \in {NoFile, spTodo'[b][n]}
    BY <1>1, <1>5, <1>6 DEF SpInv, HandsInv, Live, Held
  <2>3. QED BY <1>1, <2>1, <2>2 DEF HandsInv
<1>11. ClaimedInv'
  <2>1. \A n \in spClaimed : n \in Nat
    BY <1>4 DEF SpInv, SpTypes
  <2>2. QED BY <1>1, <1>4, <1>5, <2>1 DEF SpInv, SpTypes, ClaimedInv
<1>12. UniqueInv' /\ EmptyInv' /\ OwedInv'
  BY <1>1, <1>5 DEF SpInv, UniqueInv, EmptyInv, OwedInv
<1>13. SpooledUntilAcked' /\ OnlyResentOvertaken' /\ EndIsDrained'
  BY <1>1, <1>2, <1>4 DEF SpInv, SpooledUntilAcked, OnlyResentOvertaken, EndIsDrained, SendsOn
<1>14. QED BY <1>7, <1>8, <1>9, <1>10, <1>11, <1>12, <1>13 DEF SpInv

\* A producer that takes over starts behind every chunk on disk.
LEMMA SeedKeeps ==
    ASSUME SpInv, SpSeed PROVE SpInv'
<1>. USE SpoolBounds
<1>1. /\ UNCHANGED <<spDrain, spBad, spProducers, spReopens, spNext, spBack, spSend, spLeft, spAgain,
                     spUnwritten, spWriteFailed, spWritten, spMissing, spPayload, spSidecar,
                     spPhase, spSampled, spAttempts, spReady, spTaken, spFailed, spOwed, spClaimed,
                     spRequeued, spTodo, spAt, spSettled, spFaultsLeft, spAcked>>
      /\ spProducer = "cleared" /\ spProducer' = "open"
      /\ spSeq' = NextSeq
      /\ ~Steady
  BY DEF SpSeed, Steady, spSending, spNotes, spFiles, spReader, spShared
<1>2. Chunks' = Chunks /\ Chunks \subseteq Names /\ Names \subseteq Nat
  BY <1>1, NamesAreNumbers DEF Chunks
<1>3. spSeq' \in 0..SpNames /\ \A n \in Chunks : n < spSeq'
  BY <1>1, NextSeqIsFree DEF SpInv
<1>4. /\ OpenDeliveries' = OpenDeliveries
      /\ \A b \in SpSlots : Held(b)' = Held(b) /\ Firm(b)' = Firm(b) /\ Live(b)' = Live(b)
  BY <1>1 DEF OpenDeliveries, Held, Firm, Live, First
<1>5. \A n \in Names : Reached(n) => Reached(n)'
  BY <1>1, <1>2, <1>3 DEF Reached
<1>6. SpTypes'
  BY <1>1, <1>3 DEF SpInv, SpTypes
<1>7. RegimeInv'
  <2>1. ~(spFaultsLeft = 0 /\ spProducers # 1) => spReopens = 0
    BY <1>1 DEF SpInv, RegimeInv, Untouched
  <2>2. QED BY <1>1, <2>1 DEF RegimeInv, Steady
<1>8. WriterInv'
  BY <1>1, <1>2, <1>3 DEF SpInv, WriterInv
<1>9. HandsInv'
  <2>1. \A n \in spReady \cup spTaken \cup spRequeued : Reached(n)'
    BY <1>5 DEF SpInv, SpTypes, HandsInv
  <2>2. ASSUME NEW b \in SpSlots, NEW n \in Live(b)'
        PROVE  Reached(n)' /\ spPayload'[n] \in {NoFile, spTodo'[b][n]}
    BY <1>1, <1>4, <1>5 DEF SpInv, HandsInv, Live, Held
  <2>3. QED BY <1>1, <2>1, <2>2 DEF HandsInv
<1>10. ClaimedInv'
  BY <1>1, <1>2, <1>4 DEF SpInv, ClaimedInv
<1>11. UniqueInv' /\ EmptyInv' /\ OwedInv'
  BY <1>1, <1>4 DEF SpInv, UniqueInv, EmptyInv, OwedInv
<1>12. SpooledUntilAcked' /\ OnlyResentOvertaken' /\ EndIsDrained'
  BY <1>1, <1>2 DEF SpInv, SpooledUntilAcked, OnlyResentOvertaken, EndIsDrained
<1>13. QED BY <1>6, <1>7, <1>8, <1>9, <1>10, <1>11, <1>12 DEF SpInv

\* A chunk is put on disk, behind all others and under a name nobody has in hand.
LEMMA WritePayloadKeeps ==
    ASSUME SpInv, SpWritePayload PROVE SpInv'
<1>. USE SpoolBounds
<1>. DEFINE m == Min(spLeft)
<1>1. /\ UNCHANGED <<spDrain, spBad, spProducers, spReopens, spNext, spBack, spSend, spAgain,
                     spWriteFailed, spSidecar, spPhase, spSampled, spAttempts, spReady, spTaken,
                     spFailed, spOwed, spClaimed, spRequeued, spTodo, spAt, spSettled, spFaultsLeft,
                     spAcked>>
      /\ spProducer = "sidecar" /\ spProducer' = "sending"
      /\ spPayload' = [spPayload EXCEPT ![spSeq] = m]
      /\ spSeq' = spSeq + 1 /\ spLeft' = spLeft \ {m}
      /\ spUnwritten' = [spUnwritten EXCEPT ![m] = IF @ = 0 THEN 0 ELSE @ - 1]
      /\ spWritten' = spWritten \cup {m} /\ spMissing' = spMissing \ {m}
      /\ Steady' <=> Steady
  BY DEF SpWritePayload, Steady, spReader, spShared
<1>2. Chunks \subseteq Names /\ Names \subseteq Nat
  BY NamesAreNumbers DEF Chunks
<1>3. /\ m \in spLeft /\ m \in Messages /\ m \in Nat /\ m # NoFile /\ m \in 0..SpMessages
      /\ \A k \in spLeft \ {m} : m < k
      /\ spSeq \in Names /\ spSeq \in Nat /\ spSeq < SpNames
      /\ \A n \in Chunks : n < spSeq
  <2>1. spLeft # {} /\ spSeq < SpNames /\ spSeq \in Nat /\ \A n \in Chunks : n < spSeq
    BY <1>1 DEF SpInv, SpTypes, WriterInv, AtWork
  <2>2. spLeft \in SUBSET Nat /\ spLeft \subseteq Messages
    BY NamesAreNumbers DEF SpInv, SpTypes
  <2>3. m \in spLeft /\ \A k \in spLeft : m <= k
    BY <2>1, <2>2, MinOfNats
  <2>. HIDE DEF m
  <2>4. m \in Messages /\ m \in Nat /\ m # NoFile /\ m \in 0..SpMessages
    BY <2>2, <2>3, NamesAreNumbers DEF Messages
  <2>5. \A k \in spLeft \ {m} : m < k
    BY <2>2, <2>3
  <2>6. QED BY <2>1, <2>3, <2>4, <2>5, NamesAreNumbers
<1>. HIDE DEF m
<1>4. /\ spSeq \notin Chunks
      /\ Chunks' = Chunks \cup {spSeq}
      /\ spPayload' \in [Names -> 0..SpMessages]
      /\ spPayload'[spSeq] = m
      /\ \A n \in Names : n # spSeq => spPayload'[n] = spPayload[n]
  <2>1. spSeq \notin Chunks
    BY <1>2, <1>3
  <2>2. spPayload \in [Names -> 0..SpMessages]
    BY DEF SpInv, SpTypes
  <2>3. /\ spPayload' \in [Names -> 0..SpMessages] /\ spPayload'[spSeq] = m
        /\ \A n \in Names : n # spSeq => spPayload'[n] = spPayload[n]
    BY <1>1, <1>3, <2>2
  <2>4. Chunks' = {n \in Names : spPayload'[n] # NoFile}
    BY DEF Chunks
  <2>5. \A n \in Names : spPayload'[n] # NoFile <=> (n = spSeq \/ spPayload[n] # NoFile)
    BY <1>3, <2>3
  <2>6. Chunks' = Chunks \cup {spSeq}
    BY <1>3, <2>4, <2>5 DEF Chunks
  <2>7. QED BY <2>1, <2>3, <2>6
<1>5. /\ OpenDeliveries' = OpenDeliveries
      /\ \A b \in SpSlots : Held(b)' = Held(b) /\ Firm(b)' = Firm(b) /\ Live(b)' = Live(b)
  BY <1>1 DEF OpenDeliveries, Held, Firm, Live, First
<1>6. \A n \in Names : Reached(n) => Reached(n)' /\ n # spSeq
  BY <1>1, <1>2, <1>3, <1>4 DEF Reached
<1>7. SpTypes'
  <2>1. spUnwritten' \in [Messages -> Nat]
    BY <1>1, <1>3 DEF SpInv, SpTypes
  <2>2. spSeq' \in 0..SpNames
    BY <1>1, <1>3
  <2>3. QED BY <1>1, <1>3, <1>4, <2>1, <2>2 DEF SpInv, SpTypes
<1>8. RegimeInv'
  BY <1>1 DEF SpInv, RegimeInv, Untouched
<1>9. WriterInv'
  <2>1. \A n \in Chunks : /\ n \in Nat /\ n < spSeq' /\ spPayload'[n] = spPayload[n]
                          /\ spPayload[n] \in spWritten
    BY <1>1, <1>2, <1>3, <1>4 DEF SpInv, SpTypes, WriterInv
  <2>2. \A n \in Chunks' : spPayload'[n] \in spWritten' /\ n < spSeq'
    BY <1>1, <1>3, <1>4, <2>1
  <2>3. spWritten' \cup spBack' \cup spSend' \subseteq 1..(spNext' - 1)
    BY <1>1, <1>3 DEF SpInv, WriterInv
  <2>4. \A n \in Chunks' : \A k \in spLeft' \ spAgain' : spPayload'[n] < k
    BY <1>1, <1>3, <1>4, <2>1 DEF SpInv, WriterInv
  <2>5. QED BY <1>1, <2>2, <2>3, <2>4 DEF SpInv, WriterInv
<1>10. HandsInv'
  <2>1. \A n \in spReady \cup spTaken \cup spRequeued : Reached(n)'
    BY <1>6 DEF SpInv, SpTypes, HandsInv
  <2>2. ASSUME NEW b \in SpSlots, NEW n \in Live(b)'
        PROVE  Reached(n)' /\ spPayload'[n] \in {NoFile, spTodo'[b][n]}
    <3>1. n \in Live(b) /\ n \in Names
      BY <1>5, <2>2 DEF Live, Held
    <3>2. Reached(n) /\ spPayload[n] \in {NoFile, spTodo[b][n]}
      BY <3>1 DEF SpInv, HandsInv
    <3>3. QED BY <1>1, <1>4, <1>6, <3>1, <3>2
  <2>3. QED BY <1>1, <2>1, <2>2 DEF HandsInv
<1>11. ClaimedInv'
  <2>1. \A n \in spClaimed : n \in Names /\ n \in Nat
    BY <1>2 DEF SpInv, SpTypes
  <2>2. QED BY <1>1, <1>2, <1>3, <1>4, <1>5, <2>1 DEF SpInv, ClaimedInv
<1>12. UniqueInv' /\ EmptyInv'
  BY <1>1, <1>5 DEF SpInv, UniqueInv, EmptyInv
<1>13. OwedInv'
  BY <1>1, <1>3, <1>5 DEF SpInv, OwedInv
<1>14. SpooledUntilAcked'
  <2>1. ASSUME NEW k \in spWritten' PROVE k \in spAcked \/ \E n \in Chunks' : spPayload'[n] = k
    <3>1. CASE k = m
      BY <1>4, <3>1
    <3>2. CASE k # m
      BY <1>1, <1>2, <1>4, <3>2 DEF SpInv, SpooledUntilAcked
    <3>3. QED BY <3>1, <3>2
  <2>2. QED BY <1>1, <2>1 DEF SpooledUntilAcked
<1>15. OnlyResentOvertaken'
  <2>1. \A n \in Chunks : n \in Nat /\ n < spSeq /\ spPayload'[n] = spPayload[n]
    BY <1>2, <1>3, <1>4
  <2>2. \A n \in Chunks : spPayload[n] < m \/ m \in spAgain
    BY <1>3 DEF SpInv, WriterInv
  <2>3. QED BY <1>1, <1>3, <1>4, <2>1, <2>2 DEF SpInv, OnlyResentOvertaken
<1>16. EndIsDrained'
  BY <1>1 DEF SpInv, EndIsDrained
<1>17. QED BY <1>7, <1>8, <1>9, <1>10, <1>11, <1>12, <1>13, <1>14, <1>15, <1>16 DEF SpInv
\* The steps of receive_batch that leave the files, the claims and the deliveries alone.
LEMMA ReaderKeeps ==
    ASSUME SpInv, SpTypes', EmptyInv', EndIsDrained',
           UNCHANGED <<spBad, spProducers, spProducer, spReopens, spNext, spBack, spSend,
                     spLeft, spAgain, spSeq, spUnwritten, spWriteFailed, spWritten, spMissing,
                     spPayload, spClaimed, spTodo,
                       spAt, spFaultsLeft, spAcked>>,
           spReady' \cup spTaken' \cup spRequeued' \subseteq
                spReady \cup spTaken \cup spRequeued \cup Chunks,
           ~Steady => /\ spRequeued' = {}
                      /\ (spReady' \cup spTaken') \cap spClaimed = {}
                      /\ spReady' \cap spTaken' = {},
           spOwed' \subseteq spWritten
    PROVE  SpInv'
<1>1. /\ Chunks' = Chunks /\ (Steady' <=> Steady) /\ (AtWork' <=> AtWork) /\ Chunks \subseteq Names
      /\ \A b \in SpSlots : /\ Held(b)' = Held(b) /\ Firm(b)' = Firm(b) /\ Live(b)' = Live(b)
                            /\ Live(b) \subseteq Names
  BY DEF Chunks, AtWork, Steady, Held, Firm, Live, First
<1>2. \A n \in Names : Reached(n)' <=> Reached(n)
  BY <1>1 DEF Reached
<1>3. \A n \in Chunks : Reached(n)
  BY DEF SpInv, WriterInv, Reached
<1>4. RegimeInv'
  <2>1. Untouched => Untouched'
    BY <1>1 DEF Untouched
  <2>2. QED BY <1>1, <2>1 DEF SpInv, RegimeInv
<1>5. WriterInv' /\ ClaimedInv' /\ OwedInv' /\ UniqueInv'
  BY <1>1 DEF SpInv, WriterInv, ClaimedInv, OwedInv, UniqueInv
<1>6. HandsInv'
  <2>1. ASSUME NEW n \in spReady' \cup spTaken' \cup spRequeued' PROVE Reached(n)'
    <3>1. n \in Names
      BY DEF SpTypes
    <3>2. n \in Chunks \/ n \in spReady \cup spTaken \cup spRequeued
      OBVIOUS
    <3>3. QED BY <1>2, <1>3, <3>1, <3>2 DEF SpInv, HandsInv
  <2>2. ASSUME NEW b \in SpSlots, NEW n \in Live(b)'
        PROVE  Reached(n)' /\ spPayload'[n] \in {NoFile, spTodo'[b][n]}
    <3>1. n \in Live(b) /\ n \in Names
      BY <1>1, <2>2
    <3>2. QED BY <1>2, <3>1 DEF SpInv, HandsInv
  <2>3. QED BY <2>1, <2>2 DEF HandsInv
<1>7. SpooledUntilAcked' /\ OnlyResentOvertaken'
  BY <1>1 DEF SpInv, SpooledUntilAcked, OnlyResentOvertaken
<1>8. QED BY <1>4, <1>5, <1>6, <1>7 DEF SpInv

LEMMA SampleKeeps ==
    ASSUME SpInv, SpSample PROVE SpInv'
<1>1. /\ UNCHANGED <<spDrain, spBad, spProducers, spProducer, spReopens, spNext, spBack, spSend,
                     spLeft, spAgain, spSeq, spUnwritten, spWriteFailed, spWritten, spMissing,
                     spPayload, spSidecar,
                     spReady, spTaken, spClaimed, spRequeued, spTodo, spAt, spSettled, spFaultsLeft,
                     spAcked>>
      /\ spOwed' = {spPayload[n] : n \in Chunks}
      /\ spAttempts' = 0 /\ spPhase' = "listing"
  BY DEF SpSample, spProducerVars, spSending, spNotes, spFiles, spShared
<1>2. SpTypes' /\ EmptyInv' /\ EndIsDrained'
  BY <1>1 DEF SpInv, SpTypes, EmptyInv, EndIsDrained
<1>4. spOwed' \subseteq spWritten
  BY <1>1 DEF SpInv, WriterInv
<1>5. QED BY <1>1, <1>2, <1>4, ReaderKeeps DEF SpInv, UniqueInv

LEMMA AbsorbKeeps ==
    ASSUME SpInv, SpAbsorb PROVE SpInv'
<1>1. /\ UNCHANGED <<spDrain, spBad, spProducers, spProducer, spReopens, spNext, spBack, spSend,
                     spLeft, spAgain, spSeq, spUnwritten, spWriteFailed, spWritten, spMissing,
                     spPayload, spSidecar,
                     spTaken, spClaimed, spTodo, spAt, spFaultsLeft, spAcked, spAttempts, spOwed>>
      /\ spReady' = spReady \cup spRequeued /\ spRequeued' = {}
      /\ spPhase = "listing" /\ spPhase' = "absorbed"
  BY DEF SpAbsorb, spProducerVars, spSending, spNotes, spFiles
<1>2. SpTypes' /\ EmptyInv' /\ EndIsDrained'
  BY <1>1 DEF SpInv, SpTypes, EmptyInv, EndIsDrained
<1>3. QED BY <1>1, <1>2, ReaderKeeps DEF SpInv, UniqueInv, OwedInv

\* A chunk nobody has claimed is listed; if there is none, whatever was owed is settled or
\* with an open delivery.
LEMMA ListKeeps ==
    ASSUME SpInv, SpList PROVE SpInv'
<1>. DEFINE listing == IF spReady # {} THEN spReady ELSE Chunks \ spClaimed
<1>1. /\ UNCHANGED <<spDrain, spBad, spProducers, spProducer, spReopens, spNext, spBack, spSend,
                     spLeft, spAgain, spSeq, spUnwritten, spWriteFailed, spWritten, spMissing,
                     spPayload, spSidecar,
                     spClaimed, spRequeued, spTodo, spAt, spSettled, spFaultsLeft, spAcked, spAttempts,
                     spOwed, spSampled>>
      /\ spTaken' = Smallest(listing, SpBatch)
      /\ spReady' = listing \ spTaken'
      /\ spPhase' = IF spTaken' = {} THEN "empty" ELSE "reading"
      /\ spPhase = "absorbed"
  BY DEF SpList, spProducerVars, spSending, spNotes, spFiles, spShared
<1>2. /\ listing \subseteq Names /\ listing \subseteq spReady \cup Chunks
      /\ ~Steady => listing \cap spClaimed = {}
      /\ listing = {} => Chunks \subseteq spClaimed
  BY DEF SpInv, SpTypes, UniqueInv, Chunks
<1>3. spTaken' \subseteq listing /\ (spTaken' = {} => listing = {})
  BY <1>1, <1>2, SmallestOf
<1>. HIDE DEF listing
<1>4. SpTypes' /\ EndIsDrained'
  BY <1>1, <1>2, <1>3 DEF SpInv, SpTypes, EndIsDrained
<1>5. EmptyInv'
  <2>1. SUFFICES ASSUME spTaken' = {}, OpenDeliveries = {} PROVE spOwed \subseteq spAcked \cup spBad
    BY <1>1 DEF EmptyInv, OpenDeliveries
  <2>2. Chunks \subseteq spClaimed
    BY <1>2, <1>3, <2>1
  <2>3. \A b \in SpSlots : Firm(b) = {}
    BY <2>1 DEF SpInv, OwedInv, OpenDeliveries, Firm
  <2>4. \A n \in Chunks : spPayload[n] \in spAcked \cup spBad
    BY <2>2, <2>3 DEF SpInv, ClaimedInv
  <2>5. QED BY <2>4 DEF SpInv, OwedInv, SpooledUntilAcked
<1>6. QED BY <1>1, <1>2, <1>3, <1>4, <1>5, ReaderKeeps DEF SpInv, UniqueInv, OwedInv

LEMMA IdleKeeps ==
    ASSUME SpInv, SpRescan \/ SpIdle PROVE SpInv'
<1>1. /\ UNCHANGED <<spDrain, spBad, spProducers, spProducer, spReopens, spNext, spBack, spSend,
                     spLeft, spAgain, spSeq, spUnwritten, spWriteFailed, spWritten, spMissing,
                     spPayload, spSidecar,
                     spReady, spTaken, spClaimed, spRequeued, spTodo, spAt, spSettled, spFaultsLeft,
                     spAcked, spAttempts, spOwed, spSampled>>
      /\ spPhase = "empty" /\ spPhase' \in {"listing", "idle", "end"}
      /\ spPhase' = "end" => spSampled /\ ~spSettled /\ OpenDeliveries = {}
  BY DEF SpRescan, SpIdle, Drained, spProducerVars, spSending, spNotes, spFiles, spShared
<1>2. SpTypes' /\ EmptyInv'
  BY <1>1 DEF SpInv, SpTypes, EmptyInv
<1>3. EndIsDrained'
  BY <1>1 DEF SpInv, EmptyInv, EndIsDrained
<1>4. QED BY <1>1, <1>2, <1>3, ReaderKeeps DEF SpInv, UniqueInv, OwedInv
\* A delivery that a step leaves alone.
LEMMA SlotKept ==
    ASSUME NEW c \in SpSlots, spTodo'[c] = spTodo[c], spAt'[c] = spAt[c],
           spFaultsLeft = 0 => spFaultsLeft' = 0
    PROVE  /\ Held(c)' = Held(c) /\ First(c)' = First(c) /\ Firm(c)' = Firm(c)
           /\ Live(c)' \subseteq Live(c)
           /\ spFaultsLeft' = spFaultsLeft => Live(c)' = Live(c)
<1>1. Held(c)' = {n \in Names : spTodo'[c][n] # NoFile}
  BY DEF Held
<1>2. Held(c)' = Held(c)
  BY <1>1 DEF Held
<1>3. First(c)' = Min(Held(c)')
  BY DEF First
<1>4. First(c)' = First(c)
  BY <1>2, <1>3 DEF First
<1>5. /\ Firm(c)' = {n \in Held(c)' : spAt'[c] # "dropped" /\ ~(spAt'[c] = "nacked" /\ n = First(c)')}
      /\ Live(c)' = {n \in Held(c)' :
            ~(spFaultsLeft' = 0 /\ spAt'[c] \in {"deleted", "swept"} /\ n = First(c)')}
  BY DEF Firm, Live
<1>6. QED BY <1>2, <1>4, <1>5 DEF Firm, Live

\* read_ready: what could be read is delivered and claimed, what keeps failing set aside.
LEMMA ReadKeeps ==
    ASSUME SpInv, SpRead PROVE SpInv'
<1>. USE SpoolBounds
<1>. DEFINE read == {n \in spTaken : Readable(n)}
            aside == {n \in spTaken \ read : spFailed[n] + 1 = SpReadFailures}
            delivered == [n \in Names |-> IF n \in read THEN spPayload[n] ELSE NoFile]
<1>1. /\ UNCHANGED <<spDrain, spBad, spProducers, spProducer, spReopens, spNext, spBack, spSend,
                     spLeft, spAgain, spSeq, spUnwritten, spWriteFailed, spWritten, spMissing,
                     spPayload, spSidecar,
                     spOwed, spRequeued, spFaultsLeft, spAcked>>
      /\ spPhase = "reading" /\ spTaken' = {}
      /\ spClaimed' = spClaimed \cup aside \cup read
      /\ spReady' \subseteq spReady
      /\ \/ /\ spPhase' = "idle" /\ spAttempts' = spAttempts
            /\ \E b \in SpSlots \ OpenDeliveries :
                  /\ spTodo' = [spTodo EXCEPT ![b] = delivered]
                  /\ spAt' = [spAt EXCEPT ![b] = "first"]
            /\ read # {}
         \/ /\ spAttempts' = spAttempts + 1
            /\ spPhase' = IF spAttempts = 1 THEN "idle" ELSE "listing"
            /\ UNCHANGED <<spTodo, spAt>>
            /\ read = {}
  BY DEF SpRead, spProducerVars, spSending, spNotes, spFiles
<1>2. /\ Chunks' = Chunks /\ (Steady' <=> Steady) /\ (AtWork' <=> AtWork)
      /\ Chunks \subseteq Names /\ read \subseteq spTaken /\ aside \subseteq spTaken /\ spTaken \subseteq Names
  BY <1>1 DEF Chunks, AtWork, Steady, SpInv, SpTypes
<1>3. \A n \in Names : Reached(n)' <=> Reached(n)
  BY <1>1, <1>2 DEF Reached
<1>4. \A n \in spTaken : Reached(n)
  BY DEF SpInv, HandsInv
<1>5. \A n \in read : spPayload[n] # NoFile /\ spPayload[n] \in 0..SpMessages
  BY DEF Readable, SpInv, SpTypes
<1>6. delivered \in [Names -> 0..SpMessages]
  BY <1>5 DEF NoFile
<1>7. \A n \in aside : \/ n \in Chunks /\ spPayload[n] \in spBad
                       \/ n \notin Chunks /\ Steady /\ n < spSeq
  BY <1>2, <1>4 DEF Readable, Chunks, Reached
<1>8. /\ spTodo' \in [SpSlots -> [Names -> 0..SpMessages]]
      /\ spAt' \in [SpSlots -> {"free", "first", "deleted", "swept", "nacked", "dropped"}]
      /\ \A b \in SpSlots :
            \/ /\ UNCHANGED <<Held(b), Firm(b), Live(b)>>
               /\ spTodo'[b] = spTodo[b] /\ spAt'[b] = spAt[b]
            \/ /\ Held(b) = {} /\ spAt'[b] = "first"
               /\ Held(b)' = read /\ Firm(b)' = read /\ Live(b)' = read
               /\ \A n \in read : spTodo'[b][n] = spPayload[n]
               /\ \A c \in SpSlots \ {b} : Held(c)' = Held(c)
  <2>. HIDE DEF read, aside
  <2>1. CASE UNCHANGED <<spTodo, spAt>>
    BY <1>1, <2>1 DEF SpInv, SpTypes, Held, Firm, Live, First
  <2>2. ASSUME NEW b \in SpSlots \ OpenDeliveries,
               spTodo' = [spTodo EXCEPT ![b] = delivered],
               spAt' = [spAt EXCEPT ![b] = "first"]
        PROVE  <1>8!:
    <3>1. /\ spTodo' \in [SpSlots -> [Names -> 0..SpMessages]]
          /\ spAt' \in [SpSlots -> {"free", "first", "deleted", "swept", "nacked", "dropped"}]
          /\ spTodo'[b] = delivered /\ spAt'[b] = "first"
          /\ \A c \in SpSlots \ {b} : spTodo'[c] = spTodo[c] /\ spAt'[c] = spAt[c]
      BY <1>6, <2>2 DEF SpInv, SpTypes
    <3>2. Held(b) = {}
      BY <2>2 DEF OpenDeliveries, SpInv, OwedInv
    <3>3. \A n \in Names : delivered[n] = IF n \in read THEN spPayload[n] ELSE NoFile
      OBVIOUS
    <3>. HIDE DEF delivered
    <3>4. Held(b)' = read /\ \A n \in read : spTodo'[b][n] = spPayload[n]
      <4>1. Held(b)' = {n \in Names : spTodo'[b][n] # NoFile}
        BY DEF Held
      <4>2. \A n \in Names : spTodo'[b][n] # NoFile <=> n \in read
        BY <1>5, <3>1, <3>3
      <4>3. QED BY <1>2, <3>1, <3>3, <4>1, <4>2
    <3>5. Firm(b)' = read /\ Live(b)' = read
      BY <3>1, <3>4 DEF Firm, Live
    <3>6. \A c \in SpSlots \ {b} : UNCHANGED <<Held(c), Firm(c), Live(c)>>
      BY <1>1, <3>1, SlotKept
    <3>7. QED BY <3>1, <3>2, <3>4, <3>5, <3>6
  <2>3. QED BY <1>1, <2>1, <2>2
<1>. HIDE DEF read, aside, delivered
<1>9. SpTypes'
  <2>1. spAttempts' \in 0..2 /\ (spAttempts' = 2 => spPhase' = "idle")
    BY <1>1 DEF SpInv, SpTypes
  <2>2. QED BY <1>1, <1>2, <1>8, <2>1 DEF SpInv, SpTypes
<1>10. RegimeInv'
  <2>1. ASSUME Untouched PROVE Untouched'
    <3>1. read = {} /\ aside = {} /\ UNCHANGED <<spTodo, spAt>>
      BY <1>1, <1>2, <2>1 DEF Untouched
    <3>2. \A b \in SpSlots : Held(b)' = Held(b)
      BY <3>1 DEF Held
    <3>3. QED BY <1>1, <1>2, <2>1, <3>1, <3>2 DEF Untouched
  <2>2. QED BY <1>1, <1>2, <2>1 DEF SpInv, RegimeInv
<1>11. WriterInv'
  BY <1>1, <1>2 DEF SpInv, WriterInv
<1>12. HandsInv'
  <2>1. ASSUME NEW n \in spReady' \cup spTaken' \cup spRequeued' PROVE Reached(n)'
    BY <1>1, <1>3 DEF SpInv, SpTypes, HandsInv
  <2>2. ASSUME NEW b \in SpSlots, NEW n \in Live(b)'
        PROVE  Reached(n)' /\ spPayload'[n] \in {NoFile, spTodo'[b][n]}
    <3>1. CASE UNCHANGED <<Held(b), Firm(b), Live(b)>> /\ spTodo'[b] = spTodo[b]
      <4>1. n \in Live(b) /\ n \in Names
        BY <3>1 DEF Live, Held
      <4>2. QED BY <1>1, <1>3, <3>1, <4>1 DEF SpInv, HandsInv
    <3>2. CASE n \in read /\ spTodo'[b][n] = spPayload[n]
      BY <1>1, <1>2, <1>3, <1>4, <3>2
    <3>3. QED BY <1>8, <3>1, <3>2
  <2>3. QED BY <2>1, <2>2 DEF HandsInv
<1>13. ClaimedInv'
  <2>1. ASSUME NEW n \in spClaimed'
        PROVE  \/ \E b \in SpSlots : n \in Firm(b)'
               \/ n \in Chunks /\ spPayload[n] \in spAcked \cup spBad
               \/ n \notin Chunks /\ Steady /\ n < spSeq
    <3>1. CASE n \in spClaimed
      <4>1. \A b \in SpSlots : n \in Firm(b) => n \in Firm(b)'
        BY <1>8 DEF Firm
      <4>2. QED BY <3>1, <4>1 DEF SpInv, ClaimedInv
    <3>2. CASE n \in aside
      BY <1>7, <3>2
    <3>3. CASE n \in read
      <4>1. PICK b \in SpSlots : spTodo' = [spTodo EXCEPT ![b] = delivered] /\ b \notin OpenDeliveries
                                 /\ spAt' = [spAt EXCEPT ![b] = "first"]
        BY <1>1, <3>3
      <4>2. spAt[b] # spAt'[b]
        BY <4>1 DEF OpenDeliveries, SpInv, SpTypes
      <4>3. QED BY <1>8, <3>3, <4>2
    <3>4. QED BY <1>1, <3>1, <3>2, <3>3
  <2>2. QED BY <1>1, <1>2, <2>1 DEF ClaimedInv
<1>14. UniqueInv'
  <2>. SUFFICES ASSUME ~Steady PROVE UniqueInv'
    BY <1>2 DEF UniqueInv
  <2>1. /\ spRequeued = {}
        /\ (spReady \cup spTaken) \cap spClaimed = {}
        /\ spReady \cap spTaken = {}
        /\ \A b \in SpSlots : spAt[b] \notin {"nacked", "dropped"} /\ Held(b) \subseteq spClaimed
        /\ \A b, c \in SpSlots : b # c => Held(b) \cap Held(c) = {}
    BY DEF SpInv, UniqueInv
  <2>2. (spReady' \cup spTaken') \cap spClaimed' = {} /\ spReady' \cap spTaken' = {}
    BY <1>1, <1>2, <2>1
  <2>3. \A b \in SpSlots : spAt'[b] \notin {"nacked", "dropped"} /\ Held(b)' \subseteq spClaimed'
    BY <1>1, <1>8, <2>1
  <2>4. ASSUME NEW b \in SpSlots, NEW c \in SpSlots, b # c PROVE Held(b)' \cap Held(c)' = {}
    <3>1. \A d \in SpSlots : Held(d) \cap read = {}
      BY <1>2, <2>1
    <3>2. CASE Held(b)' = read /\ Held(c)' = Held(c)
      BY <3>1, <3>2
    <3>3. CASE Held(c)' = read /\ Held(b)' = Held(b)
      BY <3>1, <3>3
    <3>4. CASE Held(c)' = Held(c) /\ Held(b)' = Held(b)
      BY <2>1, <2>4, <3>4
    <3>5. QED BY <1>8, <2>4, <3>2, <3>3, <3>4
  <2>5. QED BY <1>1, <2>1, <2>2, <2>3, <2>4 DEF UniqueInv
<1>15. EmptyInv' /\ EndIsDrained'
  BY <1>1 DEF EmptyInv, EndIsDrained
<1>16. OwedInv'
  BY <1>1, <1>8 DEF SpInv, OwedInv
<1>17. SpooledUntilAcked' /\ OnlyResentOvertaken'
  BY <1>1, <1>2 DEF SpInv, SpooledUntilAcked, OnlyResentOvertaken
<1>18. QED BY <1>9, <1>10, <1>11, <1>12, <1>13, <1>14, <1>15, <1>16, <1>17 DEF SpInv
\* The steps of a delivery that leave the payloads alone.
LEMMA CommitKeeps ==
    ASSUME SpInv, NEW b \in SpSlots, spAt[b] # "free",
           UNCHANGED <<spDrain, spBad, spProducers, spProducer, spReopens, spNext, spBack, spSend,
                     spLeft, spAgain, spSeq, spUnwritten, spWriteFailed, spWritten, spMissing,
                     spPayload,
                       spPhase, spSampled, spAttempts, spReady, spTaken, spOwed>>,
           spSidecar' \in [Names -> 0..SpMessages],
           spTodo' \in [SpSlots -> [Names -> 0..SpMessages]],
           spAt' \in [SpSlots -> {"free", "first", "deleted", "swept", "nacked", "dropped"}],
           spFaultsLeft' \in 0..spFaultsLeft,
           \A c \in SpSlots \ {b} : spTodo'[c] = spTodo[c] /\ spAt'[c] = spAt[c],
           Held(b)' \subseteq Held(b), Live(b)' \subseteq Live(b),
           \A n \in Live(b)' : spTodo'[b][n] = spTodo[b][n],
           spAcked \subseteq spAcked',
           spClaimed' \subseteq spClaimed,
           \A n \in spClaimed' \cap Firm(b) :
                \/ n \in Firm(b)'
                \/ n \in Chunks /\ spPayload[n] \in spAcked'
                \/ n \notin Chunks /\ Steady /\ n < spSeq,
           spRequeued' \subseteq spRequeued \cup Live(b),
           ~Steady => /\ spRequeued' = {} /\ spAt'[b] \notin {"nacked", "dropped"}
                      /\ Held(b)' \subseteq spClaimed' /\ spClaimed \ Held(b) \subseteq spClaimed',
           spAt'[b] = "free" => Held(b)' = {} /\ spSettled',
           spSettled => spSettled'
    PROVE  SpInv'
<1>1. /\ Chunks' = Chunks /\ (Steady' <=> Steady) /\ Chunks \subseteq Names /\ Names \subseteq Nat
      /\ \A c \in SpSlots : Live(c) \subseteq Names /\ Held(c) \subseteq Names
  BY NamesAreNumbers DEF Chunks, Steady, Held, Live
<1>2. \A c \in SpSlots \ {b} : /\ Held(c)' = Held(c) /\ Firm(c)' = Firm(c)
                               /\ Live(c)' \subseteq Live(c) /\ spTodo'[c] = spTodo[c]
  <2>1. spFaultsLeft = 0 => spFaultsLeft' = 0
    BY DEF SpInv, SpTypes
  <2>2. QED BY <2>1, SlotKept
<1>3. \A n \in Names : Reached(n)' <=> Reached(n)
  BY <1>1 DEF Reached
<1>4. SpTypes'
  BY <1>1, SpoolBounds DEF SpInv, SpTypes
<1>5. RegimeInv'
  <2>1. ~Untouched
    BY DEF Untouched
  <2>2. spFaultsLeft = 0 => spFaultsLeft' = 0
    BY DEF SpInv, SpTypes
  <2>3. QED BY <1>1, <2>1, <2>2 DEF SpInv, RegimeInv
<1>6. WriterInv'
  <2>1. AtWork' <=> AtWork
    BY DEF AtWork
  <2>2. QED BY <1>1, <2>1 DEF SpInv, WriterInv
<1>7. HandsInv'
  <2>1. \A n \in Live(b) : Reached(n) /\ n \in Names /\ spPayload[n] \in {NoFile, spTodo[b][n]}
    BY <1>1 DEF SpInv, HandsInv
  <2>2. ASSUME NEW n \in spReady' \cup spTaken' \cup spRequeued' PROVE Reached(n)'
    BY <1>3, <2>1 DEF SpInv, SpTypes, HandsInv
  <2>3. ASSUME NEW c \in SpSlots, NEW n \in Live(c)'
        PROVE  Reached(n)' /\ spPayload'[n] \in {NoFile, spTodo'[c][n]}
    <3>1. CASE c = b
      BY <1>3, <2>1, <2>3, <3>1
    <3>2. CASE c # b
      <4>1. n \in Live(c) /\ n \in Names /\ spTodo'[c] = spTodo[c]
        BY <1>1, <1>2, <2>3, <3>2
      <4>2. QED BY <1>3, <4>1 DEF SpInv, HandsInv
    <3>3. QED BY <3>1, <3>2
  <2>4. QED BY <2>2, <2>3 DEF HandsInv
<1>8. ClaimedInv'
  <2>1. ASSUME NEW n \in spClaimed'
        PROVE  \/ \E c \in SpSlots : n \in Firm(c)'
               \/ n \in Chunks /\ spPayload[n] \in spAcked' \cup spBad
               \/ n \notin Chunks /\ Steady /\ n < spSeq
    <3>1. CASE n \in Firm(b)
      BY <3>1
    <3>2. ASSUME NEW c \in SpSlots, n \in Firm(c), c # b PROVE n \in Firm(c)'
      BY <1>2, <3>2
    <3>3. CASE ~\E c \in SpSlots : n \in Firm(c)
      BY <3>3 DEF SpInv, ClaimedInv
    <3>4. QED BY <3>1, <3>2, <3>3
  <2>2. QED BY <1>1, <2>1 DEF ClaimedInv
<1>9. UniqueInv'
  <2>. SUFFICES ASSUME ~Steady PROVE UniqueInv'
    BY <1>1 DEF UniqueInv
  <2>1. /\ (spReady \cup spTaken) \cap spClaimed = {}
        /\ spReady \cap spTaken = {}
        /\ \A c \in SpSlots : spAt[c] \notin {"nacked", "dropped"} /\ Held(c) \subseteq spClaimed
        /\ \A c, d \in SpSlots : c # d => Held(c) \cap Held(d) = {}
    BY DEF SpInv, UniqueInv
  <2>2. ASSUME NEW c \in SpSlots
        PROVE  /\ spAt'[c] \notin {"nacked", "dropped"} /\ Held(c)' \subseteq spClaimed'
               /\ Held(c)' \subseteq Held(c)
    <3>1. CASE c = b
      BY <3>1
    <3>2. CASE c # b
      <4>1. Held(c)' = Held(c) /\ Held(c) \cap Held(b) = {} /\ Held(c) \subseteq spClaimed
        BY <1>2, <2>1, <3>2
      <4>2. QED BY <2>1, <3>2, <4>1
    <3>3. QED BY <3>1, <3>2
  <2>3. \A c, d \in SpSlots : c # d => Held(c)' \cap Held(d)' = {}
    BY <2>1, <2>2
  <2>4. (spReady' \cup spTaken') \cap spClaimed' = {} /\ spReady' \cap spTaken' = {}
    BY <2>1
  <2>5. QED BY <2>2, <2>3, <2>4 DEF UniqueInv
<1>10. EmptyInv'
  BY DEF SpInv, EmptyInv, OpenDeliveries
<1>11. OwedInv'
  BY <1>2 DEF SpInv, OwedInv
<1>12. SpooledUntilAcked' /\ OnlyResentOvertaken' /\ EndIsDrained'
  BY <1>1 DEF SpInv, SpooledUntilAcked, OnlyResentOvertaken, EndIsDrained
<1>13. QED BY <1>4, <1>5, <1>6, <1>7, <1>8, <1>9, <1>10, <1>11, <1>12 DEF SpInv
\* What a delivery looks like when its first chunk is done with, or goes on to another state.
PopLeaves(b) ==
    /\ spTodo' \in [SpSlots -> [Names -> 0..SpMessages]]
    /\ spAt' \in [SpSlots -> {"free", "first", "deleted", "swept", "nacked", "dropped"}]
    /\ spAt'[b] = "first" /\ spAt[b] # "free"
    /\ \A c \in SpSlots \ {b} : spTodo'[c] = spTodo[c] /\ spAt'[c] = spAt[c]
    /\ First(b) \in Held(b) /\ First(b) \in Names
    /\ Held(b)' = Held(b) \ {First(b)}
    /\ Firm(b)' = Held(b)' /\ Live(b)' = Held(b)'
    /\ \A n \in Held(b)' : spTodo'[b][n] = spTodo[b][n]
    /\ Live(b)' \subseteq Live(b)

MoveLeaves(b, where) ==
    /\ spTodo' = spTodo /\ spTodo \in [SpSlots -> [Names -> 0..SpMessages]]
    /\ spAt' \in [SpSlots -> {"free", "first", "deleted", "swept", "nacked", "dropped"}]
    /\ spAt'[b] = where /\ spAt[b] # "free"
    /\ \A c \in SpSlots \ {b} : spAt'[c] = spAt[c]
    /\ First(b) \in Held(b) /\ First(b) \in Names
    /\ Held(b)' = Held(b) /\ First(b)' = First(b)

\* The first chunk of a delivery is done with.
LEMMA PoppedOff ==
    ASSUME SpInv, NEW b \in SpSlots, Held(b) # {}, Popped(b)
    PROVE  PopLeaves(b)
<1>1. First(b) \in Held(b) /\ First(b) \in Names
  BY FirstIsHeld
<1>2. NoFile \in 0..SpMessages
  BY SpoolBounds DEF NoFile
<1>. DEFINE rest == [spTodo[b] EXCEPT ![First(b)] = NoFile]
<1>3. /\ spTodo \in [SpSlots -> [Names -> 0..SpMessages]] /\ spTodo[b] \in [Names -> 0..SpMessages]
      /\ spTodo' = [spTodo EXCEPT ![b] = rest]
      /\ spAt' = [spAt EXCEPT ![b] = "first"]
  BY DEF Popped, SpInv, SpTypes
<1>4. /\ rest \in [Names -> 0..SpMessages] /\ rest[First(b)] = NoFile
      /\ \A n \in Names : n # First(b) => rest[n] = spTodo[b][n]
  BY <1>1, <1>2, <1>3
<1>. HIDE DEF rest
<1>5. /\ spTodo' \in [SpSlots -> [Names -> 0..SpMessages]] /\ spTodo'[b] = rest
      /\ \A c \in SpSlots \ {b} : spTodo'[c] = spTodo[c]
  BY <1>3, <1>4
<1>6. /\ spAt' \in [SpSlots -> {"free", "first", "deleted", "swept", "nacked", "dropped"}]
      /\ spAt'[b] = "first" /\ spAt[b] # "free"
      /\ \A c \in SpSlots \ {b} : spAt'[c] = spAt[c]
  BY <1>3 DEF SpInv, SpTypes, OwedInv
<1>7. Held(b)' = {n \in Names : rest[n] # NoFile}
  BY <1>5 DEF Held
<1>8. Held(b)' = Held(b) \ {First(b)}
  BY <1>1, <1>4, <1>7 DEF Held
<1>9. Firm(b)' = Held(b)' /\ Live(b)' = Held(b)'
  BY <1>6 DEF Firm, Live
<1>10. \A n \in Held(b)' : spTodo'[b][n] = spTodo[b][n]
  BY <1>4, <1>5, <1>8 DEF Held
<1>11. Held(b)' \subseteq Live(b)
  BY <1>8 DEF Live
<1>12. QED BY <1>1, <1>5, <1>6, <1>8, <1>9, <1>10, <1>11 DEF PopLeaves

\* The first chunk of a delivery goes on to another state.
LEMMA MovedOn ==
    ASSUME SpInv, NEW b \in SpSlots, Held(b) # {},
           NEW where \in {"deleted", "swept", "nacked", "dropped"}, To(b, where)
    PROVE  MoveLeaves(b, where)
<1>1. /\ spTodo' = spTodo /\ spTodo \in [SpSlots -> [Names -> 0..SpMessages]]
      /\ spAt' \in [SpSlots -> {"free", "first", "deleted", "swept", "nacked", "dropped"}]
      /\ spAt'[b] = where /\ spAt[b] # "free"
      /\ \A c \in SpSlots \ {b} : spAt'[c] = spAt[c]
  BY DEF To, SpInv, SpTypes, OwedInv
<1>2. Held(b)' = Held(b)
  BY <1>1 DEF Held
<1>3. First(b)' = First(b)
  BY <1>2 DEF First
<1>4. QED BY <1>1, <1>2, <1>3, FirstIsHeld DEF MoveLeaves

\* A fault means that no producer starts its numbers anew.
LEMMA FaultIsSteady ==
    ASSUME SpInv, NEW b \in SpSlots, Held(b) # {}, spFaultsLeft > 0 PROVE Steady
<1>1. spFaultsLeft # 0 /\ ~Untouched
  BY SpoolBounds DEF SpInv, SpTypes, Untouched
<1>2. QED BY <1>1 DEF SpInv, RegimeInv
\* An acknowledged chunk that stays on disk keeps its claim.
LEMMA AckStaysKeeps ==
    ASSUME SpInv, NEW b \in SpSlots, SpAckStuck(b) \/ (SpAck(b) /\ ~spDrain) PROVE SpInv'
<1>1. /\ UNCHANGED <<spDrain, spBad, spProducers, spProducer, spReopens, spNext, spBack, spSend,
                     spLeft, spAgain, spSeq, spUnwritten, spWriteFailed, spWritten, spMissing,
                     spPayload, spSidecar,
                     spPhase, spSampled, spAttempts, spReady, spTaken, spOwed, spClaimed, spRequeued,
                     spSettled>>
      /\ spAt[b] = "first" /\ Held(b) # {}
      /\ spAcked' = spAcked \cup {spTodo[b][First(b)]}
      /\ Popped(b)
      /\ \/ spFaultsLeft' = spFaultsLeft
         \/ spFaultsLeft > 0 /\ spFaultsLeft' = spFaultsLeft - 1
  BY DEF SpAckStuck, SpAck, At, Handled, spProducerVars, spSending, spNotes, spFiles, spReader
<1>2. PopLeaves(b)
  BY <1>1, PoppedOff
<1>3. spFaultsLeft' \in 0..spFaultsLeft /\ spSidecar' \in [Names -> 0..SpMessages]
  BY <1>1, SpoolBounds DEF SpInv, SpTypes
<1>4. First(b) \in Live(b) /\ First(b) \in Names
  BY <1>1, <1>2 DEF PopLeaves, Live
<1>5. \/ First(b) \in Chunks /\ spPayload[First(b)] \in spAcked'
      \/ First(b) \notin Chunks /\ Steady /\ First(b) < spSeq
  <2>1. Reached(First(b)) /\ spPayload[First(b)] \in {NoFile, spTodo[b][First(b)]}
    BY <1>4 DEF SpInv, HandsInv
  <2>2. QED BY <1>1, <1>4, <2>1 DEF Reached, Chunks
<1>6. \A n \in Firm(b) : n \in Firm(b)' \/ n = First(b)
  BY <1>2 DEF PopLeaves, Firm
<1>7. ~Steady => spRequeued' = {} /\ Held(b)' \subseteq spClaimed'
  BY <1>1, <1>2 DEF PopLeaves, SpInv, UniqueInv
<1>8. QED BY <1>1, <1>2, <1>3, <1>5, <1>6, <1>7, CommitKeeps DEF PopLeaves

\* The sidecar of a deleted chunk goes.
LEMMA SweepKeeps ==
    ASSUME SpInv, NEW b \in SpSlots, SpSweep(b) PROVE SpInv'
<1>1. /\ UNCHANGED <<spDrain, spBad, spProducers, spProducer, spReopens, spNext, spBack, spSend,
                     spLeft, spAgain, spSeq, spUnwritten, spWriteFailed, spWritten, spMissing,
                     spPayload, spPhase,
                     spSampled, spAttempts, spReady, spTaken, spOwed, spClaimed, spRequeued,
                     spSettled, spFaultsLeft, spAcked>>
      /\ spAt[b] = "deleted" /\ Held(b) # {}
      /\ spSidecar' = [spSidecar EXCEPT ![First(b)] = NoFile]
      /\ To(b, "swept")
  BY DEF SpSweep, At, spProducerVars, spSending, spNotes, spReader
<1>2. MoveLeaves(b, "swept")
  BY <1>1, MovedOn
<1>3. spFaultsLeft' \in 0..spFaultsLeft
  BY <1>1, SpoolBounds DEF SpInv, SpTypes
<1>4. spSidecar' \in [Names -> 0..SpMessages]
  <2>1. NoFile \in 0..SpMessages /\ spSidecar \in [Names -> 0..SpMessages]
    BY SpoolBounds DEF SpInv, SpTypes, NoFile
  <2>2. QED BY <1>1, <2>1
<1>5. Firm(b)' = Firm(b) /\ Live(b)' = Live(b)
  BY <1>1, <1>2 DEF MoveLeaves, Firm, Live
<1>6. \A c \in SpSlots \ {b} : spTodo'[c] = spTodo[c] /\ spAt'[c] = spAt[c]
  BY <1>2 DEF MoveLeaves
<1>7. ~Steady => spRequeued' = {} /\ Held(b)' \subseteq spClaimed'
  BY <1>1, <1>2 DEF MoveLeaves, SpInv, UniqueInv
<1>8. /\ spAt[b] # "free" /\ spAt'[b] = "swept" /\ Held(b)' = Held(b)
      /\ spTodo' = spTodo /\ spTodo' \in [SpSlots -> [Names -> 0..SpMessages]]
      /\ spAt' \in [SpSlots -> {"free", "first", "deleted", "swept", "nacked", "dropped"}]
  BY <1>2 DEF MoveLeaves
<1>9. QED BY <1>1, <1>3, <1>4, <1>5, <1>6, <1>7, <1>8, CommitKeeps

\* The claim of a chunk that was removed goes.
LEMMA UnclaimKeeps ==
    ASSUME SpInv, NEW b \in SpSlots, SpUnclaim(b) PROVE SpInv'
<1>1. /\ UNCHANGED <<spDrain, spBad, spProducers, spProducer, spReopens, spNext, spBack, spSend,
                     spLeft, spAgain, spSeq, spUnwritten, spWriteFailed, spWritten, spMissing,
                     spPayload, spSidecar,
                     spPhase, spSampled, spAttempts, spReady, spTaken, spOwed, spRequeued,
                     spSettled, spFaultsLeft, spAcked>>
      /\ spAt[b] = "swept" /\ Held(b) # {}
      /\ spClaimed' = spClaimed \ {First(b)}
      /\ Popped(b)
  BY DEF SpUnclaim, At, spProducerVars, spSending, spNotes, spFiles, spReader
<1>2. PopLeaves(b)
  BY <1>1, PoppedOff
<1>3. spFaultsLeft' \in 0..spFaultsLeft /\ spSidecar' \in [Names -> 0..SpMessages]
  BY <1>1, SpoolBounds DEF SpInv, SpTypes
<1>4. \A n \in spClaimed' \cap Firm(b) : n \in Firm(b)'
  BY <1>1, <1>2 DEF PopLeaves, Firm
<1>5. ~Steady => /\ spRequeued' = {} /\ Held(b)' \subseteq spClaimed'
                 /\ spClaimed \ Held(b) \subseteq spClaimed'
  BY <1>1, <1>2 DEF PopLeaves, SpInv, UniqueInv
<1>6. QED BY <1>1, <1>2, <1>3, <1>4, <1>5, CommitKeeps DEF PopLeaves

\* A nack puts a chunk back: released first, into the listing second.
LEMMA NackKeeps ==
    ASSUME SpInv, NEW b \in SpSlots, SpNack(b) PROVE SpInv'
<1>1. /\ UNCHANGED <<spDrain, spBad, spProducers, spProducer, spReopens, spNext, spBack, spSend,
                     spLeft, spAgain, spSeq, spUnwritten, spWriteFailed, spWritten, spMissing,
                     spPayload, spSidecar,
                     spPhase, spSampled, spAttempts, spReady, spTaken, spOwed, spRequeued,
                     spSettled, spAcked>>
      /\ spAt[b] = "first" /\ Held(b) # {}
      /\ spFaultsLeft > 0 /\ spFaultsLeft' = spFaultsLeft - 1
      /\ spClaimed' = spClaimed \ {First(b)}
      /\ To(b, "nacked")
  BY DEF SpNack, At, spProducerVars, spSending, spNotes, spFiles, spReader
<1>2. MoveLeaves(b, "nacked")
  BY <1>1, MovedOn
<1>3. spFaultsLeft' \in 0..spFaultsLeft /\ spSidecar' \in [Names -> 0..SpMessages]
  BY <1>1, SpoolBounds DEF SpInv, SpTypes
<1>4. Steady
  BY <1>1, FaultIsSteady
<1>5. Live(b)' = Live(b) /\ \A n \in spClaimed' \cap Firm(b) : n \in Firm(b)'
  BY <1>1, <1>2 DEF MoveLeaves, Firm, Live
<1>6. \A c \in SpSlots \ {b} : spTodo'[c] = spTodo[c] /\ spAt'[c] = spAt[c]
  BY <1>2 DEF MoveLeaves
<1>7. /\ spAt[b] # "free" /\ spAt'[b] = "nacked" /\ Held(b)' = Held(b)
      /\ spTodo' = spTodo /\ spTodo' \in [SpSlots -> [Names -> 0..SpMessages]]
      /\ spAt' \in [SpSlots -> {"free", "first", "deleted", "swept", "nacked", "dropped"}]
  BY <1>2 DEF MoveLeaves
<1>8. QED BY <1>1, <1>3, <1>4, <1>5, <1>6, <1>7, CommitKeeps

LEMMA RequeueKeeps ==
    ASSUME SpInv, NEW b \in SpSlots, SpRequeue(b) PROVE SpInv'
<1>1. /\ UNCHANGED <<spDrain, spBad, spProducers, spProducer, spReopens, spNext, spBack, spSend,
                     spLeft, spAgain, spSeq, spUnwritten, spWriteFailed, spWritten, spMissing,
                     spPayload, spSidecar,
                     spPhase, spSampled, spAttempts, spReady, spTaken, spOwed, spClaimed,
                     spSettled, spFaultsLeft, spAcked>>
      /\ spAt[b] = "nacked" /\ Held(b) # {}
      /\ spRequeued' = spRequeued \cup {First(b)}
      /\ Popped(b)
  BY DEF SpRequeue, At, spProducerVars, spSending, spNotes, spFiles, spReader
<1>2. PopLeaves(b)
  BY <1>1, PoppedOff
<1>3. spFaultsLeft' \in 0..spFaultsLeft /\ spSidecar' \in [Names -> 0..SpMessages]
  BY <1>1, SpoolBounds DEF SpInv, SpTypes
<1>4. Steady
  BY <1>1 DEF SpInv, UniqueInv
<1>5. First(b) \in Live(b) /\ \A n \in spClaimed' \cap Firm(b) : n \in Firm(b)'
  BY <1>1, <1>2 DEF PopLeaves, Firm, Live
<1>6. QED BY <1>1, <1>2, <1>3, <1>4, <1>5, CommitKeeps DEF PopLeaves

\* A commit that is dropped puts all it holds back: released first, into the listing second.
LEMMA DropKeeps ==
    ASSUME SpInv, NEW b \in SpSlots, SpDrop(b) PROVE SpInv'
<1>1. /\ UNCHANGED <<spDrain, spBad, spProducers, spProducer, spReopens, spNext, spBack, spSend,
                     spLeft, spAgain, spSeq, spUnwritten, spWriteFailed, spWritten, spMissing,
                     spPayload, spSidecar,
                     spPhase, spSampled, spAttempts, spReady, spTaken, spOwed, spRequeued,
                     spSettled, spAcked>>
      /\ Held(b) # {}
      /\ spFaultsLeft > 0 /\ spFaultsLeft' = spFaultsLeft - 1
      /\ spClaimed' = spClaimed \ Held(b)
      /\ To(b, "dropped")
  BY DEF SpDrop, At, spProducerVars, spSending, spNotes, spFiles, spReader
<1>2. MoveLeaves(b, "dropped")
  BY <1>1, MovedOn
<1>3. spFaultsLeft' \in 0..spFaultsLeft /\ spSidecar' \in [Names -> 0..SpMessages]
  BY <1>1, SpoolBounds DEF SpInv, SpTypes
<1>4. Steady
  BY <1>1, FaultIsSteady
<1>5. Live(b)' = Held(b) /\ Live(b) = Held(b) /\ spClaimed' \cap Firm(b) = {}
  BY <1>1, <1>2 DEF MoveLeaves, Firm, Live
<1>6. \A c \in SpSlots \ {b} : spTodo'[c] = spTodo[c] /\ spAt'[c] = spAt[c]
  BY <1>2 DEF MoveLeaves
<1>7. /\ spAt[b] # "free" /\ spAt'[b] = "dropped" /\ Held(b)' = Held(b)
      /\ spTodo' = spTodo /\ spTodo' \in [SpSlots -> [Names -> 0..SpMessages]]
      /\ spAt' \in [SpSlots -> {"free", "first", "deleted", "swept", "nacked", "dropped"}]
  BY <1>2 DEF MoveLeaves
<1>8. QED BY <1>1, <1>3, <1>4, <1>5, <1>6, <1>7, CommitKeeps

LEMMA SettleKeeps ==
    ASSUME SpInv, NEW b \in SpSlots, SpSettle(b) PROVE SpInv'
<1>1. /\ UNCHANGED <<spDrain, spBad, spProducers, spProducer, spReopens, spNext, spBack, spSend,
                     spLeft, spAgain, spSeq, spUnwritten, spWriteFailed, spWritten, spMissing,
                     spPayload, spSidecar,
                     spPhase, spSampled, spAttempts, spReady, spTaken, spOwed, spClaimed,
                     spFaultsLeft, spAcked>>
      /\ spAt[b] # "free" /\ (Held(b) = {} \/ spAt[b] = "dropped")
      /\ spRequeued' = spRequeued \cup Held(b)
      /\ spTodo' = [spTodo EXCEPT ![b] = NoChunks] /\ spAt' = [spAt EXCEPT ![b] = "free"]
      /\ spSettled'
  BY DEF SpSettle, spProducerVars, spSending, spNotes, spFiles, spReader
<1>2. NoChunks \in [Names -> 0..SpMessages] /\ \A n \in Names : NoChunks[n] = NoFile
  BY SpoolBounds DEF NoChunks, NoFile
<1>3. /\ spTodo' \in [SpSlots -> [Names -> 0..SpMessages]] /\ spTodo'[b] = NoChunks
      /\ \A c \in SpSlots \ {b} : spTodo'[c] = spTodo[c]
  BY <1>1, <1>2 DEF SpInv, SpTypes
<1>4. /\ spAt' \in [SpSlots -> {"free", "first", "deleted", "swept", "nacked", "dropped"}]
      /\ spAt'[b] = "free"
      /\ \A c \in SpSlots \ {b} : spAt'[c] = spAt[c]
  BY <1>1 DEF SpInv, SpTypes
<1>5. Held(b)' = {}
  BY <1>2, <1>3 DEF Held
<1>6. Live(b)' = {} /\ Firm(b) = {} /\ Held(b) \subseteq Live(b)
  BY <1>1, <1>5 DEF Live, Firm
<1>7. spFaultsLeft' \in 0..spFaultsLeft /\ spSidecar' \in [Names -> 0..SpMessages]
  BY <1>1, SpoolBounds DEF SpInv, SpTypes
<1>8. ~Steady => spRequeued' = {} /\ spClaimed \ Held(b) \subseteq spClaimed'
  BY <1>1 DEF SpInv, UniqueInv
<1>9. QED BY <1>1, <1>3, <1>4, <1>5, <1>6, <1>7, <1>8, CommitKeeps
\* An acknowledged chunk is deleted: it held the message that was delivered.
LEMMA AckDeletesKeeps ==
    ASSUME SpInv, NEW b \in SpSlots, SpAck(b), spDrain PROVE SpInv'
<1>. DEFINE f == First(b)
<1>1. /\ UNCHANGED <<spDrain, spBad, spProducers, spProducer, spReopens, spNext, spBack, spSend,
                     spLeft, spAgain, spSeq, spUnwritten, spWriteFailed, spWritten, spMissing, spSidecar,
                     spPhase, spSampled, spAttempts, spReady, spTaken, spOwed, spClaimed, spRequeued,
                     spSettled, spFaultsLeft>>
      /\ spAt[b] = "first" /\ Held(b) # {}
      /\ spAcked' = spAcked \cup {spTodo[b][f]}
      /\ spPayload' = [spPayload EXCEPT ![f] = NoFile]
      /\ To(b, "deleted")
  BY DEF SpAck, At, Handled, spProducerVars, spSending, spNotes, spReader
<1>2. MoveLeaves(b, "deleted")
  BY <1>1, MovedOn
<1>3. f \in Names /\ f \in Held(b) /\ f \in Live(b)
  BY <1>1, <1>2 DEF MoveLeaves, Live
<1>. HIDE DEF f
<1>4. /\ spPayload' \in [Names -> 0..SpMessages] /\ spPayload'[f] = NoFile
      /\ \A n \in Names : n # f => spPayload'[n] = spPayload[n]
  <2>1. NoFile \in 0..SpMessages /\ spPayload \in [Names -> 0..SpMessages]
    BY SpoolBounds DEF SpInv, SpTypes, NoFile
  <2>2. QED BY <1>1, <1>3, <2>1
<1>5. Chunks' = Chunks \ {f} /\ Chunks \subseteq Names /\ (Steady' <=> Steady) /\ (AtWork' <=> AtWork)
  <2>1. Chunks' = {n \in Names : spPayload'[n] # NoFile}
    BY DEF Chunks
  <2>2. QED BY <1>1, <1>4, <2>1 DEF Chunks, Steady, AtWork
<1>6. /\ spTodo' = spTodo /\ spAt'[b] = "deleted"
      /\ \A c \in SpSlots \ {b} : spAt'[c] = spAt[c]
      /\ \A c \in SpSlots : Held(c)' = Held(c) /\ First(c)' = First(c)
  <2>1. /\ spTodo' = spTodo /\ spAt'[b] = "deleted"
        /\ \A c \in SpSlots \ {b} : spAt'[c] = spAt[c]
    BY <1>2 DEF MoveLeaves
  <2>2. \A c \in SpSlots : Held(c)' = Held(c)
    BY <2>1 DEF Held
  <2>3. \A c \in SpSlots : First(c)' = First(c)
    BY <2>2 DEF First
  <2>4. QED BY <2>1, <2>2, <2>3
<1>7. \A c \in SpSlots : Firm(c)' = Firm(c) /\ Live(c)' \subseteq Live(c)
  BY <1>1, <1>6 DEF Firm, Live
<1>8. OpenDeliveries' = OpenDeliveries
  BY <1>1, <1>6 DEF OpenDeliveries
<1>9. ~Steady => spFaultsLeft = 0 /\ spProducers # 1
  BY <1>1 DEF SpInv, RegimeInv, Untouched
<1>10. SpTypes'
  BY <1>1, <1>2, <1>4 DEF MoveLeaves, SpInv, SpTypes
<1>11. RegimeInv'
  BY <1>1, <1>5, <1>9 DEF RegimeInv
<1>12. WriterInv'
  BY <1>1, <1>4, <1>5 DEF SpInv, WriterInv
<1>13. HandsInv'
  <2>1. \A n \in Names : (n # f \/ Steady) => (Reached(n)' <=> Reached(n))
    BY <1>1, <1>5 DEF Reached
  <2>2. ASSUME NEW n \in spReady \cup spTaken \cup spRequeued PROVE Reached(n)'
    <3>1. Reached(n) /\ n \in Names
      BY DEF SpInv, SpTypes, HandsInv
    <3>2. ~Steady => n # f
      BY <1>3 DEF SpInv, UniqueInv
    <3>3. QED BY <2>1, <3>1, <3>2
  <2>3. ASSUME NEW c \in SpSlots, NEW n \in Live(c)'
        PROVE  Reached(n)' /\ spPayload'[n] \in {NoFile, spTodo'[c][n]}
    <3>1. n \in Live(c) /\ n \in Names /\ n \in Held(c)
      BY <1>7, <2>3 DEF Live, Held
    <3>2. Reached(n) /\ spPayload[n] \in {NoFile, spTodo[c][n]}
      BY <3>1 DEF SpInv, HandsInv
    <3>3. ASSUME ~Steady PROVE n # f
      <4>1. CASE c = b
        BY <1>1, <1>6, <1>9, <2>3, <3>3, <4>1 DEF Live, f
      <4>2. CASE c # b
        BY <1>3, <3>1, <3>3, <4>2 DEF SpInv, UniqueInv
      <4>3. QED BY <4>1, <4>2
    <3>4. Reached(n)'
      BY <2>1, <3>1, <3>2, <3>3
    <3>5. QED BY <1>4, <1>6, <3>1, <3>2, <3>4
  <2>4. QED BY <1>1, <2>2, <2>3 DEF HandsInv
<1>14. ClaimedInv'
  <2>1. f \in Firm(b)
    BY <1>1, <1>3 DEF Firm
  <2>2. QED BY <1>1, <1>4, <1>5, <1>7, <2>1 DEF SpInv, ClaimedInv
<1>15. UniqueInv' /\ OwedInv' /\ EmptyInv' /\ EndIsDrained'
  BY <1>1, <1>5, <1>6, <1>8 DEF SpInv, UniqueInv, OwedInv, EmptyInv, EndIsDrained
<1>16. SpooledUntilAcked'
  <2>1. ASSUME NEW m \in spWritten PROVE m \in spAcked' \/ \E n \in Chunks' : spPayload'[n] = m
    <3>1. CASE m \in spAcked
      BY <1>1, <3>1
    <3>2. ASSUME NEW n \in Chunks, spPayload[n] = m PROVE <2>1!2
      <4>1. CASE n = f
        <5>1. spPayload[f] \in {NoFile, spTodo[b][f]} /\ spPayload[f] # NoFile
          BY <1>3, <4>1 DEF SpInv, HandsInv, Chunks
        <5>2. QED BY <1>1, <3>2, <4>1, <5>1
      <4>2. CASE n # f
        BY <1>4, <1>5, <3>2, <4>2
      <4>3. QED BY <4>1, <4>2
    <3>3. QED BY <3>1, <3>2 DEF SpInv, SpooledUntilAcked
  <2>2. QED BY <1>1, <2>1 DEF SpooledUntilAcked
<1>17. OnlyResentOvertaken'
  BY <1>1, <1>4, <1>5 DEF SpInv, OnlyResentOvertaken
<1>18. QED BY <1>10, <1>11, <1>12, <1>13, <1>14, <1>15, <1>16, <1>17 DEF SpInv

-----------------------------------------------------------------------------
(* The sentinel and the sidecars of the directory spool *)

\* A message this producer failed to write is tracked, or the sentinel is held back for good.
NotesInv == (spWriteFailed \/ spMissing \subseteq Tracked) /\ DoneIsWhole

LEMMA NotesKept ==
    ASSUME SpInv, NotesInv, [SpNextStep]_spVars PROVE NotesInv'
<1>. USE SpoolBounds
<1>1. CASE UNCHANGED <<spUnwritten, spWriteFailed, spMissing>> /\ (spProducer' = "closing" => spProducer = "closing")
  BY <1>1 DEF NotesInv, Tracked, DoneIsWhole
<1>2. CASE SpOpenProducer
  BY <1>2 DEF SpOpenProducer, NotesInv, DoneIsWhole
<1>3. CASE SpWritePayload
  <2>1. /\ spUnwritten' = [spUnwritten EXCEPT ![Min(spLeft)] = IF @ = 0 THEN 0 ELSE @ - 1]
        /\ spMissing' = spMissing \ {Min(spLeft)} /\ spWriteFailed' = spWriteFailed
        /\ spProducer' = "sending"
    BY <1>3 DEF SpWritePayload
  <2>2. spUnwritten \in [Messages -> Nat] /\ spMissing \subseteq Messages
    BY DEF SpInv, SpTypes
  <2>3. \A k \in spMissing' : spUnwritten'[k] = spUnwritten[k]
    BY <2>1, <2>2
  <2>4. QED BY <2>1, <2>2, <2>3 DEF NotesInv, Tracked, DoneIsWhole
<1>4. CASE SpWriteFails
  <2>1. /\ NoteUnwritten(Min(spLeft)) /\ spProducer' = "sending"
        /\ spMissing' = spMissing \cup {Min(spLeft)} /\ spLeft # {}
    BY <1>4 DEF SpWriteFails
  <2>2. spUnwritten \in [Messages -> Nat] /\ spMissing \subseteq Messages /\ spLeft \subseteq Messages
    BY DEF SpInv, SpTypes
  <2>3. Min(spLeft) \in Messages
    BY <2>1, <2>2, MinOfNats, NamesAreNumbers
  <2>4. CASE spWriteFailed'
    BY <2>1, <2>4 DEF NotesInv, DoneIsWhole
  <2>5. CASE spUnwritten' = [spUnwritten EXCEPT ![Min(spLeft)] = @ + 1] /\ spWriteFailed' = spWriteFailed
    <3>1. \A k \in Messages : spUnwritten[k] > 0 \/ k = Min(spLeft) => spUnwritten'[k] > 0
      BY <2>2, <2>3, <2>5
    <3>2. spMissing \subseteq Tracked => spMissing' \subseteq Tracked'
      BY <2>1, <2>2, <2>3, <3>1 DEF Tracked
    <3>3. QED BY <2>1, <2>5, <3>2 DEF NotesInv, DoneIsWhole
  <2>6. QED BY <2>1, <2>4, <2>5 DEF NoteUnwritten
<1>5. CASE SpSyncFails
  BY <1>5 DEF SpSyncFails, NotesInv, DoneIsWhole
<1>6. CASE SpWriteDone
  <2>1. /\ Tracked = {} /\ ~spWriteFailed
        /\ UNCHANGED <<spUnwritten, spWriteFailed, spMissing>>
    BY <1>6 DEF SpWriteDone, spNotes
  <2>2. QED BY <2>1 DEF NotesInv, Tracked, DoneIsWhole
<1>7. CASE SpClearDone \/ SpSeed \/ SpSendBatch \/ SpWriteSidecar \/ SpSent \/ SpRelease \/ SpStop
  BY <1>1, <1>7 DEF SpClearDone, SpSeed, SpSendBatch, SpWriteSidecar, SpSent, SpRelease, SpStop, spNotes
<1>8. CASE UNCHANGED spProducerVars
  BY <1>1, <1>8 DEF spProducerVars, spNotes
<1>9. CASE SpNextReader \/ UNCHANGED spVars \/ \E b \in SpSlots : SpNextCommit(b)
  BY <1>8, <1>9 DEF SpNextReader, SpSample, SpAbsorb, SpList, SpRescan, SpIdle, SpRead, spVars,
       SpNextCommit, SpAck, SpAckStuck, SpSweep, SpUnclaim, SpNack, SpRequeue, SpDrop, SpSettle
<1>10. QED BY <1>2, <1>3, <1>4, <1>5, <1>6, <1>7, <1>9 DEF SpNextStep, SpNextProducer

\* With one producer the name of a deleted chunk is never used again, so what is swept is
\* the sidecar of that chunk.
SidecarInv ==
    spProducers = 1 =>
        /\ MetadataIsThere
        /\ spProducer = "sidecar" => spSidecar[spSeq] = Min(spLeft)
        /\ \A b \in SpSlots : At(b, "deleted") => First(b) \notin Chunks /\ First(b) < spSeq

LEMMA SidecarFrame ==
    ASSUME SpInv, SidecarInv, spProducers = 1, spProducers' = 1,
           Chunks' \subseteq Chunks,
           \A n \in Chunks' : spSidecar'[n] = spSidecar[n] /\ spPayload'[n] = spPayload[n],
           spProducer' = "sidecar" => /\ spProducer = "sidecar" /\ spLeft' = spLeft /\ spSeq' = spSeq
                                      /\ spSidecar'[spSeq] = spSidecar[spSeq],
           spSeq' \in Nat, spSeq <= spSeq',
           \A c \in SpSlots : \/ spAt'[c] # "deleted"
                              \/ spTodo'[c] = spTodo[c] /\ spAt'[c] = spAt[c]
                              \/ /\ spTodo'[c] = spTodo[c]
                                 /\ First(c) \notin Chunks' /\ First(c) < spSeq'
    PROVE  SidecarInv'
<1>1. MetadataIsThere'
  BY DEF SidecarInv, MetadataIsThere
<1>2. spProducer' = "sidecar" => spSidecar'[spSeq'] = Min(spLeft')
  BY DEF SidecarInv
<1>3. ASSUME NEW c \in SpSlots, At(c, "deleted")' PROVE (First(c) \notin Chunks /\ First(c) < spSeq)'
  <2>1. spAt'[c] = "deleted" /\ Held(c)' # {}
    BY <1>3 DEF At
  <2>2. spTodo'[c] = spTodo[c]
    BY <2>1
  <2>3. Held(c)' = Held(c)
    BY <2>2 DEF Held
  <2>4. First(c)' = First(c) /\ First(c) \in Nat /\ spSeq \in Nat
    <3>1. First(c)' = Min(Held(c)')
      BY DEF First
    <3>2. First(c)' = First(c)
      BY <2>3, <3>1 DEF First
    <3>3. First(c) \in Names
      BY <2>1, <2>3, FirstIsHeld
    <3>4. First(c) \in Nat
      BY <3>3, NamesAreNumbers
    <3>5. spSeq \in Nat
      BY DEF SpInv, SpTypes
    <3>6. QED BY <3>2, <3>4, <3>5
  <2>5. CASE spAt'[c] = spAt[c]
    <3>1. At(c, "deleted")
      BY <2>1, <2>3, <2>5 DEF At
    <3>2. First(c) \notin Chunks /\ First(c) < spSeq
      BY <3>1 DEF SidecarInv
    <3>3. QED BY <2>4, <3>2
  <2>6. CASE First(c) \notin Chunks' /\ First(c) < spSeq'
    BY <2>4, <2>6
  <2>7. QED BY <2>1, <2>5, <2>6
<1>4. QED BY <1>1, <1>2, <1>3 DEF SidecarInv

LEMMA ProducersKept ==
    ASSUME [SpNextStep]_spVars PROVE spProducers' = spProducers
<1>1. CASE SpNextProducer
  BY <1>1 DEF SpNextProducer, SpOpenProducer, SpClearDone, SpSeed, SpSendBatch, SpWriteSidecar,
       SpWritePayload, SpWriteFails, SpSent, SpSyncFails, SpWriteDone, SpRelease, SpStop
<1>2. CASE SpNextReader
  BY <1>2 DEF SpNextReader, SpSample, SpAbsorb, SpList, SpRescan, SpIdle, SpRead
<1>3. ASSUME NEW b \in SpSlots, SpNextCommit(b) PROVE spProducers' = spProducers
  BY <1>3 DEF SpNextCommit, SpAck, SpAckStuck, SpSweep, SpUnclaim, SpNack, SpRequeue, SpDrop, SpSettle
<1>4. CASE UNCHANGED spVars
  BY <1>4 DEF spVars
<1>5. QED BY <1>1, <1>2, <1>3, <1>4 DEF SpNextStep

\* With one producer, the steps that write.
LEMMA WritersSidecar ==
    ASSUME SpInv, SidecarInv, spProducers = 1, spProducers' = 1, SpNextProducer PROVE SidecarInv'
<1>. USE SpoolBounds
<1>1. spSeq \in Nat /\ spSidecar \in [Names -> 0..SpMessages] /\ Chunks \subseteq Names /\ Names \subseteq Nat
  BY NamesAreNumbers DEF SpInv, SpTypes, Chunks
<1>2. CASE SpOpenProducer \/ SpClearDone \/ SpSendBatch \/ SpWriteFails \/ SpSent \/ SpSyncFails
           \/ SpWriteDone \/ SpRelease \/ SpStop
  <2>1. /\ UNCHANGED <<spPayload, spSidecar, spTodo, spAt>> /\ spProducer' # "sidecar"
        /\ spSeq' \in {spSeq, spSeq + 1}
    BY <1>2 DEF SpOpenProducer, SpClearDone, SpSendBatch, SpWriteFails, SpSent, SpSyncFails, SpWriteDone,
         SpRelease, SpStop, spFiles, spShared
  <2>2. Chunks' = Chunks
    BY <2>1 DEF Chunks
  <2>3. spSeq' \in Nat /\ spSeq <= spSeq'
    BY <1>1, <2>1
  <2>4. QED BY <2>1, <2>2, <2>3, SidecarFrame
<1>3. CASE SpSeed
  <2>1. /\ UNCHANGED <<spPayload, spSidecar, spTodo, spAt>> /\ spProducer' = "open" /\ spProducer = "cleared"
    BY <1>3 DEF SpSeed, spFiles, spShared
  <2>2. Untouched
    BY <2>1 DEF SpInv, RegimeInv, Steady
  <2>3. Chunks' = {} /\ \A b \in SpSlots : spAt'[b] # "deleted"
    BY <2>1, <2>2 DEF Untouched, Chunks
  <2>4. QED BY <2>1, <2>3 DEF SidecarInv, MetadataIsThere, At
<1>4. ASSUME SpWriteSidecar PROVE SidecarInv'
  <2>1. /\ UNCHANGED <<spPayload, spTodo, spAt, spSeq, spLeft>> /\ spProducer = "sending"
        /\ spSidecar' = [spSidecar EXCEPT ![spSeq] = Min(spLeft)] /\ spSeq < SpNames
    BY <1>4 DEF SpWriteSidecar, spShared, spSending
  <2>2. Chunks' = Chunks
    BY <2>1 DEF Chunks
  <2>3. spSeq \in Names /\ spSeq \notin Chunks
    <3>1. \A n \in Chunks : n < spSeq
      BY <2>1 DEF SpInv, WriterInv, AtWork
    <3>2. QED BY <1>1, <2>1, <3>1, NamesAreNumbers
  <2>4. spSidecar'[spSeq] = Min(spLeft) /\ \A n \in Chunks : spSidecar'[n] = spSidecar[n]
    BY <1>1, <2>1, <2>3
  <2>5. MetadataIsThere'
    BY <2>1, <2>2, <2>4 DEF SidecarInv, MetadataIsThere
  <2>6. ASSUME NEW c \in SpSlots, At(c, "deleted")' PROVE (First(c) \notin Chunks /\ First(c) < spSeq)'
    <3>1. Held(c)' = Held(c)
      BY <2>1 DEF Held
    <3>2. First(c)' = First(c) /\ At(c, "deleted")
      BY <2>1, <2>6, <3>1 DEF First, At
    <3>3. QED BY <2>1, <2>2, <3>2 DEF SidecarInv
  <2>7. QED BY <2>1, <2>4, <2>5, <2>6 DEF SidecarInv
<1>5. ASSUME SpWritePayload PROVE SidecarInv'
  <2>1. /\ UNCHANGED <<spSidecar, spTodo, spAt>> /\ spProducer = "sidecar" /\ spProducer' = "sending"
        /\ spPayload' = [spPayload EXCEPT ![spSeq] = Min(spLeft)] /\ spSeq' = spSeq + 1
    BY <1>5 DEF SpWritePayload, spShared
  <2>2. spPayload \in [Names -> 0..SpMessages] /\ spSeq \in Names
    BY <1>1, <2>1, NamesAreNumbers DEF SpInv, SpTypes, WriterInv
  <2>3. spPayload'[spSeq] = Min(spLeft) /\ \A n \in Names : n # spSeq => spPayload'[n] = spPayload[n]
    BY <2>1, <2>2
  <2>4. \A n \in Names : n \in Chunks' => n = spSeq \/ n \in Chunks
    BY <2>3 DEF Chunks
  <2>5. MetadataIsThere'
    <3>1. Chunks' \subseteq Names
      BY DEF Chunks
    <3>2. ASSUME NEW n \in Chunks' PROVE spSidecar'[n] = spPayload'[n]
      <4>1. CASE n = spSeq
        BY <2>1, <2>3, <4>1 DEF SidecarInv
      <4>2. CASE n # spSeq
        BY <2>1, <2>3, <2>4, <3>1, <4>2 DEF SidecarInv, MetadataIsThere
      <4>3. QED BY <4>1, <4>2
    <3>3. QED BY <3>2 DEF MetadataIsThere
  <2>6. ASSUME NEW c \in SpSlots, At(c, "deleted")' PROVE (First(c) \notin Chunks /\ First(c) < spSeq)'
    <3>1. Held(c)' = Held(c)
      BY <2>1 DEF Held
    <3>2. First(c)' = First(c) /\ At(c, "deleted")
      BY <2>1, <2>6, <3>1 DEF First, At
    <3>3. First(c) \notin Chunks /\ First(c) < spSeq /\ First(c) \in Names
      BY <3>2, FirstIsHeld DEF SidecarInv, At
    <3>4. First(c) < spSeq' /\ First(c) # spSeq
      <4>1. First(c) \in Nat /\ spSeq \in Nat /\ spSeq' = spSeq + 1
        BY <1>1, <2>1, <3>3
      <4>2. QED BY <3>3, <4>1
    <3>5. First(c) \notin Chunks'
      BY <2>4, <3>3, <3>4
    <3>6. QED BY <3>2, <3>4, <3>5
  <2>7. QED BY <2>1, <2>5, <2>6 DEF SidecarInv
<1>6. QED BY <1>2, <1>3, <1>4, <1>5 DEF SpNextProducer

\* With one producer, the steps of the consumer and its commits.
LEMMA ConsumersSidecar ==
    ASSUME SpInv, SidecarInv, spProducers = 1, spProducers' = 1,
           SpNextReader \/ (\E b \in SpSlots : SpNextCommit(b)) \/ UNCHANGED spVars
    PROVE  SidecarInv'
<1>1. /\ UNCHANGED <<spProducer, spLeft, spSeq>> /\ spSeq \in Nat /\ spSeq <= spSeq
      /\ spAt \in [SpSlots -> {"free", "first", "deleted", "swept", "nacked", "dropped"}]
      /\ spSidecar \in [Names -> 0..SpMessages] /\ spPayload \in [Names -> 0..SpMessages]
      /\ spTodo \in [SpSlots -> [Names -> 0..SpMessages]]
  <2>1. UNCHANGED spProducerVars
    BY DEF SpNextReader, SpSample, SpAbsorb, SpList, SpRescan, SpIdle, SpRead, spVars,
         SpNextCommit, SpAck, SpAckStuck, SpSweep, SpUnclaim, SpNack, SpRequeue, SpDrop, SpSettle
  <2>2. QED BY <2>1 DEF spProducerVars, spSending, SpInv, SpTypes
<1>2. CASE UNCHANGED <<spPayload, spSidecar, spTodo, spAt>>
  <2>1. Chunks' = Chunks
    BY <1>2 DEF Chunks
  <2>2. QED BY <1>1, <1>2, <2>1, SidecarFrame
<1>3. ASSUME UNCHANGED <<spPayload, spSidecar>>, NEW b \in SpSlots, spAt'[b] # "deleted",
             \A c \in SpSlots \ {b} : spTodo'[c] = spTodo[c] /\ spAt'[c] = spAt[c]
      PROVE  SidecarInv'
  <2>1. Chunks' = Chunks
    BY <1>3 DEF Chunks
  <2>2. QED BY <1>1, <1>3, <2>1, SidecarFrame
<1>4. CASE SpNextReader \/ UNCHANGED spVars
  <2>1. CASE SpRead
    <3>1. UNCHANGED <<spPayload, spSidecar>>
      BY <2>1 DEF SpRead, spFiles
    <3>2. ASSUME NEW b \in SpSlots, spAt' = [spAt EXCEPT ![b] = "first"],
                 NEW d, spTodo' = [spTodo EXCEPT ![b] = d]
          PROVE  SidecarInv'
      <4>1. spAt'[b] # "deleted" /\ \A c \in SpSlots \ {b} : spTodo'[c] = spTodo[c] /\ spAt'[c] = spAt[c]
        BY <1>1, <3>2
      <4>2. QED BY <1>3, <3>1, <4>1
    <3>3. QED BY <1>2, <2>1, <3>1, <3>2 DEF SpRead
  <2>2. CASE SpSample \/ SpAbsorb \/ SpList \/ SpRescan \/ SpIdle \/ UNCHANGED spVars
    BY <1>2, <2>2 DEF SpSample, SpAbsorb, SpList, SpRescan, SpIdle, spVars, spFiles, spShared
  <2>3. QED BY <1>4, <2>1, <2>2 DEF SpNextReader
<1>5. ASSUME NEW b \in SpSlots, SpNextCommit(b) PROVE SidecarInv'
  <2>1. CASE SpUnclaim(b) \/ SpRequeue(b) \/ SpAckStuck(b) \/ (SpAck(b) /\ ~spDrain)
    <3>1. /\ UNCHANGED <<spPayload, spSidecar>> /\ Popped(b)
      BY <2>1 DEF SpUnclaim, SpRequeue, SpAckStuck, SpAck, spFiles
    <3>2. spAt'[b] # "deleted" /\ \A c \in SpSlots \ {b} : spTodo'[c] = spTodo[c] /\ spAt'[c] = spAt[c]
      BY <1>1, <3>1 DEF Popped
    <3>3. QED BY <1>3, <3>1, <3>2
  <2>2. CASE SpNack(b) \/ SpDrop(b)
    <3>1. /\ UNCHANGED <<spPayload, spSidecar>> /\ (To(b, "nacked") \/ To(b, "dropped"))
      BY <2>2 DEF SpNack, SpDrop, spFiles
    <3>2. spAt'[b] # "deleted" /\ \A c \in SpSlots \ {b} : spTodo'[c] = spTodo[c] /\ spAt'[c] = spAt[c]
      BY <1>1, <3>1 DEF To
    <3>3. QED BY <1>3, <3>1, <3>2
  <2>3. CASE SpSettle(b)
    <3>1. /\ UNCHANGED <<spPayload, spSidecar>>
          /\ spTodo' = [spTodo EXCEPT ![b] = NoChunks] /\ spAt' = [spAt EXCEPT ![b] = "free"]
      BY <2>3 DEF SpSettle, spFiles
    <3>2. spAt'[b] # "deleted" /\ \A c \in SpSlots \ {b} : spTodo'[c] = spTodo[c] /\ spAt'[c] = spAt[c]
      BY <1>1, <3>1
    <3>3. QED BY <1>3, <3>1, <3>2
  <2>4. CASE SpSweep(b)
    <3>1. /\ UNCHANGED <<spPayload, spTodo>> /\ At(b, "deleted")
          /\ spSidecar' = [spSidecar EXCEPT ![First(b)] = NoFile]
          /\ spAt' = [spAt EXCEPT ![b] = "swept"]
      BY <2>4 DEF SpSweep, To
    <3>2. First(b) \notin Chunks /\ First(b) < spSeq /\ Chunks' = Chunks /\ First(b) \in Names
      BY <3>1, FirstIsHeld DEF SidecarInv, At, Chunks
    <3>3. /\ spAt'[b] # "deleted" /\ \A c \in SpSlots \ {b} : spAt'[c] = spAt[c]
          /\ \A n \in Names : n # First(b) => spSidecar'[n] = spSidecar[n]
      BY <1>1, <3>1
    <3>4. spProducer = "sidecar" => spSeq \in Names /\ First(b) # spSeq
      BY <1>1, <3>2, NamesAreNumbers DEF SpInv, WriterInv
    <3>5. Chunks \subseteq Names
      BY DEF Chunks
    <3>6. QED BY <1>1, <3>1, <3>2, <3>3, <3>4, <3>5, SidecarFrame
  <2>5. CASE SpAck(b) /\ spDrain
    <3>1. /\ UNCHANGED <<spSidecar, spTodo>> /\ At(b, "first")
          /\ spPayload' = [spPayload EXCEPT ![First(b)] = NoFile]
          /\ spAt' = [spAt EXCEPT ![b] = "deleted"]
      BY <2>5 DEF SpAck, To
    <3>2. First(b) \in Names /\ First(b) \in Held(b)
      BY <3>1, FirstIsHeld DEF At
    <3>3. /\ \A c \in SpSlots \ {b} : spAt'[c] = spAt[c]
          /\ spPayload'[First(b)] = NoFile /\ \A n \in Names : n # First(b) => spPayload'[n] = spPayload[n]
      BY <1>1, <3>1, <3>2
    <3>4. First(b) \notin Chunks' /\ Chunks' \subseteq Chunks /\ Chunks \subseteq Names
          /\ \A n \in Chunks' : spPayload'[n] = spPayload[n]
      BY <3>3 DEF Chunks
    <3>5. Steady
      BY <3>2 DEF SpInv, RegimeInv, Untouched
    <3>6. First(b) < spSeq
      <4>1. First(b) \in Live(b)
        BY <3>1, <3>2 DEF Live, At
      <4>2. QED BY <3>5, <4>1 DEF SpInv, HandsInv, Reached
    <3>7. QED BY <1>1, <3>1, <3>3, <3>4, <3>6, SidecarFrame
  <2>6. QED BY <1>5, <2>1, <2>2, <2>3, <2>4, <2>5 DEF SpNextCommit, SpAck
<1>6. QED BY <1>4, <1>5

\* The dir_spool endpoint, with producers that take over from each other or with writes,
\* syncs, deletes and deliveries that fail, for any number of messages, batch size and open
\* deliveries: a chunk stays on disk until its message is acknowledged, only a message sent
\* again is out of the order of production, the sentinel is written only when every failed
\* write was made good, a payload of the only producer has its sidecar, the end is reported
\* only when everything has been settled, and no claim outlives what it stands for.  (With
\* both at once the first does not hold: the run spool_redelivery.)
THEOREM SpoolKeepsChunks ==
    SpSpec /\ (spFaultsLeft = 0 \/ spProducers = 1) => []DirSpoolInv
<1>. DEFINE Inv == SpInv /\ NotesInv /\ SidecarInv
<1>1. ASSUME SpInv, [SpNextStep]_spVars PROVE SpInv'
  <2>1. ASSUME SpNextProducer PROVE SpInv'
    BY <1>1, <2>1, ProducerMoves, SeedKeeps, WritePayloadKeeps DEF SpNextProducer
  <2>2. ASSUME SpNextReader PROVE SpInv'
    BY <1>1, <2>2, SampleKeeps, AbsorbKeeps, ListKeeps, IdleKeeps, ReadKeeps DEF SpNextReader
  <2>3. ASSUME NEW b \in SpSlots, SpNextCommit(b) PROVE SpInv'
    <3>1. CASE SpAck(b) \/ SpAckStuck(b)
      BY <1>1, <3>1, AckDeletesKeeps, AckStaysKeeps
    <3>2. QED
      BY <1>1, <2>3, <3>1, SweepKeeps, UnclaimKeeps, NackKeeps, RequeueKeeps, DropKeeps, SettleKeeps
        DEF SpNextCommit
  <2>4. CASE UNCHANGED spVars
    <3>1. /\ UNCHANGED <<spDrain, spBad, spProducers, spProducer, spReopens, spNext, spBack, spSend,
                         spLeft, spAgain, spSeq, spUnwritten, spWriteFailed, spWritten, spMissing,
                         spPayload, spSidecar,
                         spPhase, spSampled, spAttempts, spReady, spTaken, spOwed, spClaimed, spRequeued,
                         spTodo, spAt, spSettled, spFaultsLeft, spAcked>>
      BY <2>4 DEF spVars, spProducerVars, spSending, spNotes, spFiles, spReader, spShared
    <3>2. SpTypes' /\ EmptyInv' /\ EndIsDrained'
      BY <1>1, <3>1 DEF SpInv, SpTypes, EmptyInv, EndIsDrained, OpenDeliveries
    <3>3. QED BY <1>1, <3>1, <3>2, ReaderKeeps DEF SpInv, UniqueInv, OwedInv
  <2>5. QED BY <1>1, <2>1, <2>2, <2>3, <2>4 DEF SpNextStep
<1>2. ASSUME SpInv, SidecarInv, [SpNextStep]_spVars PROVE SidecarInv'
  <2>1. CASE spProducers # 1
    BY <1>2, <2>1, ProducersKept DEF SidecarInv
  <2>2. CASE spProducers = 1
    BY <1>2, <2>2, ProducersKept, WritersSidecar, ConsumersSidecar DEF SpNextStep
  <2>3. QED BY <2>1, <2>2
<1>3. Inv /\ [SpNextStep]_spVars => Inv'
  BY <1>1, <1>2, NotesKept
<1>4. SpInit /\ (spFaultsLeft = 0 \/ spProducers = 1) => Inv
  <2>1. SpInit => NotesInv
    BY DEF SpInit, NotesInv, DoneIsWhole
  <2>2. SpInit => SidecarInv
    BY DEF SpInit, SidecarInv, MetadataIsThere, NoChunks, Chunks, At
  <2>3. QED BY <2>1, <2>2, SpoolStarts
<1>5. Inv => DirSpoolInv
  <2>. SUFFICES ASSUME Inv PROVE DirSpoolInv
    OBVIOUS
  <2>1. SpTypeOK
    BY DEF SpInv, SpTypes, SpTypeOK
  <2>2. NoClaimLeaks
    BY DEF SpInv, ClaimedInv, NoClaimLeaks, Firm
  <2>3. QED BY <2>1, <2>2 DEF SpInv, NotesInv, SidecarInv, OneProducersMetadata, DirSpoolInv
<1>6. QED BY <1>3, <1>4, <1>5, PTL DEF SpSpec
=============================================================================
