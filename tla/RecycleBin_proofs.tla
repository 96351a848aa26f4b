------------------------- MODULE RecycleBin_proofs --------------------------
(* Proofs about the recycle bin, for any paths, calls and operations, with    *)
(* any number of calls in flight on one path.                                 *)
EXTENDS RecycleBin, TLAPS

RestoreOps == {"restore", "restore_over"}
WriteOps == {"write", "patch"}
RestoreSteps == {"place", "placeDrop", "finish", "forget"}
InPlaceSteps == {"open", "fill"}
SweepSteps == {"purge", "purgeDel"}

(* Which operation a call at a given step can be, and what it then knows.     *)
ShapeOK ==
    \A c \in Calls :
        /\ pc[c] \in SweepSteps => op[c] \in PurgeOps
        /\ pc[c] \in Steps \ SweepSteps => op[c] \in FileOps /\ path[c] \in Paths
        /\ pc[c] \in Steps \ (SweepSteps \cup {"audit"}) => op[c] # "mkdir"
        /\ pc[c] \in InPlaceSteps => op[c] \in WriteOps \cup RestoreOps
        /\ pc[c] \in RestoreSteps => op[c] \in RestoreOps
        /\ op[c] \in RestoreOps \/ pc[c] = "purgeDel" => item[c] \in Calls
        /\ op[c] \in WriteOps => buf[c] \in Nodes
        /\ pc[c] = "fill" => buf[c] \in Nodes

(* Nothing that leads to a write names a protected path: not a row, not an    *)
(* open file, not the target of a call that is past trash_put's check.        *)
Guarded ==
    \A c \in Calls :
        /\ rows[c] \notin Protected
        /\ fd[c] \notin Protected
        /\ pc[c] \in Steps \ (SweepSteps \cup {"put"}) => path[c] \notin Protected

IInv == TypeOK /\ ShapeOK /\ Guarded

(* What no step may do.                                                       *)
ProtectedKept == \A p \in Protected : disk'[p] = disk[p]

-----------------------------------------------------------------------------
(* The invariant holds at the start.                                          *)
LEMMA InitInv == Init => IInv
<1> SUFFICES ASSUME Init PROVE IInv
  OBVIOUS
<1> USE BinAssumption DEF Init
<1>1. disk \in [Locs -> Nodes \cup {Absent}]
  BY DEF Nodes, Locs
<1>2. TypeOK
  BY <1>1 DEF TypeOK, Locs
<1>3. ShapeOK
  BY DEF ShapeOK, Steps, SweepSteps, InPlaceSteps, RestoreSteps, RestoreOps, WriteOps,
         FileOps, PurgeOps
<1>4. Guarded
  BY DEF Guarded, Steps, Locs
<1>5. QED
  BY <1>2, <1>3, <1>4 DEF IInv

-----------------------------------------------------------------------------
(* What an interrupted removal leaves is a node again, or nothing.            *)
LEMMA RemainsTypes ==
    ASSUME NEW n \in Nodes \cup {Absent}
    PROVE  Remains(n) \subseteq Nodes \cup {Absent}
BY DEF Remains, Nodes

LEMMA PartType == \A n \in Nodes, w \in BOOLEAN : [n EXCEPT !.whole = w] \in Nodes
BY DEF Nodes

(* rmtree of a bin directory touches no path, and closes files at most.       *)
LEMMA RmTreeTypes ==
    ASSUME TypeOK, NEW i \in Calls, RmTree(i)
    PROVE  /\ disk' \in [Locs -> Nodes \cup {Absent}]
           /\ dirs' \subseteq Calls
           /\ fd' \in [Calls -> Locs \cup {None}]
           /\ \A l \in Paths : disk'[l] = disk[l]
           /\ \A c \in Calls : fd'[c] \in {fd[c], None}
<1> USE BinAssumption DEF TypeOK, RmTree, Locs, Orphaned
<1>1. CASE disk' = [disk EXCEPT ![i] = Absent] /\ dirs' = dirs \ {i} /\ fd' = Orphaned(i)
  BY <1>1
<1>2. ASSUME NEW n \in Remains(disk[i]), disk' = [disk EXCEPT ![i] = n],
             fd' = IF n = Absent THEN Orphaned(i) ELSE fd, dirs' = dirs
      PROVE  /\ disk' \in [Locs -> Nodes \cup {Absent}]
             /\ dirs' \subseteq Calls
             /\ fd' \in [Calls -> Locs \cup {None}]
             /\ \A l \in Paths : disk'[l] = disk[l]
             /\ \A c \in Calls : fd'[c] \in {fd[c], None}
  <2>1. n \in Nodes \cup {Absent}
    BY <1>2, RemainsTypes DEF Locs
  <2>2. QED
    BY <1>2, <2>1
<1>3. QED
  BY <1>1, <1>2

-----------------------------------------------------------------------------
(* Every arrival keeps the invariant and what is protected.                   *)
LEMMA ArriveKeeps ==
    ASSUME IInv, NEW c \in Calls, Arrive(c)
    PROVE  IInv' /\ ProtectedKept
<1> USE BinAssumption DEF IInv, Locs, Goto, files, db, args, sweep, Raised, Stowed
<1>1. ASSUME NEW p \in Paths, Write(c, p)
      PROVE  IInv' /\ ProtectedKept
  <2>1. TypeOK'
    BY <1>1 DEF Begin, Write, TypeOK, ShapeOK, Nodes, Steps, SweepSteps,
       RestoreSteps, Ended
  <2>2. ShapeOK'
    BY <1>1 DEF Begin, Write, TypeOK, ShapeOK, Nodes, Steps, SweepSteps,
       InPlaceSteps, RestoreSteps, RestoreOps, WriteOps, FileOps, PurgeOps
  <2>3. Guarded' /\ ProtectedKept
    BY <1>1 DEF Begin, Write, TypeOK, ShapeOK, Guarded, ProtectedKept,
       Steps, SweepSteps, RestoreSteps
  <2>4. QED
    BY <2>1, <2>2, <2>3
<1>2. ASSUME NEW p \in Paths, Patch(c, p)
      PROVE  IInv' /\ ProtectedKept
  <2>1. TypeOK'
    BY <1>2 DEF Begin, Patch, TypeOK, ShapeOK, Nodes, Steps, SweepSteps,
       RestoreSteps, Ended
  <2>2. ShapeOK'
    BY <1>2 DEF Begin, Patch, TypeOK, ShapeOK, Nodes, Steps, SweepSteps,
       InPlaceSteps, RestoreSteps, RestoreOps, WriteOps, FileOps, PurgeOps
  <2>3. Guarded' /\ ProtectedKept
    BY <1>2 DEF Begin, Patch, TypeOK, ShapeOK, Guarded, ProtectedKept,
       Steps, SweepSteps, RestoreSteps
  <2>4. QED
    BY <2>1, <2>2, <2>3
<1>3. ASSUME NEW p \in Paths, Delete(c, p)
      PROVE  IInv' /\ ProtectedKept
  <2>1. TypeOK'
    BY <1>3 DEF Begin, Delete, TypeOK, ShapeOK, Nodes, Steps, SweepSteps,
       RestoreSteps, Ended
  <2>2. ShapeOK'
    BY <1>3 DEF Begin, Delete, TypeOK, ShapeOK, Nodes, Steps, SweepSteps,
       InPlaceSteps, RestoreSteps, RestoreOps, WriteOps, FileOps, PurgeOps
  <2>3. Guarded' /\ ProtectedKept
    BY <1>3 DEF Begin, Delete, TypeOK, ShapeOK, Guarded, ProtectedKept,
       Steps, SweepSteps, RestoreSteps
  <2>4. QED
    BY <2>1, <2>2, <2>3
<1>4. ASSUME NEW p \in Paths, NEW r \in BOOLEAN, NEW f \in BOOLEAN, Rm(c, p, r, f)
      PROVE  IInv' /\ ProtectedKept
  <2>1. TypeOK'
    BY <1>4 DEF Begin, Rm, TypeOK, ShapeOK, Nodes, Steps, SweepSteps,
       RestoreSteps, Ended
  <2>2. ShapeOK'
    BY <1>4 DEF Begin, Rm, TypeOK, ShapeOK, Nodes, Steps, SweepSteps,
       InPlaceSteps, RestoreSteps, RestoreOps, WriteOps, FileOps, PurgeOps
  <2>3. Guarded' /\ ProtectedKept
    BY <1>4 DEF Begin, Rm, TypeOK, ShapeOK, Guarded, ProtectedKept, Steps,
       SweepSteps, RestoreSteps
  <2>4. QED
    BY <2>1, <2>2, <2>3
<1>5. ASSUME NEW p \in Paths, Mkdir(c, p)
      PROVE  IInv' /\ ProtectedKept
  <2>1. TypeOK'
    BY <1>5 DEF Begin, Mkdir, TypeOK, ShapeOK, Nodes, Steps, SweepSteps,
       RestoreSteps, Ended
  <2>2. ShapeOK'
    BY <1>5 DEF Begin, Mkdir, TypeOK, ShapeOK, Nodes, Steps, SweepSteps,
       InPlaceSteps, RestoreSteps, RestoreOps, WriteOps, FileOps, PurgeOps
  <2>3. Guarded' /\ ProtectedKept
    BY <1>5 DEF Begin, Mkdir, TypeOK, ShapeOK, Guarded, ProtectedKept,
       Steps, SweepSteps, RestoreSteps
  <2>4. QED
    BY <2>1, <2>2, <2>3
<1>6. ASSUME NEW i \in Calls, NEW over \in BOOLEAN, Restore(c, i, over)
      PROVE  IInv' /\ ProtectedKept
  <2>1. TypeOK'
    BY <1>6 DEF Begin, Restore, TypeOK, ShapeOK, Nodes, Steps, SweepSteps,
       RestoreSteps, Ended
  <2>2. ShapeOK'
    BY <1>6 DEF Begin, Restore, TypeOK, ShapeOK, Nodes, Steps, SweepSteps,
       InPlaceSteps, RestoreSteps, RestoreOps, WriteOps, FileOps, PurgeOps
  <2>3. Guarded' /\ ProtectedKept
    BY <1>6 DEF Begin, Restore, TypeOK, ShapeOK, Guarded, ProtectedKept,
       Steps, SweepSteps, RestoreSteps
  <2>4. QED
    BY <2>1, <2>2, <2>3
<1>7. ASSUME NEW o \in PurgeOps, NEW chosen \in SUBSET Calls, Purge(c, o, chosen)
      PROVE  IInv' /\ ProtectedKept
  <2>1. TypeOK'
    BY <1>7 DEF Purge, TypeOK, ShapeOK, Nodes, Steps, SweepSteps,
       RestoreSteps, Ended
  <2>2. ShapeOK'
    BY <1>7 DEF Purge, TypeOK, ShapeOK, Nodes, Steps, SweepSteps,
       InPlaceSteps, RestoreSteps, RestoreOps, WriteOps, FileOps, PurgeOps
  <2>3. Guarded' /\ ProtectedKept
    BY <1>7 DEF Purge, TypeOK, ShapeOK, Guarded, ProtectedKept, Steps,
       SweepSteps, RestoreSteps
  <2>4. QED
    BY <2>1, <2>2, <2>3
<1>8. QED
  BY <1>1, <1>2, <1>3, <1>4, <1>5, <1>6, <1>7 DEF Arrive

-----------------------------------------------------------------------------
(* Every step of trash_put does.                                              *)
LEMMA PutKeeps ==
    ASSUME IInv, NEW c \in Calls, Put(c)
    PROVE  IInv' /\ ProtectedKept
<1> USE BinAssumption DEF IInv, Locs, Goto, files, db, args, sweep, Raised, Stowed
<1>1. ASSUME PutCheck(c)
      PROVE  IInv' /\ ProtectedKept
  <2>1. TypeOK'
    BY <1>1 DEF PutCheck, TypeOK, ShapeOK, Nodes, Steps, SweepSteps,
       RestoreSteps, Ended
  <2>2. ShapeOK'
    BY <1>1 DEF PutCheck, TypeOK, ShapeOK, Nodes, Steps, SweepSteps,
       InPlaceSteps, RestoreSteps, RestoreOps, WriteOps, FileOps, PurgeOps
  <2>3. Guarded' /\ ProtectedKept
    BY <1>1 DEF PutCheck, TypeOK, ShapeOK, Guarded, ProtectedKept, Steps,
       SweepSteps, RestoreSteps
  <2>4. QED
    BY <2>1, <2>2, <2>3
<1>2. ASSUME PutCopy(c)
      PROVE  IInv' /\ ProtectedKept
  <2>1. TypeOK'
    BY <1>2 DEF PutCopy, IsFile, Exists, TypeOK, ShapeOK, Nodes, Steps,
       SweepSteps, RestoreSteps, Ended
  <2>2. ShapeOK'
    BY <1>2 DEF PutCopy, IsFile, Exists, TypeOK, ShapeOK, Nodes, Steps,
       SweepSteps, InPlaceSteps, RestoreSteps, RestoreOps, WriteOps,
       FileOps, PurgeOps
  <2>3. Guarded' /\ ProtectedKept
    BY <1>2 DEF PutCopy, IsFile, Exists, TypeOK, ShapeOK, Guarded,
       ProtectedKept, Steps, SweepSteps, RestoreSteps
  <2>4. QED
    BY <2>1, <2>2, <2>3
<1>3. ASSUME PutCopyFails(c)
      PROVE  IInv' /\ ProtectedKept
  <2>1. TypeOK'
    <3>1. CASE UNCHANGED disk
      BY <1>3, <3>1 DEF PutCopyFails, TypeOK, Steps, Ended
    <3>2. CASE /\ IsFile(path[c])
               /\ disk' = [disk EXCEPT ![c] = [disk[path[c]] EXCEPT !.whole = FALSE]]
      <4>1. disk[path[c]] \in Nodes
        BY <1>3, <3>2 DEF PutCopyFails, IsFile, Exists, TypeOK, ShapeOK, Steps, SweepSteps
      <4>2. disk' \in [Locs -> Nodes \cup {Absent}]
        BY <3>2, <4>1, PartType DEF TypeOK
      <4>3. QED
        BY <1>3, <3>2, <4>2 DEF PutCopyFails, TypeOK, Steps, Ended
    <3>3. QED
      BY <1>3, <3>1, <3>2 DEF PutCopyFails
  <2>2. ShapeOK'
    BY <1>3, PartType DEF PutCopyFails, IsFile, Exists, TypeOK, ShapeOK,
       Nodes, Steps, SweepSteps, InPlaceSteps, RestoreSteps, RestoreOps,
       WriteOps, FileOps, PurgeOps
  <2>3. Guarded' /\ ProtectedKept
    BY <1>3, PartType DEF PutCopyFails, IsFile, Exists, TypeOK, ShapeOK,
       Guarded, ProtectedKept, Steps, SweepSteps, RestoreSteps
  <2>4. QED
    BY <2>1, <2>2, <2>3
<1>4. ASSUME Record(c)
      PROVE  IInv' /\ ProtectedKept
  <2>1. TypeOK'
    BY <1>4 DEF Record, TypeOK, ShapeOK, Nodes, Steps, SweepSteps,
       RestoreSteps, Ended
  <2>2. ShapeOK'
    BY <1>4 DEF Record, TypeOK, ShapeOK, Nodes, Steps, SweepSteps,
       InPlaceSteps, RestoreSteps, RestoreOps, WriteOps, FileOps, PurgeOps
  <2>3. Guarded' /\ ProtectedKept
    BY <1>4 DEF Record, TypeOK, ShapeOK, Guarded, ProtectedKept, Steps,
       SweepSteps, RestoreSteps
  <2>4. QED
    BY <2>1, <2>2, <2>3
<1>5. ASSUME RecordFails(c)
      PROVE  IInv' /\ ProtectedKept
  <2>1. TypeOK'
    BY <1>5 DEF RecordFails, TypeOK, ShapeOK, Nodes, Steps, SweepSteps,
       RestoreSteps, Ended
  <2>2. ShapeOK'
    BY <1>5 DEF RecordFails, TypeOK, ShapeOK, Nodes, Steps, SweepSteps,
       InPlaceSteps, RestoreSteps, RestoreOps, WriteOps, FileOps, PurgeOps
  <2>3. Guarded' /\ ProtectedKept
    BY <1>5 DEF RecordFails, TypeOK, ShapeOK, Guarded, ProtectedKept,
       Steps, SweepSteps, RestoreSteps
  <2>4. QED
    BY <2>1, <2>2, <2>3
<1>6. ASSUME Rollback(c)
      PROVE  IInv' /\ ProtectedKept
  <2>1. TypeOK'
    BY <1>6, RmTreeTypes DEF Rollback, TypeOK, ShapeOK, Nodes, Steps,
       SweepSteps, RestoreSteps, Ended
  <2>2. ShapeOK'
    BY <1>6 DEF Rollback, TypeOK, ShapeOK, Nodes, Steps, SweepSteps,
       InPlaceSteps, RestoreSteps, RestoreOps, WriteOps, FileOps, PurgeOps
  <2>3. Guarded' /\ ProtectedKept
    BY <1>6, RmTreeTypes DEF Rollback, TypeOK, ShapeOK, Guarded,
       ProtectedKept, Steps, SweepSteps, RestoreSteps
  <2>4. QED
    BY <2>1, <2>2, <2>3
<1>7. ASSUME Undone(c)
      PROVE  IInv' /\ ProtectedKept
  <2>1. TypeOK'
    BY <1>7, RmTreeTypes DEF Undone, TypeOK, ShapeOK, Nodes, Steps,
       SweepSteps, RestoreSteps, Ended
  <2>2. ShapeOK'
    BY <1>7 DEF Undone, TypeOK, ShapeOK, Nodes, Steps, SweepSteps,
       InPlaceSteps, RestoreSteps, RestoreOps, WriteOps, FileOps, PurgeOps
  <2>3. Guarded' /\ ProtectedKept
    BY <1>7, RmTreeTypes DEF Undone, TypeOK, ShapeOK, Guarded,
       ProtectedKept, Steps, SweepSteps, RestoreSteps
  <2>4. QED
    BY <2>1, <2>2, <2>3
<1>8. QED
  BY <1>1, <1>2, <1>3, <1>4, <1>5, <1>6, <1>7 DEF Put

-----------------------------------------------------------------------------
(* Every step of a move does: neither its source nor its target is protected. *)
LEMMA MoveKeeps ==
    ASSUME IInv, NEW c \in Calls, Move(c)
    PROVE  IInv' /\ ProtectedKept
<1> USE BinAssumption DEF IInv, Locs, Goto, files, db, args, sweep, Raised, Stowed
<1>1. ASSUME Rename(c)
      PROVE  IInv' /\ ProtectedKept
  <2>1. TypeOK'
    BY <1>1 DEF Rename, Exists, Carried, Source, Target, Moving, Dropping,
       Moved, TypeOK, ShapeOK, Nodes, Steps, SweepSteps, RestoreSteps,
       Ended
  <2>2. ShapeOK'
    BY <1>1 DEF Rename, Exists, Carried, Source, Target, Moving, Dropping,
       Moved, TypeOK, ShapeOK, Nodes, Steps, SweepSteps, InPlaceSteps,
       RestoreSteps, RestoreOps, WriteOps, FileOps, PurgeOps
  <2>3. Guarded' /\ ProtectedKept
    BY <1>1 DEF Rename, Exists, Carried, Source, Target, Moving, Dropping,
       Moved, TypeOK, ShapeOK, Guarded, ProtectedKept, Steps, SweepSteps,
       RestoreSteps
  <2>4. QED
    BY <2>1, <2>2, <2>3
<1>2. ASSUME MoveCopy(c)
      PROVE  IInv' /\ ProtectedKept
  <2>1. TypeOK'
    BY <1>2 DEF MoveCopy, Exists, Source, Target, Moving, Dropping, Moved,
       TypeOK, ShapeOK, Nodes, Steps, SweepSteps, RestoreSteps, Ended
  <2>2. ShapeOK'
    BY <1>2 DEF MoveCopy, Exists, Source, Target, Moving, Dropping, Moved,
       TypeOK, ShapeOK, Nodes, Steps, SweepSteps, InPlaceSteps,
       RestoreSteps, RestoreOps, WriteOps, FileOps, PurgeOps
  <2>3. Guarded' /\ ProtectedKept
    BY <1>2 DEF MoveCopy, Exists, Source, Target, Moving, Dropping, Moved,
       TypeOK, ShapeOK, Guarded, ProtectedKept, Steps, SweepSteps,
       RestoreSteps
  <2>4. QED
    BY <2>1, <2>2, <2>3
<1>3. ASSUME MoveDrop(c)
      PROVE  IInv' /\ ProtectedKept
  <2>1. TypeOK'
    BY <1>3 DEF MoveDrop, Orphaned, Source, Target, Moving, Dropping,
       Moved, TypeOK, ShapeOK, Nodes, Steps, SweepSteps, RestoreSteps,
       Ended
  <2>2. ShapeOK'
    BY <1>3 DEF MoveDrop, Orphaned, Source, Target, Moving, Dropping,
       Moved, TypeOK, ShapeOK, Nodes, Steps, SweepSteps, InPlaceSteps,
       RestoreSteps, RestoreOps, WriteOps, FileOps, PurgeOps
  <2>3. Guarded' /\ ProtectedKept
    BY <1>3 DEF MoveDrop, Orphaned, Source, Target, Moving, Dropping,
       Moved, TypeOK, ShapeOK, Guarded, ProtectedKept, Steps, SweepSteps,
       RestoreSteps
  <2>4. QED
    BY <2>1, <2>2, <2>3
<1>4. ASSUME MoveFails(c)
      PROVE  IInv' /\ ProtectedKept
  <2>1. TypeOK'
    BY <1>4 DEF MoveFails, Orphaned, Source, Target, Moving, Dropping,
       Moved, TypeOK, ShapeOK, Nodes, Steps, SweepSteps, RestoreSteps,
       Ended
  <2>2. ShapeOK'
    BY <1>4 DEF MoveFails, Orphaned, Source, Target, Moving, Dropping,
       Moved, TypeOK, ShapeOK, Nodes, Steps, SweepSteps, InPlaceSteps,
       RestoreSteps, RestoreOps, WriteOps, FileOps, PurgeOps
  <2>3. Guarded' /\ ProtectedKept
    BY <1>4 DEF MoveFails, Orphaned, Source, Target, Moving, Dropping,
       Moved, TypeOK, ShapeOK, Guarded, ProtectedKept, Steps, SweepSteps,
       RestoreSteps
  <2>4. QED
    BY <2>1, <2>2, <2>3
<1>5. ASSUME DropFails(c)
      PROVE  IInv' /\ ProtectedKept
  <2>1. TypeOK'
    BY <1>5, RemainsTypes DEF DropFails, Source, Target, Moving, Dropping,
       Moved, TypeOK, ShapeOK, Nodes, Steps, SweepSteps, RestoreSteps,
       Ended
  <2>2. ShapeOK'
    BY <1>5 DEF DropFails, Source, Target, Moving, Dropping, Moved,
       TypeOK, ShapeOK, Nodes, Steps, SweepSteps, InPlaceSteps,
       RestoreSteps, RestoreOps, WriteOps, FileOps, PurgeOps
  <2>3. Guarded' /\ ProtectedKept
    BY <1>5, RemainsTypes DEF DropFails, Source, Target, Moving, Dropping,
       Moved, TypeOK, ShapeOK, Guarded, ProtectedKept, Steps, SweepSteps,
       RestoreSteps
  <2>4. QED
    BY <2>1, <2>2, <2>3
<1>6. QED
  BY <1>1, <1>2, <1>3, <1>4, <1>5 DEF Move

-----------------------------------------------------------------------------
(* Every step of a write in place does.                                       *)
LEMMA InPlaceKeeps ==
    ASSUME IInv, NEW c \in Calls, InPlace(c)
    PROVE  IInv' /\ ProtectedKept
<1> USE BinAssumption DEF IInv, Locs, Goto, files, db, args, sweep, Raised, Stowed
<1>1. ASSUME Open(c)
      PROVE  IInv' /\ ProtectedKept
  <2>1. TypeOK'
    <3>1. Text(c) \in Nodes
      BY <1>1 DEF Open, Text, TypeOK, ShapeOK, Steps, SweepSteps, InPlaceSteps,
                  RestoreOps, WriteOps
    <3>2. /\ buf' \in [Calls -> Nodes \cup {Absent}]
          /\ disk' \in [Locs -> Nodes \cup {Absent}]
      BY <1>1, <3>1, PartType DEF Open, TypeOK
    <3>3. QED
      BY <1>1, <3>2 DEF Open, TypeOK, Steps, Ended
  <2>2. ShapeOK'
    BY <1>1, PartType DEF Open, Text, TypeOK, ShapeOK, Nodes, Steps,
       SweepSteps, InPlaceSteps, RestoreSteps, RestoreOps, WriteOps,
       FileOps, PurgeOps
  <2>3. Guarded' /\ ProtectedKept
    BY <1>1, PartType DEF Open, Text, TypeOK, ShapeOK, Guarded,
       ProtectedKept, Steps, SweepSteps, RestoreSteps
  <2>4. QED
    BY <2>1, <2>2, <2>3
<1>2. ASSUME OpenFails(c)
      PROVE  IInv' /\ ProtectedKept
  <2>1. TypeOK'
    BY <1>2 DEF OpenFails, TypeOK, ShapeOK, Nodes, Steps, SweepSteps,
       RestoreSteps, Ended
  <2>2. ShapeOK'
    BY <1>2 DEF OpenFails, TypeOK, ShapeOK, Nodes, Steps, SweepSteps,
       InPlaceSteps, RestoreSteps, RestoreOps, WriteOps, FileOps, PurgeOps
  <2>3. Guarded' /\ ProtectedKept
    BY <1>2 DEF OpenFails, TypeOK, ShapeOK, Guarded, ProtectedKept, Steps,
       SweepSteps, RestoreSteps
  <2>4. QED
    BY <2>1, <2>2, <2>3
<1>3. ASSUME Fill(c)
      PROVE  IInv' /\ ProtectedKept
  <2>1. TypeOK'
    <3>1. buf[c] \in Nodes /\ buf[c].whole \in BOOLEAN
      BY <1>3 DEF Fill, ShapeOK, Nodes
    <3>2. PICK whole \in BOOLEAN :
            disk' = [l \in Locs |-> IF l = fd[c]
                                    THEN [buf[c] EXCEPT !.whole = whole /\ buf[c].whole]
                                    ELSE disk[l]]
      BY <1>3 DEF Fill
    <3>3. [buf[c] EXCEPT !.whole = whole /\ buf[c].whole] \in Nodes
      BY <3>1, PartType
    <3>4. disk' \in [Locs -> Nodes \cup {Absent}]
      BY <3>2, <3>3 DEF TypeOK
    <3>5. QED
      BY <1>3, <3>4 DEF Fill, TypeOK, Steps, Ended
  <2>2. ShapeOK'
    BY <1>3, PartType DEF Fill, TypeOK, ShapeOK, Nodes, Steps, SweepSteps,
       InPlaceSteps, RestoreSteps, RestoreOps, WriteOps, FileOps, PurgeOps
  <2>3. Guarded' /\ ProtectedKept
    BY <1>3, PartType DEF Fill, TypeOK, ShapeOK, Guarded, ProtectedKept,
       Steps, SweepSteps, RestoreSteps
  <2>4. QED
    BY <2>1, <2>2, <2>3
<1>4. ASSUME FillFails(c)
      PROVE  IInv' /\ ProtectedKept
  <2>1. TypeOK'
    BY <1>4 DEF FillFails, TypeOK, ShapeOK, Nodes, Steps, SweepSteps,
       RestoreSteps, Ended
  <2>2. ShapeOK'
    BY <1>4 DEF FillFails, TypeOK, ShapeOK, Nodes, Steps, SweepSteps,
       InPlaceSteps, RestoreSteps, RestoreOps, WriteOps, FileOps, PurgeOps
  <2>3. Guarded' /\ ProtectedKept
    BY <1>4 DEF FillFails, TypeOK, ShapeOK, Guarded, ProtectedKept, Steps,
       SweepSteps, RestoreSteps
  <2>4. QED
    BY <2>1, <2>2, <2>3
<1>5. QED
  BY <1>1, <1>2, <1>3, <1>4 DEF InPlace

-----------------------------------------------------------------------------
(* Every step of _finish_restore does.                                        *)
LEMMA EndRestoreKeeps ==
    ASSUME IInv, NEW c \in Calls, EndRestore(c)
    PROVE  IInv' /\ ProtectedKept
<1> USE BinAssumption DEF IInv, Locs, Goto, files, db, args, sweep, Raised, Stowed
<1>1. ASSUME Finish(c)
      PROVE  IInv' /\ ProtectedKept
  <2>1. TypeOK'
    BY <1>1, RmTreeTypes DEF Finish, TypeOK, ShapeOK, Nodes, Steps,
       SweepSteps, RestoreSteps, Ended
  <2>2. ShapeOK'
    BY <1>1 DEF Finish, TypeOK, ShapeOK, Nodes, Steps, SweepSteps,
       InPlaceSteps, RestoreSteps, RestoreOps, WriteOps, FileOps, PurgeOps
  <2>3. Guarded' /\ ProtectedKept
    BY <1>1, RmTreeTypes DEF Finish, TypeOK, ShapeOK, Guarded,
       ProtectedKept, Steps, SweepSteps, RestoreSteps
  <2>4. QED
    BY <2>1, <2>2, <2>3
<1>2. ASSUME Forget(c)
      PROVE  IInv' /\ ProtectedKept
  <2>1. TypeOK'
    BY <1>2 DEF Forget, TypeOK, ShapeOK, Nodes, Steps, SweepSteps,
       RestoreSteps, Ended
  <2>2. ShapeOK'
    BY <1>2 DEF Forget, TypeOK, ShapeOK, Nodes, Steps, SweepSteps,
       InPlaceSteps, RestoreSteps, RestoreOps, WriteOps, FileOps, PurgeOps
  <2>3. Guarded' /\ ProtectedKept
    BY <1>2 DEF Forget, TypeOK, ShapeOK, Guarded, ProtectedKept, Steps,
       SweepSteps, RestoreSteps
  <2>4. QED
    BY <2>1, <2>2, <2>3
<1>3. ASSUME ForgetFails(c)
      PROVE  IInv' /\ ProtectedKept
  <2>1. TypeOK'
    BY <1>3 DEF ForgetFails, TypeOK, ShapeOK, Nodes, Steps, SweepSteps,
       RestoreSteps, Ended
  <2>2. ShapeOK'
    BY <1>3 DEF ForgetFails, TypeOK, ShapeOK, Nodes, Steps, SweepSteps,
       InPlaceSteps, RestoreSteps, RestoreOps, WriteOps, FileOps, PurgeOps
  <2>3. Guarded' /\ ProtectedKept
    BY <1>3 DEF ForgetFails, TypeOK, ShapeOK, Guarded, ProtectedKept,
       Steps, SweepSteps, RestoreSteps
  <2>4. QED
    BY <2>1, <2>2, <2>3
<1>4. QED
  BY <1>1, <1>2, <1>3 DEF EndRestore

-----------------------------------------------------------------------------
(* The audit row of a tool does.                                              *)
LEMMA TellKeeps ==
    ASSUME IInv, NEW c \in Calls, Tell(c)
    PROVE  IInv' /\ ProtectedKept
<1> USE BinAssumption DEF IInv, Locs, Goto, files, db, args, sweep
<1>1. \E to \in {"ok", "failed"} : Goto(c, "audit", to)
  BY DEF Tell, Audit, AuditFails
<1>2. UNCHANGED <<disk, dirs, fd, rows, lock, op, path, item, keep, buf, was, picked, todo, gone>>
  BY DEF Tell, Audit, AuditFails
<1>3. TypeOK'
  BY <1>1, <1>2 DEF TypeOK, Steps, Ended
<1>4. ShapeOK'
  BY <1>1, <1>2
  DEF TypeOK, ShapeOK, Steps, SweepSteps, InPlaceSteps, RestoreSteps, RestoreOps, WriteOps
<1>5. Guarded' /\ ProtectedKept
  BY <1>1, <1>2 DEF TypeOK, Guarded, ProtectedKept, Steps, SweepSteps
<1> QED
  BY <1>3, <1>4, <1>5

-----------------------------------------------------------------------------
(* Every step of a purge does.                                                *)
LEMMA SweepKeeps ==
    ASSUME IInv, NEW c \in Calls, Sweep(c)
    PROVE  IInv' /\ ProtectedKept
<1> USE BinAssumption DEF IInv, Locs, Goto, files, db, args, sweep, Raised, Stowed
<1>1. ASSUME NEW i \in Calls, PurgeSkip(c, i)
      PROVE  IInv' /\ ProtectedKept
  <2>1. TypeOK'
    BY <1>1 DEF PurgeSkip, TypeOK, ShapeOK, Nodes, Steps, SweepSteps,
       RestoreSteps, Ended
  <2>2. ShapeOK'
    BY <1>1 DEF PurgeSkip, TypeOK, ShapeOK, Nodes, Steps, SweepSteps,
       InPlaceSteps, RestoreSteps, RestoreOps, WriteOps, FileOps, PurgeOps
  <2>3. Guarded' /\ ProtectedKept
    BY <1>1 DEF PurgeSkip, TypeOK, ShapeOK, Guarded, ProtectedKept, Steps,
       SweepSteps, RestoreSteps
  <2>4. QED
    BY <2>1, <2>2, <2>3
<1>2. ASSUME NEW i \in Calls, PurgeRemove(c, i)
      PROVE  IInv' /\ ProtectedKept
  <2>1. TypeOK'
    BY <1>2, RmTreeTypes DEF PurgeRemove, TypeOK, ShapeOK, Nodes, Steps,
       SweepSteps, RestoreSteps, Ended
  <2>2. ShapeOK'
    BY <1>2 DEF PurgeRemove, TypeOK, ShapeOK, Nodes, Steps, SweepSteps,
       InPlaceSteps, RestoreSteps, RestoreOps, WriteOps, FileOps, PurgeOps
  <2>3. Guarded' /\ ProtectedKept
    BY <1>2, RmTreeTypes DEF PurgeRemove, TypeOK, ShapeOK, Guarded,
       ProtectedKept, Steps, SweepSteps, RestoreSteps
  <2>4. QED
    BY <2>1, <2>2, <2>3
<1>3. ASSUME PurgeDelete(c)
      PROVE  IInv' /\ ProtectedKept
  <2>1. TypeOK'
    BY <1>3 DEF PurgeDelete, TypeOK, ShapeOK, Nodes, Steps, SweepSteps,
       RestoreSteps, Ended
  <2>2. ShapeOK'
    BY <1>3 DEF PurgeDelete, TypeOK, ShapeOK, Nodes, Steps, SweepSteps,
       InPlaceSteps, RestoreSteps, RestoreOps, WriteOps, FileOps, PurgeOps
  <2>3. Guarded' /\ ProtectedKept
    BY <1>3 DEF PurgeDelete, TypeOK, ShapeOK, Guarded, ProtectedKept,
       Steps, SweepSteps, RestoreSteps
  <2>4. QED
    BY <2>1, <2>2, <2>3
<1>4. ASSUME PurgeCommit(c)
      PROVE  IInv' /\ ProtectedKept
  <2>1. TypeOK'
    BY <1>4 DEF PurgeCommit, TypeOK, ShapeOK, Nodes, Steps, SweepSteps,
       RestoreSteps, Ended
  <2>2. ShapeOK'
    BY <1>4 DEF PurgeCommit, TypeOK, ShapeOK, Nodes, Steps, SweepSteps,
       InPlaceSteps, RestoreSteps, RestoreOps, WriteOps, FileOps, PurgeOps
  <2>3. Guarded' /\ ProtectedKept
    BY <1>4 DEF PurgeCommit, TypeOK, ShapeOK, Guarded, ProtectedKept,
       Steps, SweepSteps, RestoreSteps
  <2>4. QED
    BY <2>1, <2>2, <2>3
<1>5. ASSUME PurgeFails(c)
      PROVE  IInv' /\ ProtectedKept
  <2>1. TypeOK'
    BY <1>5 DEF PurgeFails, TypeOK, ShapeOK, Nodes, Steps, SweepSteps,
       RestoreSteps, Ended
  <2>2. ShapeOK'
    BY <1>5 DEF PurgeFails, TypeOK, ShapeOK, Nodes, Steps, SweepSteps,
       InPlaceSteps, RestoreSteps, RestoreOps, WriteOps, FileOps, PurgeOps
  <2>3. Guarded' /\ ProtectedKept
    BY <1>5 DEF PurgeFails, TypeOK, ShapeOK, Guarded, ProtectedKept,
       Steps, SweepSteps, RestoreSteps
  <2>4. QED
    BY <2>1, <2>2, <2>3
<1>6. QED
  BY <1>1, <1>2, <1>3, <1>4, <1>5 DEF Sweep

-----------------------------------------------------------------------------
(* Dying changes no file and only forgets what was open.                      *)
LEMMA StopKeeps ==
    ASSUME IInv, NEW S \in SUBSET Calls, Stop(S)
    PROVE  IInv' /\ ProtectedKept
<1> USE BinAssumption DEF IInv, Locs, files, db, args, sweep, Stop
<1>1. TypeOK'
  BY DEF TypeOK, Ended
<1>2. ShapeOK'
  BY DEF TypeOK, ShapeOK, Steps, SweepSteps, InPlaceSteps, RestoreSteps
<1>3. Guarded' /\ ProtectedKept
  BY DEF TypeOK, Guarded, ProtectedKept, Steps
<1>4. QED
  BY <1>1, <1>2, <1>3

-----------------------------------------------------------------------------
(* Every step keeps the invariant and leaves what is protected alone.         *)
LEMMA NextKeeps == IInv /\ [Next]_vars => IInv' /\ ProtectedKept
<1> SUFFICES ASSUME IInv, [Next]_vars PROVE IInv' /\ ProtectedKept
  OBVIOUS
<1>1. ASSUME NEW c \in Calls, Kill(c) PROVE IInv' /\ ProtectedKept
  BY <1>1, StopKeeps DEF Kill
<1>2. CASE Crash
  BY <1>2, StopKeeps DEF Crash
<1>3. CASE UNCHANGED vars
  BY <1>3 DEF IInv, TypeOK, ShapeOK, Guarded, ProtectedKept, vars
<1>4. QED
  BY <1>1, <1>2, <1>3, ArriveKeeps, PutKeeps, MoveKeeps, InPlaceKeeps, EndRestoreKeeps,
     TellKeeps, SweepKeeps DEF Next

(* IInv is an invariant of the specification.                                 *)
THEOREM Invariance == Spec => []IInv
<1>1. IInv /\ [Next]_vars => IInv'
  BY NextKeeps
<1>2. QED
  BY InitInv, <1>1, PTL DEF Spec

(* Every variable always has its type.                                        *)
THEOREM TypeCorrect == Spec => []TypeOK
<1>1. IInv => TypeOK
  BY DEF IInv
<1>2. QED
  BY <1>1, Invariance, PTL

(* No write, patch, delete, rm, mkdir, restore, undo or purge, interleaved    *)
(* with any others, failing or killed anywhere, changes what a protected path *)
(* holds.                                                                     *)
THEOREM Protection == Spec => ProtectedUntouched
<1>1. IInv /\ [Next]_vars => [\A p \in Protected : disk'[p] = disk[p]]_vars
  BY NextKeeps DEF ProtectedKept
<1>2. QED
  BY <1>1, Invariance, PTL DEF Spec, ProtectedUntouched

-----------------------------------------------------------------------------
(* The bin's directories and its rows.                                        *)

(* The steps before a call has recorded a bin item of its own.                *)
Before == {"new", "put", "store", "storeDrop", "record", "rollback", "undo", "undoDrop", "undone"}

(* What a call owns of the bin at each step: its directory from the check on, *)
(* its row from Record on; and what it takes, which others have recorded.     *)
Listed ==
    \A c \in Calls :
        /\ pc[c] \in Before => rows[c] = None
        /\ pc[c] \in {"new", "put"} => c \notin dirs
        /\ pc[c] \in {"store", "storeDrop", "record"} => c \in dirs
        /\ pc[c] = "purgeDel" => item[c] \notin dirs
        /\ gone[c] \cap dirs = {}
        /\ todo[c] \cup gone[c] \subseteq picked[c]
        /\ \A i \in Calls : item[c] = i \/ i \in picked[c] => pc[i] \notin Before
        /\ op[c] \in PurgeOps /\ item[c] # None => item[c] \in picked[c]
        /\ op[c] \notin PurgeOps => picked[c] = {}
        /\ op[c] \notin PurgeOps \cup RestoreOps => item[c] = None
        /\ pc[c] = "new" <=> op[c] = None

(* A restore or a purge that is not through, or ended badly, accounts for the *)
(* directory of item i.                                                       *)
Lost(i) ==
    \E c \in Calls : /\ pc[c] \notin {"audit", "ok"}
                     /\ (item[c] = i /\ pc[c] # "purge") \/ i \in gone[c]

RowKept == \A i \in Calls : rows[i] # None /\ i \notin dirs => Lost(i)

DirKept ==
    \A i \in dirs : rows[i] = None =>
        \/ pc[i] \in Before \cup {"failed", "ignored", "killed"}
        \/ \E c \in Calls : item[c] = i /\ op[c] \in RestoreOps

(* The two properties, strengthened by what a call is about to do.            *)
ListInv == Listed /\ RowKept /\ DirKept
BinInv == IInv /\ ListInv

(* Any step of a call.                                                        *)
Step(c) == Arrive(c) \/ Put(c) \/ Move(c) \/ InPlace(c) \/ EndRestore(c) \/ Tell(c)
           \/ Sweep(c)

(* A removal takes the bin directory, or leaves it.                           *)
LEMMA RmTreeDirs ==
    ASSUME NEW i \in Calls, RmTree(i)
    PROVE  dirs' = dirs \/ dirs' = dirs \ {i}
BY DEF RmTree

(* A call that says what became of a bin item goes on saying it.              *)
LEMMA LostStays ==
    ASSUME NEW c \in Calls, NEW i \in Calls, Lost(i),
           \A d \in Calls \ {c} : UNCHANGED <<pc[d], item[d], gone[d]>>,
           \/ item[c] # i /\ i \notin gone[c]
           \/ pc'[c] \notin {"audit", "ok", "purge"} /\ UNCHANGED <<item, gone>>
    PROVE  Lost(i)'
<1>1. PICK d \in Calls : /\ pc[d] \notin {"audit", "ok"}
                      /\ ((item[d] = i /\ pc[d] # "purge") \/ i \in gone[d])
  BY DEF Lost
<1>2. pc'[d] \notin {"audit", "ok"} /\ ((item'[d] = i /\ pc'[d] # "purge") \/ i \in gone'[d])
  BY <1>1
<1> QED
  BY <1>2 DEF Lost

(* Every step of a call keeps the bin and its rows together.                  *)
LEMMA StepLists ==
    ASSUME BinInv, NEW c \in Calls, Step(c)
    PROVE  ListInv'
<1> USE BinAssumption
    DEF BinInv, ListInv, IInv, TypeOK, ShapeOK, Listed, RowKept, Lost, DirKept, Goto, Locs,
        files, db, args, sweep, Before, Steps, SweepSteps, RestoreSteps, InPlaceSteps,
        RestoreOps, WriteOps, FileOps, PurgeOps, Raised, Stowed
<1>1. ASSUME NEW p \in Paths, Write(c, p)
      PROVE  ListInv'
  BY <1>1 DEF Write, Begin
<1>2. ASSUME NEW p \in Paths, Patch(c, p)
      PROVE  ListInv'
  BY <1>2 DEF Patch, Begin
<1>3. ASSUME NEW p \in Paths, Delete(c, p)
      PROVE  ListInv'
  BY <1>3 DEF Delete, Begin
<1>4. ASSUME NEW p \in Paths, NEW r \in BOOLEAN, NEW f \in BOOLEAN, Rm(c, p, r, f)
      PROVE  ListInv'
  BY <1>4 DEF Rm, Begin
<1>5. ASSUME NEW p \in Paths, Mkdir(c, p)
      PROVE  ListInv'
  BY <1>5 DEF Mkdir, Begin
<1>6. ASSUME NEW i \in Calls, NEW over \in BOOLEAN, Restore(c, i, over)
      PROVE  ListInv'
  BY <1>6 DEF Restore, Begin
<1>7. ASSUME NEW o \in PurgeOps, NEW chosen \in SUBSET Calls, Purge(c, o, chosen)
      PROVE  ListInv'
  BY <1>7 DEF Purge
<1>8. ASSUME PutCheck(c)
      PROVE  ListInv'
  BY <1>8 DEF PutCheck
<1>9. ASSUME PutCopy(c)
      PROVE  ListInv'
  BY <1>9 DEF PutCopy
<1>10. ASSUME PutCopyFails(c)
      PROVE  ListInv'
  BY <1>10 DEF PutCopyFails
<1>11. ASSUME Record(c)
      PROVE  ListInv'
  <2>1. Listed'
    BY <1>11 DEF Record
  <2>2. op[c] \in {"delete", "rm", "rm_f"} => item[c] = None /\ gone[c] = {}
    BY <1>11 DEF Record
  <2>3. ASSUME NEW i \in Calls, Lost(i) PROVE Lost(i)'
    <3>1. \A d \in Calls \ {c} : UNCHANGED <<pc[d], item[d], gone[d]>>
      BY <1>11 DEF Record
    <3>2. op[c] \notin {"delete", "rm", "rm_f"} =>
            pc'[c] \notin {"audit", "ok", "purge"} /\ UNCHANGED <<item, gone>>
      BY <1>11 DEF Record
    <3> QED
      BY <2>2, <2>3, <3>1, <3>2, LostStays
  <2>4. RowKept'
    BY <1>11, <2>3 DEF Record
  <2>5. DirKept'
    <3>1. rows'[c] # None /\ UNCHANGED <<dirs, item, op>>
      BY <1>11 DEF Record, Locs
    <3>2. \A d \in Calls \ {c} : pc'[d] = pc[d] /\ rows'[d] = rows[d]
      BY <1>11 DEF Record
    <3> QED
      BY <3>1, <3>2
  <2> QED
    BY <2>1, <2>4, <2>5
<1>12. ASSUME RecordFails(c)
      PROVE  ListInv'
  BY <1>12 DEF RecordFails
<1>13. ASSUME Rollback(c)
      PROVE  ListInv'
  <2>1. /\ UNCHANGED <<rows, item, op, picked, todo, gone>>
        /\ dirs' \in {dirs, dirs \ {c}}
        /\ pc[c] = "rollback" /\ \E to \in {"undo", "failed", "ignored"} : pc' = [pc EXCEPT ![c] = to]
    BY <1>13, RmTreeDirs DEF Rollback
  <2> QED
    BY <2>1
<1>14. ASSUME Undone(c)
      PROVE  ListInv'
  BY <1>14, RmTreeDirs DEF Undone
<1>15. ASSUME Rename(c)
      PROVE  ListInv'
  BY <1>15 DEF Rename, Moving, Dropping, Moved
<1>16. ASSUME MoveCopy(c)
      PROVE  ListInv'
  BY <1>16 DEF MoveCopy, Moving, Dropping, Moved
<1>17. ASSUME MoveDrop(c)
      PROVE  ListInv'
  BY <1>17 DEF MoveDrop, Moving, Dropping, Moved
<1>18. ASSUME MoveFails(c)
      PROVE  ListInv'
  BY <1>18 DEF MoveFails, Moving, Dropping, Moved
<1>19. ASSUME DropFails(c)
      PROVE  ListInv'
  BY <1>19 DEF DropFails, Moving, Dropping, Moved
<1>20. ASSUME Open(c)
      PROVE  ListInv'
  BY <1>20 DEF Open
<1>21. ASSUME OpenFails(c)
      PROVE  ListInv'
  BY <1>21 DEF OpenFails
<1>22. ASSUME Fill(c)
      PROVE  ListInv'
  BY <1>22 DEF Fill
<1>23. ASSUME FillFails(c)
      PROVE  ListInv'
  BY <1>23 DEF FillFails
<1>24. ASSUME Finish(c)
      PROVE  ListInv'
  BY <1>24, RmTreeDirs DEF Finish
<1>25. ASSUME Forget(c)
      PROVE  ListInv'
  BY <1>25 DEF Forget
<1>26. ASSUME ForgetFails(c)
      PROVE  ListInv'
  BY <1>26 DEF ForgetFails
<1>27. ASSUME NEW i \in Calls, PurgeSkip(c, i)
      PROVE  ListInv'
  BY <1>27 DEF PurgeSkip
<1>28. ASSUME NEW i \in Calls, PurgeRemove(c, i)
      PROVE  ListInv'
  BY <1>28, RmTreeDirs DEF PurgeRemove
<1>29. ASSUME PurgeDelete(c)
      PROVE  ListInv'
  BY <1>29 DEF PurgeDelete
<1>30. ASSUME PurgeCommit(c)
      PROVE  ListInv'
  BY <1>30 DEF PurgeCommit
<1>31. ASSUME PurgeFails(c)
      PROVE  ListInv'
  BY <1>31 DEF PurgeFails
<1>32. ASSUME Audit(c)
      PROVE  ListInv'
  BY <1>32 DEF Audit
<1>33. ASSUME AuditFails(c)
      PROVE  ListInv'
  BY <1>33 DEF AuditFails
<1> HIDE BinAssumption
    DEF BinInv, ListInv, IInv, TypeOK, ShapeOK, Listed, RowKept, Lost, DirKept, Goto, Locs,
        files, db, args, sweep, Before, Steps, SweepSteps, RestoreSteps, InPlaceSteps,
        RestoreOps, WriteOps, FileOps, PurgeOps, Raised, Stowed
<1> QED
  BY <1>1, <1>2, <1>3, <1>4, <1>5, <1>6, <1>7, <1>8, <1>9, <1>10, <1>11, <1>12, <1>13, <1>14,
     <1>15, <1>16, <1>17, <1>18, <1>19, <1>20, <1>21, <1>22, <1>23, <1>24, <1>25, <1>26, <1>27,
     <1>28, <1>29, <1>30, <1>31, <1>32, <1>33
  DEF Step, Arrive, Put, Move, InPlace, EndRestore, Tell, Sweep

(* Dying removes no directory and no row, and is not ok.                      *)
LEMMA StopLists ==
    ASSUME BinInv, NEW S \in SUBSET Calls, Stop(S), \A c \in S : pc[c] # "new"
    PROVE  ListInv'
<1> USE DEF BinInv, ListInv, IInv, TypeOK, Before
<1>1. UNCHANGED <<dirs, rows, op, item, picked, todo, gone>>
  BY DEF Stop, args, sweep
<1>2. \A c \in Calls : pc'[c] \in {pc[c], "killed"}
  BY DEF Stop
<1>3. Listed'
  <2>1. \A c \in Calls : pc[c] = "new" => pc'[c] = "new"
    BY DEF Stop
  <2> QED
    BY <1>1, <1>2, <2>1 DEF Listed
<1>4. RowKept'
  BY <1>1, <1>2 DEF RowKept, Lost
<1>5. DirKept'
  BY <1>1, <1>2 DEF DirKept
<1> QED
  BY <1>3, <1>4, <1>5

LEMMA InitLists == Init => BinInv
<1>1. Init => ListInv
  BY BinAssumption
  DEF Init, ListInv, Listed, RowKept, DirKept, Before, RestoreOps, PurgeOps, Locs
<1> QED
  BY <1>1, InitInv DEF BinInv

LEMMA NextLists == BinInv /\ [Next]_vars => BinInv'
<1> SUFFICES ASSUME BinInv, [Next]_vars PROVE ListInv'
  BY NextKeeps DEF BinInv
<1>1. CASE Crash
  BY <1>1, StopLists DEF Crash, InFlight, Steps
<1>2. ASSUME NEW c \in Calls, Kill(c) PROVE ListInv'
  BY <1>2, StopLists DEF Kill, InFlight, Steps
<1>3. CASE UNCHANGED vars
  BY <1>3 DEF vars, BinInv, ListInv, Listed, RowKept, Lost, DirKept
<1> QED
  BY <1>1, <1>2, <1>3, StepLists DEF Next, Step

LEMMA BinInvariance == Spec => []BinInv
  BY InitLists, NextLists, PTL DEF Spec

(* A row whose directory is gone is accounted for by a restore or a purge     *)
(* that did not say ok, however calls, purges, failed removals and deaths     *)
(* interleave.                                                                *)
THEOREM RowsHavePayload == Spec => []RowHasPayload
<1>1. BinInv => RowHasPayload
  BY DEF BinInv, ListInv, RowKept, Lost, RowHasPayload
<1> QED
  BY <1>1, BinInvariance, PTL

(* A directory without a row is a put's that did not say ok, or a restored    *)
(* item's: no purge leaves one, however it is interleaved.                    *)
THEOREM DirsHaveOwner == Spec => []DirHasOwner
<1>1. BinInv => DirHasOwner
  BY DEF BinInv, ListInv, DirKept, Before, DirHasOwner, RestoreOps
<1> QED
  BY <1>1, BinInvariance, PTL
-----------------------------------------------------------------------------
(* What the recycle bin promises when no two calls in flight work on one      *)
(* path: for any paths, calls and operations, purges interleaved with the     *)
(* calls, and deaths and failures anywhere.                                   *)

(* A call of a file operation is in flight at these steps, and these are the  *)
(* operations that put something into the bin.                                *)
FileSteps == Steps \ SweepSteps
PutOps == WriteOps \cup {"delete", "rm", "rm_f", "restore_over"}

(* What is known between steps: one call at a path, ...                       *)
Exclusive ==
    \A c, d \in Calls : c # d /\ pc[c] \in FileSteps /\ pc[d] \in FileSteps => path[c] # path[d]

(* ... no restore of the item of a call in flight, ...                        *)
Unclaimed == \A c, d \in Calls : pc[c] \in FileSteps /\ item[d] = c => op[d] \notin RestoreOps

(* ... of each call, what it is and what it has open, ...                     *)
Kind(c) ==
    /\ op[c] \in WriteOps => keep[c]
    /\ pc[c] \in (Before \ {"new"}) \cup InPlaceSteps => op[c] \in PutOps
    /\ pc[c] \in {"storeDrop", "undo"} => ~keep[c]
    /\ rows[c] \in {None, path[c]}
    /\ fd[c] = IF pc[c] = "fill" THEN path[c] ELSE None

(* ... what is at its target, ...                                             *)
There(c) ==
    /\ pc[c] \in {"put", "store", "storeDrop", "undoDrop", "undone", "open"} =>
          disk[path[c]] = was[c]
    /\ pc[c] \in {"record", "rollback"} =>
          disk[path[c]] = IF keep[c] THEN was[c] ELSE Absent
    /\ pc[c] \in {"undo", "place"} => disk[path[c]] = Absent
    /\ pc[c] = "fill" => disk[path[c]] = [buf[c] EXCEPT !.whole = FALSE]

(* ... what is in the item it creates, ...                                    *)
Payload(c) ==
    /\ pc[c] \in {"new", "put", "store", "undone"} => disk[c] = Absent
    /\ pc[c] \in {"storeDrop", "record", "rollback", "undo", "undoDrop"} => disk[c] = was[c]
    /\ disk[c] # Absent => was[c] # Absent /\ disk[c].ver = was[c].ver

(* ... that what it restores is at its target, in whole, before it is         *)
(* removed, ...                                                               *)
Given(c) ==
    /\ op[c] \in RestoreOps /\ pc[c] = "fill" => disk[item[c]] \in Remains(buf[c])
    /\ pc[c] \in {"placeDrop", "finish"} => disk[item[c]] \in Remains(disk[path[c]])

(* ... and, from the record on, that what it replaced is in the bin.          *)
Undo(c) ==
    /\ op[c] \in PutOps
    /\ was[c] # Absent
    /\ pc[c] \in {"open", "fill", "place", "placeDrop", "finish", "forget", "audit", "ok"}
    => (rows[c] = path[c] /\ disk[c] = was[c]) \/ Taken(c)

Own(c) == Kind(c) /\ There(c) /\ Payload(c) /\ Given(c) /\ Undo(c)

SerialInv == BinInv /\ OnePerPath /\ Exclusive /\ Unclaimed /\ \A c \in Calls : Own(c)

-----------------------------------------------------------------------------
(* What may remain of a node is less of it: whole, it is the node itself.     *)
LEMMA RemainsLess ==
    ASSUME NEW n \in Nodes \cup {Absent}
    PROVE  /\ Absent \in Remains(n) /\ n \in Remains(n)
           /\ \A m \in Remains(n) :
                 /\ m \in Nodes \cup {Absent}
                 /\ Remains(m) \subseteq Remains(n)
                 /\ m # Absent => n # Absent /\ m.ver = n.ver /\ (m.whole => m = n)
<1> USE BinAssumption
<1>1. Absent \in Remains(n) /\ n \in Remains(n)
  BY DEF Remains
<1>2. ASSUME NEW m \in Remains(n), m # n, m # Absent
      PROVE  /\ n \in Nodes /\ n.kind = "dir"
             /\ m = [n EXCEPT !.whole = FALSE]
  BY <1>2 DEF Remains
<1>3. ASSUME NEW m \in Remains(n)
      PROVE  /\ m \in Nodes \cup {Absent}
             /\ m # Absent => n # Absent /\ m.ver = n.ver /\ (m.whole => m = n)
  <2>1. CASE m = n \/ m = Absent
    BY <2>1
  <2>2. CASE m # n /\ m # Absent
    BY <1>2, <2>2 DEF Nodes
  <2> QED
    BY <2>1, <2>2
<1>4. ASSUME NEW m \in Remains(n) PROVE Remains(m) \subseteq Remains(n)
  <2>1. CASE m = n
    BY <2>1
  <2>2. CASE m = Absent
    BY <2>2, <1>1 DEF Remains
  <2>3. CASE m # n /\ m # Absent
    <3>1. [m EXCEPT !.whole = FALSE] = m
      BY <1>2, <2>3 DEF Nodes
    <3>2. Remains(m) \subseteq {m, Absent}
      BY <3>1 DEF Remains
    <3> QED
      BY <3>2, <1>1
  <2> QED
    BY <2>1, <2>2, <2>3
<1> QED
  BY <1>1, <1>3, <1>4

(* rmtree touches one location, and only takes from it.                       *)
LEMMA RmTreeLeaves ==
    ASSUME TypeOK, NEW i \in Calls, RmTree(i)
    PROVE  /\ \A l \in Locs \ {i} : disk'[l] = disk[l]
           /\ disk'[i] \in Remains(disk[i])
           /\ \A c \in Calls : fd[c] # i => fd'[c] = fd[c]
<1>1. disk[i] \in Nodes \cup {Absent} /\ i \in Locs
  BY DEF TypeOK, Locs
<1>2. Absent \in Remains(disk[i])
  BY <1>1, RemainsLess
<1> QED
  BY <1>1, <1>2 DEF RmTree, TypeOK, Orphaned

-----------------------------------------------------------------------------
(* What a step of c may touch: no path another call works on, and of the bin  *)
(* its own item until that is recorded, and afterwards what it has taken.     *)
(* Only a step of Record makes a row, and only what has taken an item ends    *)
(* it.                                                                        *)
Footprint(c) ==
    /\ \A d \in Calls \ {c} :
          UNCHANGED <<pc[d], op[d], path[d], item[d], keep[d], buf[d], was[d], fd[d]>>
    /\ \A p \in Paths, d \in Calls \ {c} : pc[d] \in FileSteps /\ path[d] = p => disk'[p] = disk[p]
    /\ \A i \in Calls : \/ disk'[i] = disk[i]
                        \/ i = c /\ pc[c] \in Before
                        \/ pc[i] \notin Before /\ disk'[i] \in Remains(disk[i]) /\ Taken(i)
    /\ \A i \in Calls : \/ rows'[i] = rows[i]
                        \/ i = c /\ pc[c] = "record"
                        \/ rows'[i] = None /\ Taken(i)
    /\ \A i \in Calls : Taken(i) => Taken(i)'
    /\ pc'[c] \in FileSteps =>
          \/ pc[c] \in FileSteps /\ path'[c] = path[c]
          \/ pc[c] = "new" /\ \A d \in Calls \ {c} : pc[d] \in FileSteps => path[d] # path'[c]
    /\ pc[c] \notin Before => pc'[c] \notin Before
    /\ op'[c] \in RestoreOps => \/ op[c] \in RestoreOps /\ item'[c] = item[c]
                                \/ item'[c] # c /\ pc[item'[c]] \notin FileSteps

(* Every step of a call keeps to that.                                        *)
LEMMA StepTouches ==
    ASSUME SerialInv, NEW c \in Calls, Step(c)
    PROVE  Footprint(c)
<1> USE BinAssumption, RemainsLess
    DEF SerialInv, BinInv, ListInv, IInv, TypeOK, ShapeOK, Listed, Exclusive, Unclaimed, Own, Kind,
        Goto, Locs, files, db, args, sweep, Before, Steps, SweepSteps, FileSteps, RestoreSteps,
        InPlaceSteps, RestoreOps, WriteOps, FileOps, PurgeOps, Footprint, Taken, Raised,
        Stowed
<1>1. CASE \E p \in Paths : Write(c, p)
  BY <1>1 DEF Write, Begin, InFlight
<1>2. CASE \E p \in Paths : Patch(c, p)
  BY <1>2 DEF Patch, Begin, InFlight
<1>3. CASE \E p \in Paths : Delete(c, p)
  BY <1>3 DEF Delete, Begin, InFlight
<1>4. CASE \E p \in Paths, r, f \in BOOLEAN : Rm(c, p, r, f)
  BY <1>4 DEF Rm, Begin, InFlight
<1>5. CASE \E p \in Paths : Mkdir(c, p)
  BY <1>5 DEF Mkdir, Begin, InFlight
<1>6. CASE \E i \in Calls, over \in BOOLEAN : Restore(c, i, over)
  BY <1>6 DEF Restore, Begin, InFlight
<1>7. CASE \E o \in PurgeOps, chosen \in SUBSET Calls : Purge(c, o, chosen)
  BY <1>7 DEF Purge
<1>8. CASE PutCheck(c)
  BY <1>8 DEF PutCheck
<1>9. CASE PutCopy(c)
  BY <1>9 DEF PutCopy
<1>10. CASE PutCopyFails(c)
  BY <1>10 DEF PutCopyFails
<1>11. CASE Record(c)
  BY <1>11 DEF Record
<1>12. CASE RecordFails(c)
  BY <1>12 DEF RecordFails
<1>13. CASE Rollback(c)
  <2>1. /\ UNCHANGED <<rows, op, path, item, keep, buf, was, picked>>
        /\ \A d \in Calls \ {c} : pc'[d] = pc[d]
        /\ pc[c] = "rollback" /\ pc'[c] \in {"undo", "failed", "ignored"}
    BY <1>13 DEF Rollback
  <2>2. /\ \A l \in Locs \ {c} : disk'[l] = disk[l]
        /\ \A d \in Calls \ {c} : fd'[d] = fd[d]
    BY <1>13, RmTreeLeaves DEF Rollback
  <2> QED
    BY <2>1, <2>2
<1>14. CASE Undone(c)
  BY <1>14, RmTreeLeaves, RmTreeDirs DEF Undone
<1>15. CASE Rename(c)
  <2>1. /\ UNCHANGED <<rows, op, path, item, keep, buf, was, picked>>
        /\ \A d \in Calls \ {c} : pc'[d] = pc[d]
        /\ pc[c] \in FileSteps /\ (pc[c] \notin Before => pc'[c] \notin Before)
    BY <1>15 DEF Rename, Moving, Dropping, Moved, Source, Target
  <2>2. /\ Source(c) \in {path[c], item[c], c} /\ Target(c) \in {path[c], c}
        /\ Source(c) = c \/ Target(c) = c => pc[c] \in Before
        /\ Source(c) = item[c] => pc[c] \notin Before
        /\ Moving(c)
    BY <1>15 DEF Rename, Moving, Dropping, Moved, Source, Target
  <2>3. \A d \in Calls \ {c} : fd'[d] = fd[d]
    <3>1. \A d \in Calls \ {c} : fd[d] # Source(c) /\ fd[d] # Target(c)
      BY <2>2 DEF Moving
    <3> QED
      BY <1>15, <3>1 DEF Rename, Carried
  <2>4. /\ \A p \in Paths : p # path[c] => disk'[p] = disk[p]
        /\ \A i \in Calls : disk'[i] = disk[i] \/ (i = c /\ pc[c] \in Before)
                            \/ (i = item[c] /\ pc[c] \notin Before /\ disk'[i] = Absent)
    BY <1>15, <2>2 DEF Rename, Carried
  <2> QED
    BY <2>1, <2>3, <2>4
<1>16. CASE MoveCopy(c)
  BY <1>16 DEF MoveCopy, Moving, Dropping, Moved, Source, Target, Carried, Orphaned
<1>17. CASE MoveDrop(c)
  <2>1. /\ UNCHANGED <<rows, op, path, item, keep, buf, was, picked>>
        /\ \A d \in Calls \ {c} : pc'[d] = pc[d]
        /\ pc[c] \in FileSteps /\ (pc[c] \notin Before => pc'[c] \notin Before)
    BY <1>17 DEF MoveDrop, Moving, Dropping, Moved, Source, Target
  <2>2. /\ Source(c) \in {path[c], item[c], c} /\ Target(c) \in {path[c], c}
        /\ Source(c) = c \/ Target(c) = c => pc[c] \in Before
        /\ Source(c) = item[c] => pc[c] \notin Before
        /\ Dropping(c)
    BY <1>17 DEF MoveDrop, Moving, Dropping, Moved, Source, Target
  <2>3. \A d \in Calls \ {c} : fd'[d] = fd[d]
    <3>1. \A d \in Calls \ {c} : fd[d] # Source(c)
      BY <2>2 DEF Dropping
    <3> QED
      BY <1>17, <3>1 DEF MoveDrop, Orphaned
  <2>4. /\ \A p \in Paths : p # path[c] => disk'[p] = disk[p]
        /\ \A i \in Calls : disk'[i] = disk[i] \/ (i = c /\ pc[c] \in Before)
                            \/ (i = item[c] /\ pc[c] \notin Before /\ disk'[i] = Absent)
    BY <1>17, <2>2 DEF MoveDrop, Orphaned
  <2> QED
    BY <2>1, <2>3, <2>4
<1>18. CASE MoveFails(c)
  BY <1>18 DEF MoveFails, Moving, Dropping, Moved, Source, Target, Carried, Orphaned
<1>19. CASE DropFails(c)
  BY <1>19 DEF DropFails, Moving, Dropping, Moved, Source, Target, Carried, Orphaned
<1>20. CASE Open(c)
  BY <1>20 DEF Open, Text
<1>21. CASE OpenFails(c)
  BY <1>21 DEF OpenFails, Text
<1>22. CASE Fill(c)
  BY <1>22 DEF Fill, Text
<1>23. CASE FillFails(c)
  BY <1>23 DEF FillFails, Text
<1>24. CASE Finish(c)
  BY <1>24, RmTreeLeaves, RmTreeDirs DEF Finish
<1>25. CASE Forget(c)
  BY <1>25 DEF Forget
<1>26. CASE ForgetFails(c)
  BY <1>26 DEF ForgetFails
<1>27. CASE \E i \in Calls : PurgeSkip(c, i)
  BY <1>27 DEF PurgeSkip
<1>28. CASE \E i \in Calls : PurgeRemove(c, i)
  <2>1. PICK i \in Calls : PurgeRemove(c, i)
    BY <1>28
  <2>2. /\ UNCHANGED <<rows, op, path, keep, buf, was, picked>>
        /\ \A d \in Calls \ {c} : pc'[d] = pc[d] /\ item'[d] = item[d]
        /\ pc[c] = "purge" /\ i \in picked[c] /\ item'[c] = i /\ op[c] \in PurgeOps
        /\ pc'[c] \in {"purge", "purgeDel"}
    BY <2>1 DEF PurgeRemove
  <2>3. /\ \A l \in Locs \ {i} : disk'[l] = disk[l]
        /\ disk'[i] \in Remains(disk[i])
        /\ \A d \in Calls : fd[d] # i => fd'[d] = fd[d]
    BY <2>1, RmTreeLeaves DEF PurgeRemove
  <2>4. \A j \in Calls : Taken(j) => Taken(j)'
    BY <2>2
  <2>5. i \in Calls /\ pc[i] \notin Before /\ Taken(i) /\ \A d \in Calls \ {c} : fd[d] # i
    BY <2>2
  <2>7. op'[c] \notin RestoreOps /\ pc'[c] \notin FileSteps /\ pc'[c] \notin Before
    BY <2>2
  <2>8. \A d \in Calls \ {c} :
          UNCHANGED <<pc[d], op[d], path[d], item[d], keep[d], buf[d], was[d], fd[d]>>
    BY <2>2, <2>3, <2>5
  <2> HIDE DEF SerialInv, BinInv, ListInv, IInv, TypeOK, ShapeOK, Listed, Exclusive, Unclaimed,
               Own, Kind, Taken
  <2>6. /\ \A p \in Paths : disk'[p] = disk[p]
        /\ \A j \in Calls : disk'[j] = disk[j] \/ (j = i /\ disk'[j] \in Remains(disk[j]))
    BY <2>3, <2>5
  <2> QED
    BY <2>2, <2>4, <2>5, <2>6, <2>7, <2>8
<1>29. CASE PurgeDelete(c)
  BY <1>29 DEF PurgeDelete
<1>30. CASE PurgeCommit(c)
  BY <1>30 DEF PurgeCommit
<1>31. CASE PurgeFails(c)
  BY <1>31 DEF PurgeFails
<1>32. CASE Audit(c)
  BY <1>32 DEF Audit
<1>33. CASE AuditFails(c)
  BY <1>33 DEF AuditFails
<1> HIDE BinAssumption, RemainsLess
    DEF SerialInv, BinInv, ListInv, IInv, TypeOK, ShapeOK, Listed, Exclusive, Unclaimed, Own, Kind,
        Goto, Locs, files, db, args, sweep, Before, Steps, SweepSteps, FileSteps, RestoreSteps,
        InPlaceSteps, RestoreOps, WriteOps, FileOps, PurgeOps, Footprint, Taken, Raised,
        Stowed
<1> QED
  BY <1>1, <1>2, <1>3, <1>4, <1>5, <1>6, <1>7, <1>8, <1>9, <1>10, <1>11, <1>12, <1>13, <1>14,
     <1>15, <1>16, <1>17, <1>18, <1>19, <1>20, <1>21, <1>22, <1>23, <1>24, <1>25, <1>26, <1>27,
     <1>28, <1>29, <1>30, <1>31, <1>32, <1>33
  DEF Step, Arrive, Put, Move, InPlace, EndRestore, Tell, Sweep

(* So a step of d leaves what is known of c as it is, ...                     *)
LEMMA OthersKept ==
    ASSUME SerialInv, NEW c \in Calls, NEW d \in Calls \ {c}, Footprint(d)
    PROVE  Own(c)'
<1> USE DEF Footprint, SerialInv, BinInv, ListInv, IInv, TypeOK, ShapeOK, Listed, Own, Before,
            Steps, SweepSteps, FileSteps, InPlaceSteps, RestoreSteps
<1>1. Kind(c)'
  BY DEF Kind
<1>2. There(c)'
  <2>1. pc[c] \in FileSteps => disk'[path[c]] = disk[path[c]]
    OBVIOUS
  <2>2. UNCHANGED <<pc[c], path[c], keep[c], was[c], buf[c]>>
    OBVIOUS
  <2>3. CASE pc[c] = "fill"
    <3>1. buf[c] \in Nodes /\ disk[path[c]] = [buf[c] EXCEPT !.whole = FALSE]
      BY <2>3 DEF There
    <3> QED
      BY <2>1, <2>2, <2>3, <3>1 DEF There
  <2>4. CASE pc[c] # "fill"
    <3>1. (IF keep[c] THEN was[c] ELSE Absent)' = IF keep[c] THEN was[c] ELSE Absent
      BY <2>2, Zenon
    <3>2. pc[c] \in {"record", "rollback"} => disk'[path[c]] = IF keep[c] THEN was[c] ELSE Absent
      BY <2>1 DEF There
    <3>3. pc[c] \in {"put", "store", "storeDrop", "undoDrop", "undone", "open"} =>
            disk'[path[c]] = was[c]
      BY <2>1 DEF There
    <3>4. pc[c] \in {"undo", "place"} => disk'[path[c]] = Absent
      BY <2>1 DEF There
    <3> HIDE DEF Footprint, SerialInv, BinInv, ListInv, IInv, TypeOK, ShapeOK, Listed, Own
    <3> QED
      BY <2>2, <2>4, <3>1, <3>2, <3>3, <3>4 DEF There
  <2> QED
    BY <2>3, <2>4
<1>3. disk'[c] = disk[c] \/ (pc[c] \notin Before /\ disk'[c] \in Remains(disk[c]) /\ Taken(c))
  OBVIOUS
<1>4. disk[c] \in Nodes \cup {Absent}
  BY DEF Locs
<1>5. Payload(c)'
  BY <1>3, <1>4, RemainsLess DEF Payload
<1>6. ASSUME op[c] \in RestoreOps PROVE Given(c)'
  <2>1. item[c] \in Calls /\ pc[item[c]] \notin Before
    BY <1>6
  <2>2. disk[item[c]] \in Nodes \cup {Absent} /\ disk'[item[c]] \in Remains(disk[item[c]])
    BY <2>1, RemainsLess DEF Locs
  <2>3. CASE pc[c] = "fill"
    BY <2>2, <2>3, RemainsLess DEF Given
  <2>4. CASE pc[c] \in {"placeDrop", "finish"}
    <3>1. disk[path[c]] \in Nodes \cup {Absent} /\ disk'[path[c]] = disk[path[c]]
      BY <2>4 DEF Locs
    <3> QED
      BY <2>2, <2>4, <3>1, RemainsLess DEF Given
  <2> QED
    BY <2>3, <2>4 DEF Given
<1>7. op[c] \notin RestoreOps => Given(c)'
  BY DEF Given
<1>8. Undo(c)'
  BY <1>3 DEF Undo
<1> QED
  BY <1>1, <1>2, <1>5, <1>6, <1>7, <1>8

(* ... and calls on their own paths.                                          *)
LEMMA OneEach ==
    ASSUME SerialInv, NEW c \in Calls, Footprint(c)
    PROVE  Exclusive' /\ Unclaimed'
<1> USE DEF Footprint, SerialInv, BinInv, ListInv, IInv, TypeOK, ShapeOK, Listed, Before, Steps,
            SweepSteps, FileSteps
<1>1. Exclusive'
  BY DEF Exclusive
<1>2. Unclaimed'
  BY DEF Unclaimed
<1> QED
  BY <1>1, <1>2

-----------------------------------------------------------------------------
(* What a call knows of itself.                                               *)
Near(c) ==
    /\ pc[c] \in SweepSteps => op[c] \in PurgeOps
    /\ pc[c] \in FileSteps => op[c] \in FileOps /\ path[c] \in Paths
    /\ pc[c] \in FileSteps \ {"audit"} => op[c] # "mkdir"
    /\ pc[c] \in InPlaceSteps => op[c] \in WriteOps \cup RestoreOps
    /\ pc[c] \in RestoreSteps => op[c] \in RestoreOps
    /\ op[c] \in RestoreOps \/ pc[c] = "purgeDel" => item[c] \in Calls
    /\ op[c] \in WriteOps \/ pc[c] = "fill" => buf[c] \in Nodes
    /\ pc[c] \in Before => rows[c] = None
    /\ pc[c] = "new" <=> op[c] = None
    /\ Own(c)

LEMMA NearOK == SerialInv => \A c \in Calls : Near(c)
<1> SUFFICES ASSUME SerialInv, NEW c \in Calls PROVE Near(c)
  OBVIOUS
<1> HIDE DEF Own
<1> QED
  BY DEF Near, SerialInv, BinInv, ListInv, IInv, ShapeOK, Listed, FileSteps

(* Each step of a call keeps what it relies on.                               *)
LEMMA StepOwn ==
    ASSUME TypeOK, NEW c \in Calls, Near(c), Taken(c) => Taken(c)', Step(c)
    PROVE  Own(c)'
<1> USE BinAssumption
    DEF TypeOK, Near, Own, Kind, There, Payload, Given,
        Goto, Locs, files, db, args, sweep, Before, Steps, SweepSteps, FileSteps, RestoreSteps,
        InPlaceSteps, RestoreOps, WriteOps, FileOps, PurgeOps, PutOps, Exists, IsFile, IsDir,
        Undo, Raised, Stowed
<1>1. CASE \E p \in Paths : Write(c, p)
  BY <1>1 DEF Write, Begin, InFlight
<1>2. CASE \E p \in Paths : Patch(c, p)
  BY <1>2 DEF Patch, Begin, InFlight
<1>3. CASE \E p \in Paths : Delete(c, p)
  BY <1>3 DEF Delete, Begin, InFlight
<1>4. CASE \E p \in Paths, r, f \in BOOLEAN : Rm(c, p, r, f)
  BY <1>4 DEF Rm, Begin, InFlight
<1>5. CASE \E p \in Paths : Mkdir(c, p)
  BY <1>5 DEF Mkdir, Begin, InFlight
<1>6. CASE \E i \in Calls, over \in BOOLEAN : Restore(c, i, over)
  BY <1>6 DEF Restore, Begin, InFlight
<1>7. CASE \E o \in PurgeOps, chosen \in SUBSET Calls : Purge(c, o, chosen)
  BY <1>7 DEF Purge
<1>8. CASE PutCheck(c)
  BY <1>8 DEF PutCheck
<1>9. CASE PutCopy(c)
  BY <1>9 DEF PutCopy
<1>10. CASE PutCopyFails(c)
  <2>1. /\ UNCHANGED <<rows, op, path, item, keep, buf, was, fd>>
        /\ pc[c] = "store" /\ pc'[c] = "failed"
    BY <1>10 DEF PutCopyFails
  <2>2. disk'[c] = Absent \/ (disk'[c] # Absent /\ was[c] # Absent /\ disk'[c].ver = was[c].ver)
    <3>1. CASE UNCHANGED disk
      BY <2>1, <3>1
    <3>2. CASE /\ IsFile(path[c])
               /\ disk' = [disk EXCEPT ![c] = [disk[path[c]] EXCEPT !.whole = FALSE]]
      <4>1. disk[path[c]] = was[c] /\ was[c] \in Nodes /\ c \in Locs
        BY <2>1, <3>2
      <4> QED
        BY <3>2, <4>1, PartType DEF Nodes
    <3> QED
      BY <1>10, <3>1, <3>2 DEF PutCopyFails
  <2> QED
    BY <2>1, <2>2
<1>11. CASE Record(c)
  BY <1>11 DEF Record
<1>12. CASE RecordFails(c)
  BY <1>12 DEF RecordFails
<1>13. CASE Rollback(c)
  <2>1. /\ UNCHANGED <<rows, op, path, item, keep, buf, was>>
        /\ pc[c] = "rollback" /\ disk[c] = was[c] /\ disk[c] \in Nodes \cup {Absent}
    BY <1>13 DEF Rollback
  <2>2. CASE keep[c]
    <3>1. pc'[c] \in {"failed", "ignored"} /\ RmTree(c)
      BY <1>13, <2>2 DEF Rollback
    <3>2. disk'[c] \in Remains(disk[c]) /\ fd'[c] = fd[c]
      BY <2>1, <3>1, RmTreeLeaves
    <3>3. disk'[c] # Absent => was[c] # Absent /\ disk'[c].ver = was[c].ver
      BY <2>1, <3>2, RemainsLess
    <3> QED
      BY <2>1, <3>1, <3>2, <3>3
  <2>3. CASE ~keep[c]
    <3>1. pc'[c] = "undo" /\ ~keep'[c] /\ UNCHANGED <<disk, fd>>
      BY <1>13, <2>3 DEF Rollback
    <3> QED
      BY <2>1, <2>3, <3>1
  <2> QED
    BY <2>2, <2>3
<1>14. CASE Undone(c)
  <2>1. /\ UNCHANGED <<rows, op, path, item, keep, buf, was>>
        /\ pc[c] = "undone" /\ pc'[c] \in {"failed", "ignored"} /\ RmTree(c)
    BY <1>14 DEF Undone
  <2>2. disk[c] = Absent /\ disk'[c] \in Remains(disk[c]) /\ fd'[c] = fd[c]
    BY <2>1, RmTreeLeaves
  <2>3. disk'[c] = Absent
    BY <2>2, RemainsLess
  <2> QED
    BY <2>1, <2>3, <2>2
<1>15. CASE Rename(c)
  <2>1. /\ UNCHANGED <<rows, op, path, item, keep, buf, was>>
        /\ pc[c] \in {"store", "place", "undo"} /\ path[c] \in Paths
    BY <1>15 DEF Rename, Moving
  <2>2. CASE pc[c] = "store"
    <3>1. /\ disk' = [disk EXCEPT ![c] = disk[path[c]], ![path[c]] = Absent]
          /\ fd' = Carried(path[c], c) /\ pc'[c] = "record"
      BY <1>15, <2>2 DEF Rename, Source, Target, Moved
    <3>2. disk'[c] = was[c] /\ disk'[path[c]] = Absent /\ fd'[c] = None
      BY <2>1, <2>2, <3>1 DEF Carried
    <3>3. ~keep[c]
      BY <1>15, <2>2 DEF Rename, Moving
    <3> QED
      BY <2>1, <2>2, <3>1, <3>2, <3>3
  <2>3. CASE pc[c] = "place"
    <3>1. /\ disk' = [disk EXCEPT ![path[c]] = disk[item[c]], ![item[c]] = Absent]
          /\ fd' = Carried(item[c], path[c]) /\ pc'[c] = "finish" /\ item[c] \in Calls
      BY <1>15, <2>3 DEF Rename, Source, Target, Moved
    <3>2. /\ disk'[item[c]] = Absent /\ disk'[path[c]] \in Nodes \cup {Absent} /\ fd'[c] = None
          /\ item[c] # c => disk'[c] = disk[c]
      BY <2>1, <2>3, <3>1 DEF Carried
    <3>3. item[c] = c => Taken(c)
      BY DEF Taken
    <3>4. disk'[item[c]] \in Remains(disk'[path[c]])
      BY <3>2, RemainsLess
    <3> QED
      BY <2>1, <2>3, <3>1, <3>2, <3>3, <3>4
  <2>4. CASE pc[c] = "undo"
    <3>1. /\ disk' = [disk EXCEPT ![path[c]] = disk[c], ![c] = Absent]
          /\ fd' = Carried(c, path[c]) /\ pc'[c] = "undone"
      BY <1>15, <2>4 DEF Rename, Source, Target, Moved
    <3>2. disk'[path[c]] = was[c] /\ disk'[c] = Absent /\ fd'[c] = None
      BY <2>1, <2>4, <3>1 DEF Carried
    <3> QED
      BY <2>1, <2>4, <3>1, <3>2
  <2> QED
    BY <2>1, <2>2, <2>3, <2>4
<1>16. CASE MoveCopy(c)
  <2>1. /\ UNCHANGED <<rows, op, path, item, keep, buf, was, fd>>
        /\ pc[c] \in {"store", "place", "undo"} /\ path[c] \in Paths
    BY <1>16 DEF MoveCopy, Moving
  <2>2. CASE pc[c] = "store"
    <3>1. disk' = [disk EXCEPT ![c] = disk[path[c]]] /\ pc'[c] = "storeDrop" /\ ~keep[c]
      BY <1>16, <2>2 DEF MoveCopy, Moving, Source, Target
    <3> QED
      BY <2>1, <2>2, <3>1
  <2>3. CASE pc[c] = "place"
    <3>1. /\ disk' = [disk EXCEPT ![path[c]] = disk[item[c]]]
          /\ pc'[c] = "placeDrop" /\ item[c] \in Calls
      BY <1>16, <2>3 DEF MoveCopy, Source, Target
    <3>2. /\ disk'[item[c]] = disk'[path[c]] /\ disk'[path[c]] \in Nodes \cup {Absent}
          /\ disk'[c] = disk[c]
      BY <2>1, <3>1
    <3>3. disk'[item[c]] \in Remains(disk'[path[c]])
      BY <3>2, RemainsLess
    <3> QED
      BY <2>1, <2>3, <3>1, <3>2, <3>3
  <2>4. CASE pc[c] = "undo"
    BY <1>16, <2>1, <2>4 DEF MoveCopy, Source, Target
  <2> QED
    BY <2>1, <2>2, <2>3, <2>4
<1>17. CASE MoveDrop(c)
  <2>1. /\ UNCHANGED <<rows, op, path, item, keep, buf, was>>
        /\ pc[c] \in {"storeDrop", "placeDrop", "undoDrop"} /\ path[c] \in Paths
    BY <1>17 DEF MoveDrop, Dropping
  <2>2. CASE pc[c] = "storeDrop"
    <3>1. disk' = [disk EXCEPT ![path[c]] = Absent] /\ fd' = Orphaned(path[c]) /\ pc'[c] = "record"
      BY <1>17, <2>2 DEF MoveDrop, Source, Moved
    <3> QED
      BY <2>1, <2>2, <3>1 DEF Orphaned
  <2>3. CASE pc[c] = "placeDrop"
    <3>1. /\ disk' = [disk EXCEPT ![item[c]] = Absent] /\ fd' = Orphaned(item[c])
          /\ pc'[c] = "finish" /\ item[c] \in Calls
      BY <1>17, <2>3 DEF MoveDrop, Source, Moved
    <3>2. /\ disk'[item[c]] = Absent /\ disk'[path[c]] \in Nodes \cup {Absent} /\ fd'[c] = None
          /\ item[c] # c => disk'[c] = disk[c]
      BY <2>1, <2>3, <3>1 DEF Orphaned
    <3>3. item[c] = c => Taken(c)
      BY DEF Taken
    <3>4. disk'[item[c]] \in Remains(disk'[path[c]])
      BY <3>2, RemainsLess
    <3> QED
      BY <2>1, <2>3, <3>1, <3>2, <3>3, <3>4
  <2>4. CASE pc[c] = "undoDrop"
    <3>1. disk' = [disk EXCEPT ![c] = Absent] /\ fd' = Orphaned(c) /\ pc'[c] = "undone"
      BY <1>17, <2>4 DEF MoveDrop, Source, Moved
    <3> QED
      BY <2>1, <2>4, <3>1 DEF Orphaned
  <2> QED
    BY <2>1, <2>2, <2>3, <2>4
<1>18. CASE MoveFails(c)
  BY <1>18 DEF MoveFails, Moving, Dropping, Moved, Source, Target, Carried, Orphaned
<1>19. CASE DropFails(c)
  <2>1. /\ UNCHANGED <<rows, op, path, item, keep, buf, was, fd>>
        /\ pc[c] \in {"storeDrop", "placeDrop", "undoDrop"} /\ pc'[c] \in {"failed", "ignored"}
    BY <1>19 DEF DropFails, Dropping
  <2>2. Source(c) \in {path[c], item[c], c} /\ Source(c) \in Locs /\ path[c] \in Paths
    BY <2>1 DEF Source
  <2>3. disk'[c] = disk[c] \/ disk'[c] \in Remains(disk[c])
    BY <1>19, <2>2 DEF DropFails
  <2>4. disk'[c] # Absent => was[c] # Absent /\ disk'[c].ver = was[c].ver
    BY <2>3, RemainsLess
  <2> QED
    BY <2>1, <2>4
<1>20. CASE Open(c)
  <2>1. /\ UNCHANGED <<rows, op, path, item, keep, was>>
        /\ pc[c] = "open" /\ pc'[c] = "fill" /\ path[c] \in Paths
        /\ Text(c) \in Nodes /\ buf'[c] = Text(c) /\ fd'[c] = path[c]
    BY <1>20 DEF Open, Text
  <2>2. disk' = [disk EXCEPT ![path[c]] = [Text(c) EXCEPT !.whole = FALSE]]
    BY <1>20 DEF Open
  <2>3. /\ disk'[path[c]] = [buf'[c] EXCEPT !.whole = FALSE]
        /\ \A i \in Calls : disk'[i] = disk[i]
    BY <2>1, <2>2
  <2>4. op[c] \in RestoreOps => disk'[item[c]] \in Remains(buf'[c])
    <3>1. op[c] \in RestoreOps => item[c] \in Calls /\ Text(c) = disk[item[c]]
      BY DEF Text
    <3> QED
      BY <2>1, <2>3, <3>1, RemainsLess
  <2>5. Kind(c)' /\ Payload(c)'
    BY <2>1, <2>3
  <2>6. There(c)' /\ Given(c)'
    BY <2>1, <2>3, <2>4
  <2>7. Undo(c)'
    BY <2>1, <2>3
  <2> QED
    BY <2>5, <2>6, <2>7
<1>21. CASE OpenFails(c)
  BY <1>21 DEF OpenFails, Text
<1>22. CASE Fill(c)
  <2>1. /\ UNCHANGED <<rows, op, path, item, keep, buf, was>>
        /\ pc[c] = "fill" /\ pc'[c] = IF op[c] \in WriteOps THEN "audit" ELSE "finish"
        /\ path[c] \in Paths /\ fd'[c] = None
    BY <1>22 DEF Fill
  <2>2. buf[c] \in Nodes /\ buf[c].whole \in BOOLEAN /\ fd[c] = path[c]
    BY <2>1 DEF Nodes
  <2>3. /\ disk[path[c]] = [buf[c] EXCEPT !.whole = FALSE]
        /\ disk[path[c]] \in Nodes /\ disk[path[c]].ver = buf[c].ver
    <3>1. disk[path[c]] = [buf[c] EXCEPT !.whole = FALSE]
      BY <2>1
    <3> QED
      BY <2>2, <3>1, PartType DEF Nodes
  <2>4. disk' = [l \in Locs |-> IF l = path[c] THEN [buf[c] EXCEPT !.whole = TRUE /\ buf[c].whole]
                                               ELSE disk[l]]
    <3>1. fd[c] # None /\ Exists(fd[c]) /\ disk[fd[c]].ver = buf[c].ver
      BY <2>1, <2>2, <2>3
    <3> QED
      BY <1>22, <2>2, <3>1 DEF Fill
  <2>5. [buf[c] EXCEPT !.whole = TRUE /\ buf[c].whole] = buf[c]
    BY <2>2 DEF Nodes
  <2>6. disk'[path[c]] = buf[c] /\ \A i \in Calls : disk'[i] = disk[i]
    BY <2>1, <2>4, <2>5
  <2>7. Kind(c)' /\ Payload(c)'
    BY <2>1, <2>6
  <2>8. There(c)' /\ Given(c)'
    BY <2>1, <2>6
  <2>9. Undo(c)'
    BY <2>1, <2>6
  <2> QED
    BY <2>7, <2>8, <2>9
<1>23. CASE FillFails(c)
  BY <1>23 DEF FillFails, Text
<1>24. CASE Finish(c)
  <2>1. /\ UNCHANGED <<rows, op, path, item, keep, buf, was>>
        /\ pc[c] = "finish" /\ pc'[c] = "forget" /\ item[c] \in Calls /\ RmTree(item[c])
    BY <1>24 DEF Finish
  <2>2. /\ item[c] # c => disk'[c] = disk[c]
        /\ disk'[c] = disk[c] \/ disk'[c] \in Remains(disk[c])
        /\ fd'[c] = fd[c]
    BY <2>1, RmTreeLeaves
  <2>3. disk'[c] # Absent => was[c] # Absent /\ disk'[c].ver = was[c].ver
    BY <2>2, RemainsLess
  <2>4. item[c] = c => Taken(c)
    BY DEF Taken
  <2> QED
    BY <2>1, <2>2, <2>3, <2>4
<1>25. CASE Forget(c)
  <2>1. item[c] = c => Taken(c)
    BY DEF Taken
  <2> QED
    BY <1>25, <2>1 DEF Forget
<1>26. CASE ForgetFails(c)
  BY <1>26 DEF ForgetFails
<1>27. CASE \E i \in Calls : PurgeSkip(c, i)
  BY <1>27 DEF PurgeSkip
<1>28. CASE \E i \in Calls : PurgeRemove(c, i)
  <2>1. PICK i \in Calls : PurgeRemove(c, i)
    BY <1>28
  <2>2. /\ UNCHANGED <<rows, op, path, keep, buf, was>>
        /\ op[c] \in PurgeOps /\ pc'[c] \in {"purge", "purgeDel"} /\ pc[c] = "purge" /\ RmTree(i)
    BY <2>1 DEF PurgeRemove
  <2>3. (disk'[c] = disk[c] \/ disk'[c] \in Remains(disk[c])) /\ fd'[c] = fd[c]
    BY <2>2, RmTreeLeaves
  <2>4. disk'[c] # Absent => was[c] # Absent /\ disk'[c].ver = was[c].ver
    BY <2>3, RemainsLess
  <2> QED
    BY <2>2, <2>3, <2>4
<1>29. CASE PurgeDelete(c)
  BY <1>29 DEF PurgeDelete
<1>30. CASE PurgeCommit(c)
  BY <1>30 DEF PurgeCommit
<1>31. CASE PurgeFails(c)
  BY <1>31 DEF PurgeFails
<1>32. CASE Audit(c)
  BY <1>32 DEF Audit
<1>33. CASE AuditFails(c)
  BY <1>33 DEF AuditFails
<1> QED
  BY <1>1, <1>2, <1>3, <1>4, <1>5, <1>6, <1>7, <1>8, <1>9, <1>10, <1>11, <1>12, <1>13, <1>14,
     <1>15, <1>16, <1>17, <1>18, <1>19, <1>20, <1>21, <1>22, <1>23, <1>24, <1>25, <1>26, <1>27,
     <1>28, <1>29, <1>30, <1>31, <1>32, <1>33
  DEF Step, Arrive, Put, Move, InPlace, EndRestore, Tell, Sweep

-----------------------------------------------------------------------------
(* What a step overwrites or removes and was whole is whole elsewhere after   *)
(* it, or in an item that a purge takes.                                      *)
Safe ==
    \A l \in Locs : \/ disk'[l] = disk[l]
                    \/ disk[l] = Absent
                    \/ ~disk[l].whole
                    \/ \E m \in Locs : disk'[m] = disk[l]
                    \/ Purged(disk[l].ver)

(* Then no content is lost.                                                   *)
LEMMA SafeEnough == Safe => \A v \in Locs : Stored(v) => Stored(v)' \/ Purged(v)
  BY DEF Safe, Stored, Exists

(* Only a purge takes the item of a call in flight.                           *)
LEMMA TakenByPurge ==
    ASSUME SerialInv, NEW c \in Calls, pc[c] \in FileSteps, Taken(c)
    PROVE  \E d \in Calls : c \in picked[d]
  BY BinAssumption DEF SerialInv, BinInv, ListInv, Listed, Unclaimed, Taken, IInv, TypeOK, Locs

(* What a purge finds in an item is what the call of that item found.         *)
LEMMA PurgedOne ==
    ASSUME SerialInv, NEW i \in Calls, NEW d \in Calls, i \in picked[d], disk[i] # Absent
    PROVE  Purged(disk[i].ver)
  BY DEF SerialInv, Own, Payload, Purged

(* The source of a move that copied is at its target too, if it is whole.     *)
LEMMA Copied ==
    ASSUME TypeOK, NEW c \in Calls, Near(c), Dropping(c)
    PROVE  /\ Source(c) \in Locs /\ path[c] \in Paths
           /\ \/ disk[Source(c)] = Absent
              \/ ~disk[Source(c)].whole
              \/ \E m \in Locs \ {Source(c)} : disk[m] = disk[Source(c)]
<1> USE BinAssumption
    DEF TypeOK, Near, Own, There, Payload, Given, Dropping, Locs, FileSteps, SweepSteps, Steps,
        RestoreSteps
<1>1. CASE pc[c] = "storeDrop"
  <2>1. Source(c) = path[c] /\ path[c] \in Paths
    BY <1>1 DEF Source
  <2>2. disk[c] = disk[path[c]] /\ c \in Locs \ {path[c]}
    BY <1>1, <2>1
  <2> QED
    BY <2>1, <2>2
<1>2. CASE pc[c] = "placeDrop"
  <2>1. Source(c) = item[c] /\ item[c] \in Calls /\ path[c] \in Paths
    BY <1>2 DEF Source
  <2>2. disk[item[c]] \in Remains(disk[path[c]]) /\ disk[path[c]] \in Nodes \cup {Absent}
    BY <1>2, <2>1
  <2>3. disk[item[c]] # Absent /\ disk[item[c]].whole => disk[path[c]] = disk[item[c]]
    BY <2>2, RemainsLess
  <2> QED
    BY <2>1, <2>3
<1>3. CASE pc[c] = "undoDrop"
  <2>1. Source(c) = c /\ path[c] \in Paths
    BY <1>3 DEF Source
  <2>2. disk[c] = disk[path[c]] /\ path[c] \in Locs \ {c}
    BY <1>3, <2>1
  <2> QED
    BY <2>1, <2>2
<1> QED
  BY <1>1, <1>2, <1>3

(* Each step leaves a whole copy of what it overwrites or removes.            *)
LEMMA StepSafe ==
    ASSUME SerialInv, TypeOK, NEW c \in Calls, Near(c), Step(c)
    PROVE  Safe
<1> USE BinAssumption
    DEF TypeOK, Near, Own, Kind, There, Payload, Given,
        Goto, Locs, files, db, args, sweep, Before, Steps, SweepSteps, FileSteps, RestoreSteps,
        InPlaceSteps, RestoreOps, WriteOps, FileOps, PurgeOps, PutOps, Exists, IsFile, IsDir,
        Safe, Undo, Raised, Stowed
<1>1. CASE \E p \in Paths : Write(c, p)
  BY <1>1 DEF Write, Begin, InFlight
<1>2. CASE \E p \in Paths : Patch(c, p)
  BY <1>2 DEF Patch, Begin, InFlight
<1>3. CASE \E p \in Paths : Delete(c, p)
  BY <1>3 DEF Delete, Begin, InFlight
<1>4. CASE \E p \in Paths, r, f \in BOOLEAN : Rm(c, p, r, f)
  BY <1>4 DEF Rm, Begin, InFlight
<1>5. CASE \E p \in Paths : Mkdir(c, p)
  BY <1>5 DEF Mkdir, Begin, InFlight
<1>6. CASE \E i \in Calls, over \in BOOLEAN : Restore(c, i, over)
  BY <1>6 DEF Restore, Begin, InFlight
<1>7. CASE \E o \in PurgeOps, chosen \in SUBSET Calls : Purge(c, o, chosen)
  BY <1>7 DEF Purge
<1>8. CASE PutCheck(c)
  BY <1>8 DEF PutCheck
<1>9. CASE PutCopy(c)
  BY <1>9 DEF PutCopy
<1>10. CASE PutCopyFails(c)
  BY <1>10 DEF PutCopyFails
<1>11. CASE Record(c)
  BY <1>11 DEF Record
<1>12. CASE RecordFails(c)
  BY <1>12 DEF RecordFails
<1>13. CASE Rollback(c)
  BY <1>13, RmTreeLeaves, RmTreeDirs DEF Rollback
<1>14. CASE Undone(c)
  BY <1>14, RmTreeLeaves, RmTreeDirs DEF Undone
<1>15. CASE Rename(c)
  BY <1>15 DEF Rename, Moving, Dropping, Moved, Source, Target, Carried, Orphaned
<1>16. CASE MoveCopy(c)
  BY <1>16 DEF MoveCopy, Moving, Dropping, Moved, Source, Target, Carried, Orphaned
<1>17. CASE MoveDrop(c)
  <2>1. Dropping(c) /\ disk' = [disk EXCEPT ![Source(c)] = Absent]
    BY <1>17 DEF MoveDrop
  <2> QED
    BY <2>1, Copied
<1>18. CASE MoveFails(c)
  BY <1>18 DEF MoveFails, Moving, Dropping, Moved, Source, Target, Carried, Orphaned
<1>19. CASE DropFails(c)
  <2>1. Dropping(c) /\ \A l \in Locs \ {Source(c)} : disk'[l] = disk[l]
    BY <1>19 DEF DropFails
  <2> QED
    BY <2>1, Copied
<1>20. CASE Open(c)
  <2>1. /\ pc[c] = "open" /\ path[c] \in Paths
        /\ \A l \in Locs \ {path[c]} : disk'[l] = disk[l]
    BY <1>20 DEF Open
  <2>2. disk[path[c]] = was[c] /\ op[c] \in PutOps
    BY <2>1
  <2>3. was[c] # Absent => disk'[c] = disk[path[c]] \/ Purged(was[c].ver)
    <3>1. was[c] # Absent => disk[c] = was[c] \/ Taken(c)
      BY <2>1, <2>2
    <3>2. Taken(c) /\ was[c] # Absent => Purged(was[c].ver)
      BY <2>1, TakenByPurge DEF Purged
    <3> QED
      BY <2>1, <2>2, <3>1, <3>2
  <2> QED
    BY <2>1, <2>2, <2>3
<1>21. CASE OpenFails(c)
  BY <1>21 DEF OpenFails, Text
<1>22. CASE Fill(c)
  <2>1. /\ pc[c] = "fill" /\ path[c] \in Paths /\ fd[c] = path[c] /\ buf[c] \in Nodes
        /\ disk[path[c]] = [buf[c] EXCEPT !.whole = FALSE]
    BY <1>22 DEF Fill
  <2>2. ~disk[path[c]].whole
    BY <2>1 DEF Nodes
  <2>3. \A l \in Locs \ {path[c]} : disk'[l] = disk[l]
    BY <1>22, <2>1 DEF Fill
  <2> QED
    BY <2>2, <2>3
<1>23. CASE FillFails(c)
  BY <1>23 DEF FillFails, Text
<1>24. CASE Finish(c)
  <2>1. pc[c] = "finish" /\ RmTree(item[c]) /\ item[c] \in Calls /\ path[c] \in Paths
    BY <1>24 DEF Finish
  <2>2. \A l \in Locs \ {item[c]} : disk'[l] = disk[l]
    BY <2>1, RmTreeLeaves
  <2>3. disk[item[c]] \in Remains(disk[path[c]]) /\ disk[path[c]] \in Nodes \cup {Absent}
    BY <2>1
  <2>4. disk[item[c]] # Absent /\ disk[item[c]].whole => disk'[path[c]] = disk[item[c]]
    BY <2>1, <2>2, <2>3, RemainsLess
  <2> QED
    BY <2>1, <2>2, <2>4
<1>25. CASE Forget(c)
  BY <1>25 DEF Forget
<1>26. CASE ForgetFails(c)
  BY <1>26 DEF ForgetFails
<1>27. CASE \E i \in Calls : PurgeSkip(c, i)
  BY <1>27 DEF PurgeSkip
<1>28. CASE \E i \in Calls : PurgeRemove(c, i)
  <2>1. PICK i \in Calls : i \in todo[c] /\ RmTree(i)
    BY <1>28 DEF PurgeRemove
  <2>2. \A l \in Locs \ {i} : disk'[l] = disk[l]
    BY <2>1, RmTreeLeaves
  <2>3. i \in picked[c]
    BY <2>1 DEF SerialInv, BinInv, ListInv, Listed
  <2>4. disk[i] # Absent => Purged(disk[i].ver)
    BY <2>3, PurgedOne
  <2> QED
    BY <2>2, <2>4
<1>29. CASE PurgeDelete(c)
  BY <1>29 DEF PurgeDelete
<1>30. CASE PurgeCommit(c)
  BY <1>30 DEF PurgeCommit
<1>31. CASE PurgeFails(c)
  BY <1>31 DEF PurgeFails
<1>32. CASE Audit(c)
  BY <1>32 DEF Audit
<1>33. CASE AuditFails(c)
  BY <1>33 DEF AuditFails
<1> QED
  BY <1>1, <1>2, <1>3, <1>4, <1>5, <1>6, <1>7, <1>8, <1>9, <1>10, <1>11, <1>12, <1>13, <1>14,
     <1>15, <1>16, <1>17, <1>18, <1>19, <1>20, <1>21, <1>22, <1>23, <1>24, <1>25, <1>26, <1>27,
     <1>28, <1>29, <1>30, <1>31, <1>32, <1>33
  DEF Step, Arrive, Put, Move, InPlace, EndRestore, Tell, Sweep

-----------------------------------------------------------------------------
(* What ErrorIsTrue says of one step of a call, and that each such step does  *)
(* it.                                                                        *)
TrueError(c) ==
    /\ op[c] \in {"write", "patch", "delete", "rm", "rm_f"}
    /\ pc[c] # pc'[c]
    /\ pc'[c] \in {"failed", "ignored"}
    => \/ disk'[path[c]] = was[c]
       \/ /\ pc[c] \in {"fill", "audit"}
          /\ was[c] = Absent \/ Taken(c) \/ (rows'[c] = path[c] /\ disk'[c] = was[c])
       \/ pc[c] \in {"storeDrop", "undo"} /\ disk'[c] = was[c]

LEMMA FillEnds ==
    ASSUME NEW c \in Calls, pc \in [Calls -> {"new"} \cup Steps \cup Ended], Open(c) \/ Fill(c)
    PROVE  pc'[c] \notin {"failed", "ignored"}
<1>1. CASE Open(c)
  BY <1>1 DEF Open, Goto
<1>2. CASE Fill(c)
  BY <1>2 DEF Fill, Goto
<1> QED
  BY <1>1, <1>2

LEMMA ErrorsTrue ==
    ASSUME TypeOK, NEW c \in Calls, Near(c), Step(c)
    PROVE  TrueError(c)
<1> USE BinAssumption
    DEF TypeOK, Near, Own, Kind, There, Payload, Goto, Locs, files, db, args, sweep, Before, Steps,
        SweepSteps, FileSteps, RestoreSteps, InPlaceSteps, RestoreOps, WriteOps, FileOps, PurgeOps,
        PutOps, Exists, TrueError, Raised, Stowed
<1>1. CASE Arrive(c)
  BY <1>1 DEF Arrive, Write, Patch, Delete, Rm, Mkdir, Restore, Purge, Begin
<1>2. CASE Put(c)
  BY <1>2, RmTreeLeaves
  DEF Put, PutCheck, PutCopy, PutCopyFails, Record, RecordFails, Rollback, Undone
<1>3. CASE Move(c)
  <2>1. CASE Rename(c) \/ MoveCopy(c) \/ MoveDrop(c)
    BY <2>1 DEF Rename, MoveCopy, MoveDrop, Moving, Dropping, Moved
  <2>2. CASE MoveFails(c)
    BY <2>2 DEF MoveFails, Moving, Source, Target
  <2>3. CASE DropFails(c)
    BY <2>3 DEF DropFails, Dropping, Source
  <2> QED
    BY <1>3, <2>1, <2>2, <2>3 DEF Move
<1>4. CASE InPlace(c)
  <2>1. CASE Open(c) \/ Fill(c)
    BY <2>1, FillEnds
  <2>2. CASE OpenFails(c)
    BY <2>2 DEF OpenFails
  <2>3. CASE FillFails(c)
    BY <2>3 DEF FillFails, Undo
  <2> QED
    BY <1>4, <2>1, <2>2, <2>3 DEF InPlace
<1>5. CASE EndRestore(c)
  BY <1>5 DEF EndRestore, Finish, Forget, ForgetFails
<1>6. CASE Tell(c)
  BY <1>6 DEF Tell, Audit, AuditFails, Undo
<1>7. CASE Sweep(c)
  BY <1>7 DEF Sweep, PurgeSkip, PurgeRemove, PurgeDelete, PurgeCommit, PurgeFails
<1> QED
  BY <1>1, <1>2, <1>3, <1>4, <1>5, <1>6, <1>7 DEF Step

-----------------------------------------------------------------------------
(* Every step of a call keeps what is known of every call.                    *)
LEMMA StepKeeps ==
    ASSUME SerialInv, NEW c \in Calls, Step(c)
    PROVE  Footprint(c) /\ Exclusive' /\ Unclaimed' /\ \A d \in Calls : Own(d)'
<1>1. Footprint(c)
  BY StepTouches
<1>2. TypeOK /\ Near(c) /\ (Taken(c) => Taken(c)')
  BY <1>1, NearOK DEF SerialInv, BinInv, IInv, Footprint
<1>3. Own(c)'
  BY <1>2, StepOwn
<1>4. \A d \in Calls \ {c} : Own(d)'
  BY <1>1, OthersKept
<1> QED
  BY <1>1, <1>3, <1>4, OneEach

(* So does a death, which leaves nothing open.                                *)
LEMMA DeathKeeps ==
    ASSUME SerialInv, NEW S \in SUBSET Calls, Stop(S), \A c \in S : InFlight(c)
    PROVE  Exclusive' /\ Unclaimed' /\ \A c \in Calls : Own(c)'
<1>1. UNCHANGED <<disk, rows, op, path, item, keep, buf, was, picked>>
  BY DEF Stop, args, sweep
<1>2. \A c \in Calls : \/ pc'[c] = pc[c] /\ fd'[c] = fd[c]
                       \/ pc[c] \in Steps /\ pc'[c] = "killed" /\ fd'[c] = None
  BY DEF Stop, InFlight, SerialInv, BinInv, IInv, TypeOK
<1>3. Exclusive' /\ Unclaimed'
  BY <1>1, <1>2 DEF SerialInv, Exclusive, Unclaimed, FileSteps, Steps
<1>4. ASSUME NEW c \in Calls PROVE Own(c)'
  <2>1. Own(c)
    BY DEF SerialInv
  <2>2. CASE pc'[c] = pc[c] /\ fd'[c] = fd[c]
    BY <1>1, <2>1, <2>2 DEF Own, Kind, There, Payload, Given, Undo, Taken
  <2>3. CASE pc[c] \in Steps /\ pc'[c] = "killed" /\ fd'[c] = None
    BY <1>1, <2>1, <2>3 DEF Own, Kind, There, Payload, Given, Undo, Before, InPlaceSteps
  <2> QED
    BY <1>2, <2>2, <2>3
<1> QED
  BY <1>3, <1>4

(* It holds at the start, ...                                                 *)
LEMMA SerialInit == OnePerPath /\ Init => SerialInv
<1> SUFFICES ASSUME OnePerPath, Init PROVE SerialInv
  OBVIOUS
<1>1. BinInv /\ Exclusive /\ Unclaimed
  BY InitLists, BinAssumption DEF Init, Exclusive, Unclaimed, FileSteps, Steps, Locs
<1>2. ASSUME NEW c \in Calls PROVE Own(c)
  <2>1. disk[c] = Absent
    BY BinAssumption DEF Init, Locs
  <2> QED
    BY <2>1, BinAssumption
    DEF Init, Own, Kind, There, Payload, Given, Undo, WriteOps, PutOps, RestoreOps, InPlaceSteps,
        Before, FileOps
<1> QED
  BY <1>1, <1>2 DEF SerialInv

(* Each step is one call's, a death, or none.                                 *)
LEMMA Cases ==
    ASSUME BinInv, [Next]_vars
    PROVE  \/ \E c \in Calls : Step(c)
           \/ \E S \in SUBSET Calls : Stop(S) /\ \A c \in S : InFlight(c)
           \/ UNCHANGED vars
<1>1. CASE Crash
  BY <1>1 DEF Crash
<1>2. CASE \E c \in Calls : Kill(c)
  BY <1>2 DEF Kill
<1> QED
  BY <1>1, <1>2 DEF Next, Step

(* ... after every step, ...                                                  *)
LEMMA SerialStep == SerialInv /\ [Next]_vars => SerialInv'
<1> SUFFICES ASSUME SerialInv, [Next]_vars PROVE SerialInv'
  OBVIOUS
<1>1. BinInv'
  BY NextLists DEF SerialInv
<1>2. CASE \E c \in Calls : Step(c)
  BY <1>1, <1>2, StepKeeps DEF SerialInv
<1>3. CASE \E S \in SUBSET Calls : Stop(S) /\ \A c \in S : InFlight(c)
  BY <1>1, <1>3, DeathKeeps DEF SerialInv
<1>4. CASE UNCHANGED vars
  BY <1>1, <1>4
  DEF vars, SerialInv, Exclusive, Unclaimed, Own, Kind, There, Payload, Given, Undo, Taken
<1> QED
  BY <1>2, <1>3, <1>4, Cases DEF SerialInv

(* ... and always, when no two calls in flight work on one path.              *)
LEMMA Serial == OnePerPath /\ Spec => []SerialInv
  BY SerialInit, SerialStep, PTL DEF Spec

(* What a call replaced or deleted is in the bin, recorded and unchanged,     *)
(* from before the first byte is overwritten until a restore or a purge takes *)
(* it: for calls on different paths, failing and dying anywhere.              *)
THEOREM AllUndoable == OnePerPath /\ Spec => []Undoable
<1>1. SerialInv => Undoable
  BY DEF SerialInv, Own, Undo, Undoable, PutOps, WriteOps
<1> QED
  BY <1>1, Serial, PTL

(* No step loses the last whole copy of a content, but for a purge of its     *)
(* item. Crashes, failed copies, refused rows and half-removed directories    *)
(* included.                                                                  *)
THEOREM NothingLost == OnePerPath /\ Spec => NoSilentLoss
<1>1. SerialInv /\ [Next]_vars => [\A v \in Locs : Stored(v) => Stored(v)' \/ Purged(v)]_vars
  <2> SUFFICES ASSUME SerialInv, [Next]_vars, vars' # vars
               PROVE  \A v \in Locs : Stored(v) => Stored(v)' \/ Purged(v)
    OBVIOUS
  <2>1. ASSUME NEW c \in Calls, Step(c) PROVE Safe
    <3>1. TypeOK /\ Near(c)
      BY NearOK DEF SerialInv, BinInv, IInv
    <3> QED
      BY <2>1, <3>1, StepSafe
  <2>2. ASSUME NEW S \in SUBSET Calls, Stop(S) PROVE Safe
    BY <2>2 DEF Stop, Safe
  <2> QED
    BY <2>1, <2>2, Cases, SafeEnough DEF SerialInv
<1> QED
  BY <1>1, Serial, PTL DEF Spec, NoSilentLoss

(* A write or a delete that says it failed, or an rm -f that hides a failure, *)
(* has left its target as it found it, or has what it took from there whole   *)
(* in the bin: recorded, when what failed came after the effect.              *)
THEOREM ErrorsAreTrue == OnePerPath /\ Spec => ErrorIsTrue
<1>1. ASSUME SerialInv, [Next]_vars, NEW d \in Calls PROVE pc'[d] # pc[d] => TrueError(d)
  <2>1. CASE \E c \in Calls : Step(c)
    <3>1. PICK c \in Calls : Step(c)
      BY <2>1
    <3>2. CASE d = c
      BY <3>1, <3>2, <1>1, NearOK, ErrorsTrue DEF SerialInv, BinInv, IInv
    <3>3. CASE d # c
      BY <3>1, <3>3, <1>1, StepKeeps DEF Footprint
    <3> QED
      BY <3>2, <3>3
  <2>2. CASE \E S \in SUBSET Calls : Stop(S)
    BY <2>2, <1>1 DEF Stop, TrueError, SerialInv, BinInv, IInv, TypeOK
  <2>3. CASE UNCHANGED vars
    BY <2>3 DEF vars
  <2> QED
    BY <1>1, <2>1, <2>2, <2>3, Cases DEF SerialInv
<1>2. SerialInv /\ [Next]_vars => [\A c \in Calls : TrueError(c)]_vars
  BY <1>1 DEF TrueError
<1>3. [][\A c \in Calls : TrueError(c)]_vars <=> ErrorIsTrue
  BY DEF TrueError, ErrorIsTrue
<1> QED
  BY <1>2, <1>3, Serial, PTL DEF Spec

(* A restore without overwrite replaces nothing, when it has the path for     *)
(* itself: what the run bin_restore_race refutes of calls that share one.     *)
THEOREM RestoreReplacesNothing == OnePerPath /\ Spec => RestoreKeepsWhatIsThere
<1>1. SerialInv => \A c \in Calls : pc[c] = "place" => disk[path[c]] = Absent
  BY DEF SerialInv, Own, There
<1>2. SerialInv /\ [Next]_vars =>
        [\A c \in Calls :
            op[c] = "restore" /\ pc[c] = "place" /\ pc'[c] # pc[c] /\ pc'[c] # "killed"
            => disk[path[c]] \in {Absent, disk'[path[c]]}]_vars
  BY <1>1
<1> QED
  BY <1>2, Serial, PTL DEF Spec, RestoreKeepsWhatIsThere

-----------------------------------------------------------------------------
(* Of any calls, however many are in flight on one path.                      *)

(* A row names its item's path, a restore works on its item's path, and a     *)
(* file that is open for writing is the one the call opened: it is still      *)
(* there, or another call on that path has moved it into the bin.             *)
Handles ==
    \A c \in Calls :
        /\ rows[c] \in {None, path[c]}
        /\ op[c] \in RestoreOps => path[c] = path[item[c]]
        /\ fd[c] # None => pc[c] = "fill"
        /\ fd[c] \in Paths => fd[c] = path[c]
        /\ fd[c] \in Calls => path[fd[c]] = path[c] /\ pc[fd[c]] # "new"

(* What any step but an arrival leaves of that.                               *)
Trail(c) ==
    /\ UNCHANGED <<op, path>>
    /\ \A d \in Calls : op[d] \in RestoreOps => item'[d] = item[d]
    /\ \A d \in Calls : rows'[d] \in {None, rows[d], path[d]}
    /\ pc[c] # "new" /\ pc'[c] # "new"
    /\ \A d \in Calls \ {c} : pc'[d] = pc[d]
    /\ \/ fd'[c] = None
       \/ pc'[c] = "fill" /\ fd'[c] = path[c]
    /\ \A d \in Calls \ {c} :
          \/ fd'[d] \in {None, fd[d]}
          \/ /\ fd[d] # None
             /\ \/ fd'[d] = path[d]
                \/ fd'[d] = c /\ path[c] = path[d]

LEMMA TrailEnough ==
    ASSUME BinInv, Handles, NEW c \in Calls, Trail(c)
    PROVE  Handles'
  BY BinAssumption
  DEF Handles, Trail, BinInv, IInv, TypeOK, ShapeOK, Locs

LEMMA StepTrail ==
    ASSUME BinInv, Handles, NEW c \in Calls, Step(c), ~Arrive(c)
    PROVE  Trail(c)
<1> USE BinAssumption
    DEF BinInv, IInv, TypeOK, ShapeOK, Handles, Trail, Goto, Locs, files, db, args, sweep, Steps,
        SweepSteps, RestoreSteps, InPlaceSteps, RestoreOps, WriteOps, FileOps, PurgeOps, Raised,
        Stowed
<1>1. ASSUME NEW i \in Calls, RmTree(i) PROVE \A d \in Calls : fd'[d] \in {None, fd[d]}
  BY <1>1 DEF RmTree, Orphaned
<1>2. CASE PutCheck(c)
  BY <1>2 DEF PutCheck
<1>3. CASE PutCopy(c) \/ PutCopyFails(c)
  BY <1>3 DEF PutCopy, PutCopyFails
<1>4. CASE Record(c)
  BY <1>4 DEF Record
<1>5. CASE RecordFails(c) \/ Rollback(c) \/ Undone(c)
  BY <1>5, <1>1 DEF RecordFails, Rollback, Undone
<1>6. CASE Rename(c)
  <2>1. /\ UNCHANGED <<rows, op, path, item>>
        /\ \A d \in Calls \ {c} : pc'[d] = pc[d]
        /\ pc[c] \in {"store", "place", "undo"} /\ pc'[c] # "new"
        /\ fd' = Carried(Source(c), Target(c))
    BY <1>6 DEF Rename, Moving, Moved
  <2>2. fd[c] = None /\ fd'[c] = None
    <3>1. fd[c] = None /\ Source(c) # None /\ Target(c) # None
      BY <2>1 DEF Source, Target
    <3> QED
      BY <2>1, <3>1 DEF Carried
  <2>3. ASSUME NEW d \in Calls \ {c}, fd'[d] \notin {None, fd[d]}
        PROVE  fd[d] # None /\ (fd'[d] = path[d] \/ (fd'[d] = c /\ path[c] = path[d]))
    <3>1. fd[d] = Source(c) /\ fd'[d] = Target(c)
      BY <2>1, <2>3 DEF Carried
    <3>2. CASE pc[c] = "store"
      BY <3>1, <3>2 DEF Source, Target
    <3>3. CASE pc[c] = "place"
      BY <3>1, <3>3 DEF Source, Target
    <3>4. CASE pc[c] = "undo"
      BY <3>1, <3>4 DEF Source, Target
    <3> QED
      BY <2>1, <3>2, <3>3, <3>4
  <2> QED
    BY <2>1, <2>2, <2>3
<1>7. CASE MoveCopy(c)
  BY <1>7 DEF MoveCopy, Moving
<1>8. CASE MoveDrop(c)
  BY <1>8 DEF MoveDrop, Dropping, Moved, Orphaned
<1>9. CASE MoveFails(c) \/ DropFails(c)
  <2>1. /\ UNCHANGED <<rows, op, path, item>>
        /\ \A d \in Calls : fd'[d] \in {None, fd[d]}
        /\ pc[c] \in {"store", "storeDrop", "place", "placeDrop", "undo", "undoDrop"}
    BY <1>9 DEF MoveFails, DropFails, Moving, Dropping, Orphaned
  <2>2. pc'[c] # "new" /\ \A d \in Calls \ {c} : pc'[d] = pc[d]
    BY <1>9 DEF MoveFails, DropFails
  <2> QED
    BY <2>1, <2>2
<1>10. CASE InPlace(c)
  <2>1. CASE Open(c)
    BY <2>1 DEF Open
  <2>2. CASE OpenFails(c) \/ FillFails(c)
    BY <2>2 DEF OpenFails, FillFails
  <2>3. CASE Fill(c)
    BY <2>3 DEF Fill
  <2> QED
    BY <1>10, <2>1, <2>2, <2>3 DEF InPlace
<1>11. CASE EndRestore(c)
  BY <1>11, <1>1 DEF EndRestore, Finish, Forget, ForgetFails
<1>12. CASE Tell(c)
  BY <1>12 DEF Tell, Audit, AuditFails
<1>13. CASE \E i \in Calls : PurgeRemove(c, i)
  BY <1>13, <1>1 DEF PurgeRemove
<1>14. CASE \E i \in Calls : PurgeSkip(c, i)
  BY <1>14 DEF PurgeSkip
<1>15. CASE PurgeDelete(c) \/ PurgeCommit(c) \/ PurgeFails(c)
  BY <1>15 DEF PurgeDelete, PurgeCommit, PurgeFails
<1> QED
  BY <1>2, <1>3, <1>4, <1>5, <1>6, <1>7, <1>8, <1>9, <1>10, <1>11, <1>12, <1>13, <1>14, <1>15
  DEF Step, Put, Move, Sweep

(* An arrival opens nothing: a restore works on the path its row names.       *)
LEMMA ArriveHandles ==
    ASSUME BinInv, Handles, NEW c \in Calls, Arrive(c)
    PROVE  Handles'
<1> USE BinAssumption
    DEF BinInv, ListInv, Listed, IInv, TypeOK, ShapeOK, Handles, Goto, Locs, files, db, args, sweep,
        Steps, Before, RestoreOps, FileOps, PurgeOps
<1>1. /\ UNCHANGED <<fd, rows>>
      /\ pc[c] = "new" /\ op[c] = None /\ rows[c] = None /\ fd[c] = None
      /\ \A d \in Calls : fd[d] # c /\ item[d] # c
  BY DEF Arrive, Write, Patch, Delete, Rm, Mkdir, Restore, Purge, Begin
<1>2. \A d \in Calls \ {c} : UNCHANGED <<pc[d], op[d], path[d], item[d]>>
  BY DEF Arrive, Write, Patch, Delete, Rm, Mkdir, Restore, Purge, Begin
<1>3. op'[c] \in RestoreOps => item'[c] \in Calls \ {c} /\ path'[c] = path[item'[c]]
  BY <1>1 DEF Arrive, Write, Patch, Delete, Rm, Mkdir, Restore, Purge, Begin
<1>4. ASSUME NEW d \in Calls
      PROVE  /\ rows'[d] \in {None, path'[d]}
             /\ op'[d] \in RestoreOps => path'[d] = path'[item'[d]]
  <2>1. CASE d = c
    BY <1>1, <1>2, <1>3, <2>1
  <2>2. CASE d # c
    <3>1. op[d] \in RestoreOps => item[d] \in Calls \ {c} /\ path[d] = path[item[d]]
      BY <1>1
    <3> QED
      BY <1>1, <1>2, <2>2, <3>1
  <2> QED
    BY <2>1, <2>2
<1>5. ASSUME NEW d \in Calls
      PROVE  /\ fd'[d] # None => pc'[d] = "fill"
             /\ fd'[d] \in Paths => fd'[d] = path'[d]
             /\ fd'[d] \in Calls => path'[fd'[d]] = path'[d] /\ pc'[fd'[d]] # "new"
  BY <1>1, <1>2
<1> HIDE DEF BinInv, ListInv, Listed, IInv, TypeOK, ShapeOK
<1> QED
  BY <1>4, <1>5

LEMMA HandlesInvariance == Spec => [](BinInv /\ Handles)
<1>1. Init => Handles
  BY BinAssumption DEF Init, Handles, RestoreOps, FileOps, Locs
<1>2. ASSUME BinInv, Handles, [Next]_vars PROVE Handles'
  <2>1. CASE \E c \in Calls : Step(c)
    BY <1>2, <2>1, StepTrail, TrailEnough, ArriveHandles
  <2>2. CASE \E S \in SUBSET Calls : Stop(S) /\ \A c \in S : InFlight(c)
    <3>1. /\ UNCHANGED <<rows, op, path, item>>
          /\ \A c \in Calls : \/ pc'[c] = pc[c] /\ fd'[c] = fd[c]
                              \/ pc'[c] = "killed" /\ fd'[c] = None
      BY <1>2, <2>2 DEF Stop, args, BinInv, IInv, TypeOK
    <3> QED
      BY <1>2, <3>1, BinAssumption DEF Handles, BinInv, IInv, TypeOK, Locs
  <2>3. CASE UNCHANGED vars
    BY <1>2, <2>3 DEF vars, Handles
  <2> QED
    BY <1>2, <2>1, <2>2, <2>3, Cases
<1> QED
  BY <1>1, <1>2, InitLists, NextLists, PTL DEF Spec

(* What a step does to the payload of a recorded item: at most take from it,  *)
(* or write to it through a file that was open before.                        *)
LEMMA FillWrites ==
    ASSUME NEW c \in Calls, Fill(c)
    PROVE  \E w \in BOOLEAN :
             disk' = [l \in Locs |-> IF l = fd[c] THEN [buf[c] EXCEPT !.whole = w /\ buf[c].whole]
                                                  ELSE disk[l]]
  BY DEF Fill

LEMMA PayloadSteps ==
    ASSUME BinInv, Handles, NEW c \in Calls, Step(c), NEW i \in Calls, rows[i] # None
    PROVE  disk'[i] \in Remains(disk[i]) \/ LateWrite(c, i)
<1>1. /\ disk[i] \in Remains(disk[i]) /\ Absent \in Remains(disk[i])
      /\ pc[c] \in Before => c # i
      /\ i \in Locs \ Paths
  <2>1. disk[i] \in Nodes \cup {Absent} /\ i \in Locs
    BY DEF BinInv, IInv, TypeOK, Locs
  <2> QED
    BY <2>1, RemainsLess, BinAssumption DEF BinInv, ListInv, Listed
<1> USE BinAssumption
    DEF BinInv, IInv, TypeOK, ShapeOK, Goto, Locs, files, db, args, sweep, Before, Steps,
        SweepSteps, RestoreSteps, InPlaceSteps, RestoreOps, WriteOps, FileOps, PurgeOps, Raised,
        Stowed
<1>2. ASSUME NEW j \in Calls, RmTree(j) PROVE disk'[i] \in Remains(disk[i])
  BY <1>1, <1>2, RmTreeLeaves
<1>3. CASE Arrive(c)
  BY <1>1, <1>3 DEF Arrive, Write, Patch, Delete, Rm, Mkdir, Restore, Purge, Begin
<1>4. CASE Put(c)
  BY <1>1, <1>2, <1>4
  DEF Put, PutCheck, PutCopy, PutCopyFails, Record, RecordFails, Rollback, Undone
<1>5. CASE Move(c)
  <2>1. CASE Rename(c)
    <3>1. /\ Source(c) = i => disk'[i] = Absent
          /\ Source(c) # i /\ Target(c) # i => disk'[i] = disk[i]
      BY <1>1, <2>1 DEF Rename
    <3>2. Target(c) # i
      BY <1>1, <2>1 DEF Rename, Moving, Target
    <3> QED
      BY <1>1, <3>1, <3>2
  <2>2. CASE MoveCopy(c)
    BY <1>1, <2>2 DEF MoveCopy, Moving, Target
  <2>3. CASE MoveDrop(c)
    BY <1>1, <2>3 DEF MoveDrop
  <2>4. CASE MoveFails(c)
    BY <1>1, <2>4 DEF MoveFails, Moving, Target
  <2>5. CASE DropFails(c)
    BY <1>1, <2>5 DEF DropFails
  <2> QED
    BY <1>5, <2>1, <2>2, <2>3, <2>4, <2>5 DEF Move
<1>6. CASE Open(c) \/ OpenFails(c) \/ FillFails(c)
  BY <1>1, <1>6 DEF Open, OpenFails, FillFails
<1>7. CASE Fill(c)
  <2>1. CASE fd[c] # i
    BY <1>1, <1>7, <2>1 DEF Fill
  <2>2. CASE fd[c] = i
    <3>1. path[c] = path[i] /\ buf[c] \in Nodes /\ pc[c] = "fill" /\ pc'[c] # "fill"
      BY <1>7, <2>2 DEF Handles, Fill
    <3>2. PICK w \in BOOLEAN :
            disk' = [l \in Locs |-> IF l = fd[c] THEN [buf[c] EXCEPT !.whole = w /\ buf[c].whole]
                                                 ELSE disk[l]]
      BY <1>7, FillWrites
    <3>3. disk'[i] = [buf[c] EXCEPT !.whole = w /\ buf[c].whole]
      BY <1>1, <2>2, <3>2
    <3>4. disk'[i].ver = buf[c].ver
      BY <3>1, <3>3 DEF Nodes
    <3> QED
      BY <2>2, <3>1, <3>4 DEF LateWrite
  <2> QED
    BY <2>1, <2>2
<1>8. CASE EndRestore(c)
  BY <1>1, <1>2, <1>8 DEF EndRestore, Finish, Forget, ForgetFails
<1>9. CASE Tell(c)
  BY <1>1, <1>9 DEF Tell, Audit, AuditFails
<1>10. CASE Sweep(c)
  BY <1>1, <1>2, <1>10 DEF Sweep, PurgeSkip, PurgeRemove, PurgeDelete, PurgeCommit, PurgeFails
<1> QED
  BY <1>3, <1>4, <1>5, <1>6, <1>7, <1>8, <1>9, <1>10 DEF Step, InPlace

(* Nobody opens a recorded payload, whatever the calls do to one path: it is  *)
(* removed, or a write that had the file open when it was moved goes on into  *)
(* it, and the latter not when calls on one path take turns.                  *)
THEOREM PayloadsStable == Spec => PayloadStable
<1>1. ASSUME BinInv, Handles, [Next]_vars, NEW i \in Calls, rows[i] # None
      PROVE  disk'[i] \in Remains(disk[i]) \/ \E c \in Calls : LateWrite(c, i)
  <2>1. disk[i] \in Remains(disk[i])
    BY <1>1, RemainsLess DEF BinInv, IInv, TypeOK, Locs
  <2> QED
    BY <1>1, <2>1, Cases, PayloadSteps DEF Stop, vars
<1>2. ASSUME SerialInv, [Next]_vars, NEW i \in Calls, rows[i] # None
      PROVE  disk'[i] \in Remains(disk[i])
  <2>1. disk[i] \in Remains(disk[i]) /\ pc[i] \notin Before
    BY <1>2, RemainsLess DEF SerialInv, BinInv, ListInv, Listed, IInv, TypeOK, Locs
  <2>2. ASSUME NEW c \in Calls, Step(c) PROVE disk'[i] \in Remains(disk[i])
    BY <1>2, <2>1, <2>2, StepKeeps DEF Footprint
  <2> QED
    BY <1>2, <2>1, <2>2, Cases DEF SerialInv, Stop, vars
<1>3. OnePerPath /\ Spec => PayloadStable
  <2>1. SerialInv /\ [Next]_vars =>
          [\A i \in Calls : rows[i] # None =>
              \/ disk'[i] \in Remains(disk[i])
              \/ ~OnePerPath /\ \E c \in Calls : LateWrite(c, i)]_vars
    BY <1>2
  <2> QED
    BY <2>1, Serial, PTL DEF Spec, PayloadStable
<1>4. ASSUME ~OnePerPath PROVE Spec => PayloadStable
  <2>1. BinInv /\ Handles /\ [Next]_vars =>
          [\A i \in Calls : rows[i] # None =>
              \/ disk'[i] \in Remains(disk[i])
              \/ ~OnePerPath /\ \E c \in Calls : LateWrite(c, i)]_vars
    BY <1>1, <1>4
  <2> QED
    BY <2>1, HandlesInvariance, PTL DEF Spec, PayloadStable
<1> QED
  BY <1>3, <1>4
=============================================================================
