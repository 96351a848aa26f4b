----------------------------- MODULE RecycleBin -----------------------------
(* The recycle bin behind every mutating file tool of the gateway, and the    *)
(* rm wrapper (src/sag/trash.py, src/sag/tools.py).  Each call runs in a      *)
(* thread or a process of its own and no lock covers a path, so a call is a   *)
(* sequence of steps that other calls, the purge and a crash may interleave.  *)
(*                                                                            *)
(* A call is used once.  The bin item it creates (one uuid per trash_put) and *)
(* the content it writes are named after the call; what a path held at the    *)
(* start is named after the path.                                             *)
EXTENDS FiniteSets

CONSTANTS
    Paths,      \* resolved paths the calls work on
    Protected,  \* those under the gateway's data directory, or its .env
    Remote,     \* those on another filesystem than the bin: rename says EXDEV
    Calls,      \* the calls of the behaviour (bounds its length)
    Ops,        \* the operations the calls may be
    OnePerPath, \* TRUE: no two file calls in flight on one path
    Absent,     \* nothing at a location
    None        \* null

Locs == Paths \cup Calls  \* a path, or the payload of a bin item

(* A file or directory: which content it holds, and whether all of it.        *)
Nodes == [kind : {"file", "dir"}, ver : Locs, whole : BOOLEAN]

FileOps == {"write", "patch", "delete", "rm", "rm_f", "restore", "restore_over", "mkdir"}
PurgeOps == {"purge", "purge_cli"}
(* Operations that run in a process of their own, not in the gateway.         *)
OwnProcess == {"rm", "rm_f", "purge_cli"}

(* "ignored": rm -f met an exception of trash_put, said nothing and exits 0.  *)
Ended == {"ok", "failed", "ignored", "killed"}
Steps == {"put", "store", "storeDrop", "record", "rollback", "undo", "undoDrop",
          "undone", "open", "fill", "place", "placeDrop", "finish", "forget",
          "audit", "purge", "purgeDel"}

ASSUME BinAssumption ==
    /\ Protected \subseteq Paths
    /\ Remote \subseteq Paths
    /\ Paths \cap Calls = {}
    /\ None \notin Locs \cup FileOps \cup PurgeOps
    /\ Absent \notin Nodes
    /\ Ops \subseteq FileOps \cup PurgeOps
    /\ OnePerPath \in BOOLEAN

VARIABLES
    disk,  \* what is at every location
    dirs,  \* bin directories trash/<id> that exist
    rows,  \* trash_items: the original_path of every recorded item
    lock,  \* the call whose open transaction holds SQLite's write lock
    pc,    \* where every call is
    op,    \* which operation it is
    path,  \* its target
    item,  \* the bin item a restore or a purge is working on
    keep,  \* its trash_put copies (keep=True) instead of moving
    buf,   \* what it is about to write in place
    fd,    \* where the file it has open for writing is now
    picked, \* rows a purge selected
    todo,  \* those it has still to visit
    gone,  \* rows a purge has deleted in its open transaction
    was    \* history: what its target held when the call looked first

files == <<disk, dirs, fd>>
db == <<rows, lock>>
args == <<op, path, item, keep, buf, was>>
sweep == <<picked, todo, gone>>
vars == <<disk, dirs, fd, rows, lock, pc, op, path, item, keep, buf, was, picked, todo, gone>>

-----------------------------------------------------------------------------
InFlight(c) == pc[c] \in Steps

Exists(l) == disk[l] # Absent
IsFile(l) == Exists(l) /\ disk[l].kind = "file"
IsDir(l) == Exists(l) /\ disk[l].kind = "dir"

Goto(c, from, to) == pc[c] = from /\ pc' = [pc EXCEPT ![c] = to]

(* How a call ends that an exception of trash_put reaches.                    *)
Raised(c) == IF op[c] = "rm_f" THEN "ignored" ELSE "failed"

(* What an interrupted removal may leave of a node.                           *)
Remains(n) == {n, Absent} \cup
    (IF n # Absent /\ n.kind = "dir" THEN {[n EXCEPT !.whole = FALSE]} ELSE {})

(* Files open for writing follow their file: a rename carries them along, and *)
(* one whose file is unlinked or replaced writes nowhere.                     *)
Carried(from, to) == [c \in Calls |->
    IF fd[c] = from THEN to ELSE IF fd[c] = to THEN None ELSE fd[c]]
Orphaned(l) == [c \in Calls |-> IF fd[c] = l THEN None ELSE fd[c]]

(* shutil.rmtree(trash/<i>, ignore_errors=True): all of it, or what it could. *)
RmTree(i) ==
    \/ /\ disk' = [disk EXCEPT ![i] = Absent]
       /\ dirs' = dirs \ {i}
       /\ fd' = Orphaned(i)
    \/ /\ \E n \in Remains(disk[i]) :
            /\ disk' = [disk EXCEPT ![i] = n]
            /\ fd' = IF n = Absent THEN Orphaned(i) ELSE fd
       /\ UNCHANGED dirs

-----------------------------------------------------------------------------
Init ==
    /\ \E there \in SUBSET Paths, kind \in [Paths -> {"file", "dir"}] :
         disk = [l \in Locs |-> IF l \in there
                                THEN [kind |-> kind[l], ver |-> l, whole |-> TRUE]
                                ELSE Absent]
    /\ dirs = {}
    /\ rows = [c \in Calls |-> None]
    /\ lock = None
    /\ pc = [c \in Calls |-> "new"]
    /\ op = [c \in Calls |-> None]
    /\ path = [c \in Calls |-> None]
    /\ item = [c \in Calls |-> None]
    /\ keep = [c \in Calls |-> FALSE]
    /\ buf = [c \in Calls |-> Absent]
    /\ fd = [c \in Calls |-> None]
    /\ picked = [c \in Calls |-> {}]
    /\ todo = [c \in Calls |-> {}]
    /\ gone = [c \in Calls |-> {}]
    /\ was = [c \in Calls |-> Absent]

-----------------------------------------------------------------------------
(* Arrival of a call: the checks it makes before it changes anything.         *)

Begin(c, o, p, next) ==
    /\ o \in Ops
    /\ OnePerPath => \A d \in Calls : InFlight(d) => path[d] # p
    /\ Goto(c, "new", next)
    /\ op' = [op EXCEPT ![c] = o]
    /\ path' = [path EXCEPT ![c] = p]
    /\ was' = [was EXCEPT ![c] = disk[p]]
    /\ UNCHANGED <<rows, lock, fd, sweep>>

(* hub_write_file: protection, then whether there is a version to keep.       *)
Write(c, p) ==
    /\ Begin(c, "write", p, IF p \in Protected THEN "failed"
                            ELSE IF Exists(p) THEN "put" ELSE "open")
    /\ keep' = [keep EXCEPT ![c] = TRUE]
    /\ buf' = [buf EXCEPT ![c] = [kind |-> "file", ver |-> c, whole |-> TRUE]]
    /\ UNCHANGED <<disk, dirs, item>>

(* hub_patch_file: the file must be there; its text is read here, once.       *)
Patch(c, p) ==
    /\ Begin(c, "patch", p, IF p \notin Protected /\ IsFile(p) THEN "put" ELSE "failed")
    /\ keep' = [keep EXCEPT ![c] = TRUE]
    /\ buf' = [buf EXCEPT ![c] = [kind |-> "file", ver |-> c, whole |-> TRUE]]
    /\ UNCHANGED <<disk, dirs, item>>

(* hub_delete_file, one path.                                                 *)
Delete(c, p) ==
    /\ Begin(c, "delete", p, IF p \notin Protected /\ Exists(p) THEN "put" ELSE "failed")
    /\ UNCHANGED <<disk, dirs, item, keep, buf>>

(* The rm wrapper, one operand: rm -f does not mind one that is not there,    *)
(* and protection is left to trash_put.                                       *)
Rm(c, p, recursive, force) ==
    /\ Begin(c, IF force THEN "rm_f" ELSE "rm", p,
             IF IsFile(p) \/ (IsDir(p) /\ recursive) THEN "put"
             ELSE IF force /\ ~Exists(p) THEN "ok" ELSE "failed")
    /\ UNCHANGED <<disk, dirs, item, keep, buf>>

(* hub_mkdir.                                                                 *)
Mkdir(c, p) ==
    LET made == p \notin Protected /\ ~Exists(p) IN
    /\ Begin(c, "mkdir", p, IF made \/ (p \notin Protected /\ IsDir(p)) THEN "audit" ELSE "failed")
    /\ disk' = IF made
               THEN [disk EXCEPT ![p] = [kind |-> "dir", ver |-> c, whole |-> TRUE]]
               ELSE disk
    /\ UNCHANGED <<dirs, item, keep, buf>>

(* hub_restore_file: the row, the payload and the destination are looked at;  *)
(* overwriting displaces what is there, by a copy when both are files.        *)
Restore(c, i, over) ==
    LET p == rows[i]
        inPlace == IsFile(p) /\ IsFile(i)
    IN /\ p # None
       /\ Begin(c, IF over THEN "restore_over" ELSE "restore", p,
                IF ~Exists(i) THEN "failed"
                ELSE IF ~Exists(p) THEN "place"
                ELSE IF over THEN "put" ELSE "failed")
       /\ item' = [item EXCEPT ![c] = i]
       /\ keep' = [keep EXCEPT ![c] = over /\ inPlace]
       /\ UNCHANGED <<disk, dirs, buf>>

-----------------------------------------------------------------------------
(* trash_put: check, store the payload, record it, or undo.                   *)

(* Mutant: trash_put trusts its callers and checks no protection.             *)
PutCheckTrusting(c) ==
    LET refused == ~Exists(path[c]) \/ (keep[c] /\ IsDir(path[c])) IN
    /\ Goto(c, "put", IF refused THEN Raised(c) ELSE "store")
    /\ dirs' = IF refused THEN dirs ELSE dirs \cup {c}
    /\ UNCHANGED <<disk, fd, db, args, sweep>>

(* rm -f reports that a path is protected, and nothing else.                  *)
PutCheck(c) ==
    LET p == path[c]
        refused == ~Exists(p) \/ p \in Protected \/ (keep[c] /\ IsDir(p))
    IN /\ Goto(c, "put", IF ~refused THEN "store"
                         ELSE IF Exists(p) /\ p \in Protected THEN "failed" ELSE Raised(c))
       /\ dirs' = IF refused THEN dirs ELSE dirs \cup {c}
       /\ UNCHANGED <<disk, fd, db, args, sweep>>

(* keep=True: copy2 of a regular file.                                        *)
PutCopy(c) ==
    /\ keep[c]
    /\ IsFile(path[c])
    /\ Goto(c, "store", "record")
    /\ disk' = [disk EXCEPT ![c] = disk[path[c]]]
    /\ UNCHANGED <<dirs, fd, db, args, sweep>>

(* The copy fails: before it wrote anything, when the directory is removed    *)
(* again, or (disk full) part of the way, when the partial payload stays.     *)
PutCopyFails(c) ==
    /\ keep[c]
    /\ Goto(c, "store", "failed")
    /\ \/ /\ dirs' = dirs \ {c}
          /\ UNCHANGED disk
       \/ /\ IsFile(path[c])
          /\ disk' = [disk EXCEPT ![c] = [disk[path[c]] EXCEPT !.whole = FALSE]]
          /\ UNCHANGED dirs
    /\ UNCHANGED <<fd, db, args, sweep>>

(* Mutant: two columns of the INSERT are swapped.                             *)
RecordSwapped(c) ==
    /\ lock = None
    /\ Goto(c, "record", "ok")
    /\ rows' = [rows EXCEPT ![c] = c]
    /\ UNCHANGED <<files, lock, args, sweep>>

(* Where a call goes on when trash_put has returned.                          *)
Stowed(c) == CASE op[c] \in {"write", "patch"} -> "open"
               [] op[c] = "delete" -> "audit"
               [] op[c] \in {"rm", "rm_f"} -> "ok"
               [] OTHER -> IF keep[c] THEN "open" ELSE "place"

(* meta.json, then INSERT and commit, as one transaction.                     *)
Record(c) ==
    /\ lock = None
    /\ Goto(c, "record", Stowed(c))
    /\ rows' = [rows EXCEPT ![c] = path[c]]
    /\ UNCHANGED <<files, lock, args, sweep>>

(* Mutant: the error of the INSERT is swallowed.                              *)
RecordSwallowed(c) ==
    /\ Goto(c, "record", Stowed(c))
    /\ UNCHANGED <<files, db, args, sweep>>

(* Disk full, or the write lock was not free within the busy timeout.         *)
RecordFails(c) ==
    /\ Goto(c, "record", "rollback")
    /\ UNCHANGED <<files, db, args, sweep>>

(* Mutant: there is no undo.                                                  *)
RollbackOmitted(c) ==
    /\ Goto(c, "rollback", Raised(c))
    /\ UNCHANGED <<files, db, args, sweep>>

(* The undo: a copy is dropped; a moved payload goes back if its place is     *)
(* still free, else it stays in the bin, unrecorded.                          *)
Rollback(c) ==
    \/ /\ keep[c]
       /\ Goto(c, "rollback", "failed")
       /\ RmTree(c)
       /\ UNCHANGED <<db, args, sweep>>
    \/ /\ ~keep[c]
       /\ Goto(c, "rollback", IF Exists(path[c]) THEN Raised(c) ELSE "undo")
       /\ UNCHANGED <<files, db, args, sweep>>

Undone(c) ==
    /\ Goto(c, "undone", Raised(c))
    /\ RmTree(c)
    /\ UNCHANGED <<db, args, sweep>>

-----------------------------------------------------------------------------
(* _move, from where it is called: store (target -> payload), place (payload  *)
(* -> destination) and undo (payload -> target).                              *)

Source(c) == CASE pc[c] \in {"store", "storeDrop"} -> path[c]
               [] pc[c] \in {"place", "placeDrop"} -> item[c]
               [] OTHER -> c
Target(c) == IF pc[c] \in {"store", "storeDrop"} THEN c ELSE path[c]

Moving(c) == (pc[c] = "store" /\ ~keep[c]) \/ pc[c] \in {"place", "undo"}
Dropping(c) == pc[c] \in {"storeDrop", "placeDrop", "undoDrop"}

Moved(c) == CASE pc[c] \in {"store", "storeDrop"} -> "record"
              [] pc[c] \in {"place", "placeDrop"} -> "finish"
              [] OTHER -> "undone"

(* os.rename replaces a file by a file; it refuses to replace a directory, or *)
(* anything by a directory.                                                   *)
Rename(c) ==
    LET s == Source(c)
        t == Target(c)
    IN /\ Moving(c)
       /\ path[c] \notin Remote
       /\ Exists(s)
       /\ Exists(t) => IsFile(s) /\ IsFile(t)
       /\ disk' = [disk EXCEPT ![t] = disk[s], ![s] = Absent]
       /\ fd' = Carried(s, t)
       /\ pc' = [pc EXCEPT ![c] = Moved(c)]
       /\ UNCHANGED <<dirs, db, args, sweep>>

(* EXDEV: copy first; a file is written over an existing one.                 *)
MoveCopy(c) ==
    LET s == Source(c)
        t == Target(c)
    IN /\ Moving(c)
       /\ path[c] \in Remote
       /\ Exists(s)
       /\ Exists(t) => IsFile(s) /\ IsFile(t)
       /\ disk' = [disk EXCEPT ![t] = disk[s]]
       /\ pc' = [pc EXCEPT ![c] = CASE pc[c] = "store" -> "storeDrop"
                                    [] pc[c] = "place" -> "placeDrop"
                                    [] OTHER -> "undoDrop"]
       /\ UNCHANGED <<dirs, fd, db, args, sweep>>

(* ... then the source is removed.                                            *)
MoveDrop(c) ==
    /\ Dropping(c)
    /\ disk' = [disk EXCEPT ![Source(c)] = Absent]
    /\ fd' = Orphaned(Source(c))
    /\ pc' = [pc EXCEPT ![c] = Moved(c)]
    /\ UNCHANGED <<dirs, db, args, sweep>>

(* Mutant: a failed copy removes its source instead of its partial target.    *)
MoveFailsSwapped(c) ==
    /\ Moving(c)
    /\ disk' = [disk EXCEPT ![Source(c)] = Absent]
    /\ pc' = [pc EXCEPT ![c] = "failed"]
    /\ UNCHANGED <<dirs, fd, db, args, sweep>>

(* The move raises.  A failed copy removes whatever is at its target; the     *)
(* caller removes an empty bin directory of its own.                          *)
MoveFails(c) ==
    LET t == Target(c)
        emptied == path[c] \in Remote /\ Exists(Source(c))
    IN /\ Moving(c)
       /\ disk' = IF emptied THEN [disk EXCEPT ![t] = Absent] ELSE disk
       /\ fd' = IF emptied THEN Orphaned(t) ELSE fd
       /\ dirs' = IF pc[c] = "store" THEN dirs \ {c} ELSE dirs
       /\ pc' = [pc EXCEPT ![c] = Raised(c)]
       /\ UNCHANGED <<db, args, sweep>>

(* The source could not be removed, or not all of it.                         *)
DropFails(c) ==
    LET s == Source(c) IN
    /\ Dropping(c)
    /\ \E n \in Remains(disk[s]) \ {Absent} : disk' = [disk EXCEPT ![s] = n]
    /\ pc' = [pc EXCEPT ![c] = Raised(c)]
    /\ UNCHANGED <<dirs, fd, db, args, sweep>>

-----------------------------------------------------------------------------
(* write_text and copyfile: open for writing truncates, then the bytes go in. *)

(* What is written in place: the call's own text, or the payload as it is now.*)
Text(c) == IF op[c] \in {"write", "patch"} THEN buf[c] ELSE disk[item[c]]

(* Mutant: the arguments of copyfile are swapped.                             *)
OpenSwapped(c) ==
    LET t == IF op[c] \in {"write", "patch"} THEN path[c] ELSE item[c] IN
    /\ Goto(c, "open", "fill")
    /\ IsFile(t)
    /\ disk' = [disk EXCEPT ![t] = [@ EXCEPT !.whole = FALSE]]
    /\ buf' = [buf EXCEPT ![c] = IF op[c] \in {"write", "patch"} THEN @ ELSE disk[path[c]]]
    /\ fd' = [fd EXCEPT ![c] = t]
    /\ UNCHANGED <<dirs, db, op, path, item, keep, was, sweep>>

Open(c) ==
    LET p == path[c] IN
    /\ Goto(c, "open", "fill")
    /\ ~IsDir(p)
    /\ Text(c) # Absent
    /\ Text(c).kind = "file"
    /\ buf' = [buf EXCEPT ![c] = Text(c)]
    /\ disk' = [disk EXCEPT ![p] = [Text(c) EXCEPT !.whole = FALSE]]
    /\ fd' = [fd EXCEPT ![c] = p]
    /\ UNCHANGED <<dirs, db, op, path, item, keep, was, sweep>>

OpenFails(c) ==
    /\ Goto(c, "open", "failed")
    /\ UNCHANGED <<files, db, args, sweep>>

(* Of two texts written to one file at a time, the second may leave a tail of *)
(* the first.                                                                 *)
Fill(c) ==
    LET clean == fd[c] # None /\ Exists(fd[c]) /\ disk[fd[c]].ver = buf[c].ver IN
    /\ Goto(c, "fill", IF op[c] \in {"write", "patch"} THEN "audit" ELSE "finish")
    /\ \E whole \in IF clean THEN {TRUE} ELSE BOOLEAN :
         disk' = [l \in Locs |-> IF l = fd[c]
                                 THEN [buf[c] EXCEPT !.whole = whole /\ buf[c].whole]
                                 ELSE disk[l]]
    /\ fd' = [fd EXCEPT ![c] = None]
    /\ UNCHANGED <<dirs, db, args, sweep>>

(* Disk full: the truncated file stays.                                       *)
FillFails(c) ==
    /\ Goto(c, "fill", "failed")
    /\ fd' = [fd EXCEPT ![c] = None]
    /\ UNCHANGED <<disk, dirs, db, args, sweep>>

-----------------------------------------------------------------------------
(* _finish_restore: the bin directory, then the row.                          *)

Finish(c) ==
    /\ Goto(c, "finish", "forget")
    /\ RmTree(item[c])
    /\ UNCHANGED <<db, args, sweep>>

Forget(c) ==
    /\ lock = None
    /\ Goto(c, "forget", "audit")
    /\ rows' = [rows EXCEPT ![item[c]] = None]
    /\ UNCHANGED <<files, lock, args, sweep>>

(* Mutant: a row that could not be deleted is not reported.                   *)
ForgetSwallowed(c) ==
    /\ Goto(c, "forget", "audit")
    /\ UNCHANGED <<files, db, args, sweep>>

ForgetFails(c) ==
    /\ Goto(c, "forget", "failed")
    /\ UNCHANGED <<files, db, args, sweep>>

-----------------------------------------------------------------------------
(* The audit row of a tool comes last, when its effect is there: without it   *)
(* the caller is told of an error.  (The rows of a refusal change nothing     *)
(* here: the call ends the same whether they are written or not.)             *)

Audit(c) ==
    /\ lock = None
    /\ Goto(c, "audit", "ok")
    /\ UNCHANGED <<files, db, args, sweep>>

AuditFails(c) ==
    /\ Goto(c, "audit", "failed")
    /\ UNCHANGED <<files, db, args, sweep>>

-----------------------------------------------------------------------------
(* purge_expired_trash and the root CLI's purge_trash_items: one transaction, *)
(* opened by its first DELETE, over the rows selected.  Which rows have       *)
(* expired, or match the operator's filter, is left open.                     *)

Purge(c, o, chosen) ==
    /\ o \in Ops \cap PurgeOps
    /\ chosen # {}
    /\ \A i \in chosen : rows[i] # None
    /\ Goto(c, "new", "purge")
    /\ op' = [op EXCEPT ![c] = o]
    /\ picked' = [picked EXCEPT ![c] = chosen]
    /\ todo' = [todo EXCEPT ![c] = chosen]
    /\ UNCHANGED <<files, db, path, item, keep, buf, was, gone>>

(* The CLI reads each row again before it removes the payload.                *)
PurgeSkip(c, i) ==
    /\ pc[c] = "purge"
    /\ op[c] = "purge_cli"
    /\ i \in todo[c]
    /\ rows[i] = None
    /\ todo' = [todo EXCEPT ![c] = @ \ {i}]
    /\ UNCHANGED <<files, db, pc, args, picked, gone>>

(* Mutant: the row goes even if the directory could not be removed.           *)
PurgeRemoveBlind(c, i) ==
    /\ pc[c] = "purge"
    /\ i \in todo[c]
    /\ RmTree(i)
    /\ todo' = [todo EXCEPT ![c] = @ \ {i}]
    /\ item' = [item EXCEPT ![c] = i]
    /\ pc' = [pc EXCEPT ![c] = "purgeDel"]
    /\ UNCHANGED <<db, op, path, keep, buf, was, picked, gone>>

PurgeRemove(c, i) ==
    /\ pc[c] = "purge"
    /\ i \in todo[c]
    /\ op[c] = "purge_cli" => rows[i] # None
    /\ RmTree(i)
    /\ todo' = [todo EXCEPT ![c] = @ \ {i}]
    /\ item' = [item EXCEPT ![c] = i]
    /\ pc' = [pc EXCEPT ![c] = IF i \in dirs' THEN "purge" ELSE "purgeDel"]
    /\ UNCHANGED <<db, op, path, keep, buf, was, picked, gone>>

PurgeDelete(c) ==
    /\ lock \in {None, c}
    /\ Goto(c, "purgeDel", "purge")
    /\ lock' = c
    /\ gone' = [gone EXCEPT ![c] = @ \cup {item[c]}]
    /\ UNCHANGED <<files, rows, args, picked, todo>>

PurgeCommit(c) ==
    /\ todo[c] = {}
    /\ Goto(c, "purge", "ok")
    /\ rows' = [i \in Calls |-> IF i \in gone[c] THEN None ELSE rows[i]]
    /\ lock' = IF lock = c THEN None ELSE lock
    /\ UNCHANGED <<files, args, sweep>>

(* A statement or the commit fails: the connection closes, nothing is deleted.*)
PurgeFails(c) ==
    /\ pc[c] = "purgeDel" \/ (pc[c] = "purge" /\ todo[c] = {})
    /\ pc' = [pc EXCEPT ![c] = "failed"]
    /\ lock' = IF lock = c THEN None ELSE lock
    /\ UNCHANGED <<files, rows, args, sweep>>

-----------------------------------------------------------------------------
(* The gateway dies: so do all its calls, and SQLite rolls back.  The rm      *)
(* wrapper and the CLI are killed one by one (hub_shell's timeout, ^C).       *)

Stop(S) ==
    /\ S # {}
    /\ pc' = [c \in Calls |-> IF c \in S THEN "killed" ELSE pc[c]]
    /\ fd' = [c \in Calls |-> IF c \in S THEN None ELSE fd[c]]
    /\ lock' = IF lock \in S THEN None ELSE lock
    /\ UNCHANGED <<disk, dirs, rows, args, sweep>>

Crash == Stop({c \in Calls : InFlight(c) /\ op[c] \notin OwnProcess})

Kill(c) == op[c] \in OwnProcess /\ InFlight(c) /\ Stop({c})

-----------------------------------------------------------------------------
Arrive(c) ==
    \/ \E p \in Paths : \/ Write(c, p)
                        \/ Patch(c, p)
                        \/ Delete(c, p)
                        \/ \E recursive, force \in BOOLEAN : Rm(c, p, recursive, force)
                        \/ Mkdir(c, p)
    \/ \E i \in Calls, over \in BOOLEAN : Restore(c, i, over)
    \/ \E o \in PurgeOps, chosen \in SUBSET Calls : Purge(c, o, chosen)

Put(c) == PutCheck(c) \/ PutCopy(c) \/ PutCopyFails(c) \/ Record(c) \/ RecordFails(c)
          \/ Rollback(c) \/ Undone(c)
Move(c) == Rename(c) \/ MoveCopy(c) \/ MoveDrop(c) \/ MoveFails(c) \/ DropFails(c)
InPlace(c) == Open(c) \/ OpenFails(c) \/ Fill(c) \/ FillFails(c)
EndRestore(c) == Finish(c) \/ Forget(c) \/ ForgetFails(c)
Tell(c) == Audit(c) \/ AuditFails(c)
Sweep(c) == (\E i \in Calls : PurgeSkip(c, i) \/ PurgeRemove(c, i))
            \/ PurgeDelete(c) \/ PurgeCommit(c) \/ PurgeFails(c)

Next ==
    \/ \E c \in Calls : \/ Arrive(c) \/ Put(c) \/ Move(c) \/ InPlace(c)
                        \/ EndRestore(c) \/ Tell(c) \/ Sweep(c) \/ Kill(c)
    \/ Crash

Spec == Init /\ [][Next]_vars
-----------------------------------------------------------------------------
(* Properties.                                                                *)

(* Every variable has its type: a row names a path, and an open file a        *)
(* location.                                                                  *)
TypeOK ==
    /\ disk \in [Locs -> Nodes \cup {Absent}]
    /\ dirs \subseteq Calls
    /\ rows \in [Calls -> Paths \cup {None}]
    /\ lock \in Calls \cup {None}
    /\ pc \in [Calls -> {"new"} \cup Steps \cup Ended]
    /\ op \in [Calls -> FileOps \cup PurgeOps \cup {None}]
    /\ path \in [Calls -> Paths \cup {None}]
    /\ item \in [Calls -> Calls \cup {None}]
    /\ keep \in [Calls -> BOOLEAN]
    /\ buf \in [Calls -> Nodes \cup {Absent}]
    /\ fd \in [Calls -> Locs \cup {None}]
    /\ picked \in [Calls -> SUBSET Calls]
    /\ todo \in [Calls -> SUBSET Calls]
    /\ gone \in [Calls -> SUBSET Calls]
    /\ was \in [Calls -> Nodes \cup {Absent}]

(* Some call has set out to restore or to purge item i.                       *)
Taken(i) == \E c \in Calls : item[c] = i \/ i \in picked[c]

(* What a protected path holds never changes, whatever the calls: restore and *)
(* the rm front-end make no check of their own and lean on trash_put's        *)
(* (trash.py:128) and on what the rows can name.                              *)
ProtectedUntouched == [][\A p \in Protected : disk'[p] = disk[p]]_vars

(* A row whose bin directory is gone belongs to a restore or a purge that is  *)
(* not through, or that failed or was killed: never to one that finished its  *)
(* work, said ok or has only its audit row to write.                          *)
RowHasPayload ==
    \A i \in Calls : rows[i] # None /\ i \notin dirs =>
        \E c \in Calls : /\ pc[c] \notin {"audit", "ok"}
                         /\ item[c] = i \/ i \in gone[c]

(* A bin directory that no row points to belongs to a put that is not through,*)
(* raised or was killed, or to a restore of its item: purging leaves none     *)
(* (it keeps the row of a directory it could not remove, trash.py:270).       *)
DirHasOwner ==
    \A i \in dirs : rows[i] = None =>
        \/ pc[i] \notin {"audit", "ok"}
        \/ \E c \in Calls : item[c] = i /\ op[c] \in {"restore", "restore_over"}

(* A content that was whole somewhere, under a path or in the bin, is whole   *)
(* somewhere after every step, unless a purge took a bin item that held it:   *)
(* no crash, failed copy, refused row or interrupted write destroys the last  *)
(* copy of anything.                                                          *)
Stored(v) == \E l \in Locs : Exists(l) /\ disk[l].ver = v /\ disk[l].whole
Purged(v) == \E i, c \in Calls : /\ was[i] # Absent
                                 /\ was[i].ver = v
                                 /\ i \in picked[c]
NoSilentLoss ==
    [][\A v \in Locs : Stored(v) => Stored(v)' \/ Purged(v)]_vars

(* What a call replaced or deleted is recorded in the bin, unchanged, from    *)
(* before the first byte is overwritten until a restore or a purge takes it:  *)
(* of every call that is past trash_put or said ok.  An rm -f that swallowed  *)
(* an exception of trash_put exits 0 too, without a row: what holds of it is  *)
(* said by ErrorIsTrue.                                                       *)
Undoable ==
    \A c \in Calls :
        /\ op[c] \in {"write", "patch", "delete", "rm", "rm_f", "restore_over"}
        /\ was[c] # Absent
        /\ pc[c] \in {"fill", "finish", "forget", "audit", "ok"}
        => (rows[c] = path[c] /\ disk[c] = was[c]) \/ Taken(c)

(* "So the caller's error is true and the file is still where it was"         *)
(* (trash.py:188): a write or a delete that fails, or an rm -f that ignores a *)
(* failure and exits 0, leaves its target as it found it, but for             *)
(*  - an error after the effect, of the writing itself or of the audit row    *)
(*    (tools.py:437, 498, 556): then what it replaced is recorded in the bin; *)
(*  - a source that was copied across devices and not removed, or an undo     *)
(*    that failed: then the bin holds it whole, though no row says so.        *)
ErrorIsTrue ==
    [][\A c \in Calls :
          /\ op[c] \in {"write", "patch", "delete", "rm", "rm_f"}
          /\ pc[c] # pc'[c]
          /\ pc'[c] \in {"failed", "ignored"}
          => \/ disk'[path[c]] = was[c]
             \/ /\ pc[c] \in {"fill", "audit"}
                /\ was[c] = Absent \/ Taken(c) \/ (rows'[c] = path[c] /\ disk'[c] = was[c])
             \/ pc[c] \in {"storeDrop", "undo"} /\ disk'[c] = was[c]]_vars

(* Nobody opens the payload of a recorded item: it only ever shrinks to       *)
(* nothing, unless a write had the file open when another call on its path    *)
(* moved it (os.rename, trash.py:91) and goes on into what is now the payload.*)
(* With one file call per path in flight not even that.                       *)
LateWrite(c, i) ==
    /\ pc[c] = "fill" /\ pc'[c] # "fill"
    /\ fd[c] = i
    /\ path[c] = path[i]
    /\ disk'[i].ver = buf[c].ver
PayloadStable ==
    [][\A i \in Calls : rows[i] # None =>
          \/ disk'[i] \in Remains(disk[i])
          \/ ~OnePerPath /\ \E c \in Calls : LateWrite(c, i)]_vars

(* "If something is there already this fails" (trash.py:217): restoring       *)
(* without overwrite never replaces what is at the destination.               *)
RestoreKeepsWhatIsThere ==
    [][\A c \in Calls :
          op[c] = "restore" /\ pc[c] = "place" /\ pc'[c] # pc[c] /\ pc'[c] # "killed"
          => disk[path[c]] \in {Absent, disk'[path[c]]}]_vars
=============================================================================
