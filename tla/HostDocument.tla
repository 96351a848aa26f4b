---------------------------- MODULE HostDocument ----------------------------
(* SERVER_AGENTS.md (src/sag/overview.py), rewritten in place by status       *)
(* passes and by agents.  doc_lock makes each rewrite one step for those who  *)
(* take it; hub_patch_file's look at it and the recycle bin, which copies or  *)
(* moves it, do not.                                                          *)
(* RefreshService schedules the background passes.                            *)
EXTENDS Naturals

CONSTANTS
    Edits,      \* calls that write or patch the file, each used once
    Deletes,    \* calls that delete it
    Callers,    \* threads that make a pass or read the document at once, each
                \* used once: startup, hub_rebuild_overview, hub_get_overview
    Worker,     \* the background thread
    Assets,     \* gateway_assets of v1 at startup: none or full
    MaxFaults,  \* bounds the failed writes and crashes
    Skeleton, Dump, Nothing, Absent, None

Readers == Callers \cup {Worker}
Calls == Edits \cup Deletes
Procs == Readers \cup Calls
Bodies == Edits \cup {Skeleton, Dump, Nothing}
Texts == [body : Bodies, fresh : BOOLEAN]

ASSUME HostDocumentAssumption ==
    /\ Calls \cap Readers = {} /\ Edits \cap Deletes = {}
    /\ Worker \notin Callers
    /\ {Skeleton, Dump, Nothing} \cap Edits = {}
    /\ Skeleton # Dump /\ Nothing # Dump /\ Skeleton # Nothing
    /\ None \notin Procs \cup Bodies \cup Texts
    /\ Absent \notin Texts \cup Bodies
    /\ Assets \in {"none", "full"}
    /\ MaxFaults \in Nat

VARIABLES
    doc,    \* the file, Absent or its text; truncated it is empty
    lock,   \* who holds doc_lock
    table,  \* gateway_assets: none, full, or renamed for its export
    busy, due,  \* of RefreshService
    pc,
    buf,    \* what a thread is about to write
    after,  \* where it goes on after that
    seen,   \* what it read in this pass or call
    bin,    \* the body of what a call copied or moved to the recycle bin
    away,   \* the call that moved the file while it was open, or None
    dumped, \* history: the export was written
    last,   \* history: what was deleted last
    faults  \* failed writes and crashes so far

service == <<busy, due>>
local == <<buf, after, seen>>
kept == <<bin, away>>
ghosts == <<dumped, last, faults>>
vars == <<doc, lock, table, busy, due, pc, buf, after, seen, bin, away, dumped, last, faults>>

Refresh == INSTANCE RefreshService

Empty == [body |-> Nothing, fresh |-> FALSE]

Init ==
    /\ doc \in {Absent} \cup {[body |-> b, fresh |-> FALSE] : b \in {Skeleton, Nothing}}
    /\ lock = None
    /\ table = Assets
    /\ Refresh!Init
    /\ pc = [p \in Procs |-> "out"]
    /\ buf = [p \in Procs |-> Empty]
    /\ after = [p \in Procs |-> "out"]
    /\ seen = [r \in Readers |-> None]
    /\ bin = [c \in Calls |-> Absent]
    /\ away = None
    /\ dumped = FALSE
    /\ last = Absent
    /\ faults = 0

(* The document as those who take the lock see it: a rewrite takes effect     *)
(* when the file is truncated.                                                *)
text == IF lock # None /\ pc[lock] = "fill" /\ away = None THEN buf[lock] ELSE doc

Goto(p, from, to) == pc[p] = from /\ pc' = [pc EXCEPT ![p] = to]

(* with doc_lock: the caller waits for it, and goes on to write a text, or    *)
(* lets it go.                                                                *)
Rewrite(p, from, new, then) ==
    /\ Goto(p, from, "open")
    /\ lock' = p
    /\ buf' = [buf EXCEPT ![p] = new]
    /\ after' = [after EXCEPT ![p] = then]

-----------------------------------------------------------------------------
(* A status pass, and hub_get_overview, which ends after its read.            *)

(* The background worker begins when asked; the others at any time.           *)
Begin(r) ==
    /\ Goto(r, "out", "ensure")
    /\ IF r = Worker THEN due /\ Refresh!Begin ELSE UNCHANGED service
    /\ UNCHANGED <<doc, lock, table, local, kept, ghosts>>

(* ensure_document: a skeleton if there is no file ...                        *)
Ensure(r) ==
    /\ lock = None
    /\ \/ /\ doc = Absent
          /\ Rewrite(r, "ensure", [body |-> Skeleton, fresh |-> FALSE], "check")
       \/ /\ doc # Absent
          /\ Goto(r, "ensure", "check")
          /\ lock' = r
          /\ UNCHANGED <<buf, after>>
    /\ UNCHANGED <<doc, table, service, seen, kept, ghosts>>

(* Mutant: the export is forgotten.                                           *)
CheckForgetful(r) ==
    /\ Goto(r, "check", "probe")
    /\ lock' = None
    /\ table' = IF table = "full" THEN "renamed" ELSE table
    /\ UNCHANGED <<doc, service, local, kept, ghosts>>

(* ... and, into an empty inventory, the v1 assets, whose table is renamed    *)
(* and committed first.  If the file is gone again the pass or the call ends. *)
Check(r) ==
    LET export == doc.body \in {Skeleton, Nothing} /\ table = "full" IN
    /\ pc[r] = "check"
    /\ \/ /\ doc # Absent /\ export
          /\ Rewrite(r, "check", [body |-> Dump, fresh |-> FALSE], "probe")
          /\ table' = "renamed"
       \/ /\ doc # Absent /\ ~export
          /\ Goto(r, "check", "probe")
          /\ lock' = None
          /\ UNCHANGED <<table, buf, after>>
       \/ /\ doc = Absent
          /\ Goto(r, "check", "done")
          /\ lock' = None
          /\ UNCHANGED <<table, buf, after>>
    /\ UNCHANGED <<doc, service, seen, kept, ghosts>>

Current == IF doc = Absent THEN Empty ELSE doc

AfterProbe(r) == Goto(r, "probe", "stamp") \/ (r # Worker /\ Goto(r, "probe", "done"))

(* Mutants: the lock is not taken for reading; the probes are parsed once.    *)
ProbeUnlocked(r) ==
    /\ AfterProbe(r)
    /\ seen' = [seen EXCEPT ![r] = Current]
    /\ UNCHANGED <<doc, lock, table, service, buf, after, kept, ghosts>>

ProbeCached(r) ==
    /\ lock = None
    /\ AfterProbe(r)
    /\ seen' = [seen EXCEPT ![r] = [body |-> Skeleton, fresh |-> FALSE]]
    /\ UNCHANGED <<doc, lock, table, service, buf, after, kept, ghosts>>

(* read_overview, under the lock: no file is an empty text, or an exception   *)
(* if it goes between the look and the read.  hub_get_overview ends here; a   *)
(* pass probes what the inventory says.                                       *)
Probe(r) ==
    /\ lock = None
    /\ \/ /\ AfterProbe(r)
          /\ seen' = [seen EXCEPT ![r] = Current]
       \/ /\ doc = Absent
          /\ Goto(r, "probe", "done")
          /\ UNCHANGED seen
    /\ UNCHANGED <<doc, lock, table, service, buf, after, kept, ghosts>>

(* refresh_status_block: the block is replaced in the text as it is now; or   *)
(* the file goes between the look and the read.                               *)
Stamp(r) ==
    /\ lock = None
    /\ \/ Rewrite(r, "stamp", [Current EXCEPT !.fresh = seen[r].body = Current.body], "done")
       \/ /\ doc = Absent
          /\ Goto(r, "stamp", "done")
          /\ UNCHANGED <<lock, buf, after>>
    /\ seen' = [seen EXCEPT ![r] = None]
    /\ UNCHANGED <<doc, table, service, kept, ghosts>>

Finish(r) ==
    /\ Goto(r, "done", IF r = Worker THEN "out" ELSE "ended")
    /\ IF r = Worker THEN Refresh!End ELSE UNCHANGED service
    /\ seen' = [seen EXCEPT ![r] = None]
    /\ UNCHANGED <<doc, lock, table, buf, after, kept, ghosts>>

-----------------------------------------------------------------------------
(* write_text, under the lock: opening truncates, then the text goes in.      *)

Put(p) ==
    /\ buf' = [buf EXCEPT ![p] = Empty]
    /\ after' = [after EXCEPT ![p] = "out"]

Open(p) ==
    /\ Goto(p, "open", "fill")
    /\ doc' = Empty
    /\ UNCHANGED <<lock, table, service, local, kept, ghosts>>

(* Mutant: the file is opened by its name again.                              *)
FillReopens(p) ==
    /\ Goto(p, "fill", after[p])
    /\ doc' = buf[p]
    /\ away' = None
    /\ lock' = IF after[p] = "check" THEN p ELSE None
    /\ dumped' = (dumped \/ buf[p].body = Dump)
    /\ Put(p)
    /\ UNCHANGED <<table, service, seen, bin, last, faults>>

(* If the open file was moved away, the text goes where it is now.            *)
Fill(p) ==
    /\ Goto(p, "fill", after[p])
    /\ \/ away = None /\ doc' = buf[p] /\ UNCHANGED kept
       \/ away # None /\ bin' = [bin EXCEPT ![away] = buf[p].body] /\ away' = None /\ UNCHANGED doc
    /\ lock' = IF after[p] = "check" THEN p ELSE None
    /\ dumped' = (dumped \/ buf[p].body = Dump)
    /\ Put(p)
    /\ UNCHANGED <<table, service, seen, last, faults>>

(* It cannot be opened, or the disk is full: the exception releases the lock  *)
(* and ends the pass or the call.                                             *)
WriteFails(p) ==
    /\ faults < MaxFaults
    /\ pc[p] \in {"open", "fill"}
    /\ pc' = [pc EXCEPT ![p] = IF p \in Edits THEN "ended" ELSE "done"]
    /\ lock' = None
    /\ away' = None
    /\ faults' = faults + 1
    /\ Put(p)
    /\ UNCHANGED <<doc, table, service, seen, bin, dumped, last>>

-----------------------------------------------------------------------------
(* hub_write_file, hub_patch_file and hub_delete_file on the file.            *)

(* The gateway serves calls when ensure_document has made the file; it is     *)
(* missing later if one of them deleted it.                                   *)
Served ==
    \/ doc # Absent /\ \A r \in Readers : after[r] # "check"
    \/ \E c \in Calls : bin[c] # Absent

(* Nothing is kept if there is no file.  A patch needs text to match.         *)
Look(e) ==
    /\ Served
    /\ \/ doc # Absent /\ Goto(e, "out", "keep")
       \/ doc = Absent /\ Goto(e, "out", "save")
       \/ Current.body = Nothing /\ Goto(e, "out", "ended")
    /\ UNCHANGED <<doc, lock, table, service, local, kept, ghosts>>

(* trash_put copies the file as it is, whoever is writing it.                 *)
Keep(e) ==
    /\ \/ doc # Absent /\ Goto(e, "keep", "save") /\ bin' = [bin EXCEPT ![e] = doc.body]
       \/ doc = Absent /\ Goto(e, "keep", "ended") /\ UNCHANGED bin
    /\ UNCHANGED <<doc, lock, table, service, local, away, ghosts>>

(* hub_delete_file: trash_put moves the file, without the lock.  A thread     *)
(* that has it open goes on writing to it where it is.                        *)
Delete(d) ==
    /\ Served /\ doc # Absent
    /\ Goto(d, "out", "ask")
    /\ doc' = Absent
    /\ bin' = [bin EXCEPT ![d] = doc.body]
    /\ away' = IF lock # None /\ pc[lock] = "fill" THEN d ELSE None
    /\ last' = text
    /\ UNCHANGED <<lock, table, service, local, dumped, faults>>

(* write_handwritten, which strips the status block.                          *)
Save(e) ==
    /\ lock = None
    /\ Rewrite(e, "save", [body |-> e, fresh |-> FALSE], "ask")
    /\ UNCHANGED <<doc, table, service, seen, kept, ghosts>>

(* request_reconcile; its errors are swallowed.                               *)
Ask(c) ==
    /\ Goto(c, "ask", "ended")
    /\ Refresh!Ask \/ UNCHANGED service
    /\ UNCHANGED <<doc, lock, table, local, kept, ghosts>>

(* The periodic loop asks too.                                                *)
Tick ==
    /\ ~due
    /\ Refresh!Ask
    /\ UNCHANGED <<doc, lock, table, pc, local, kept, ghosts>>

(* The gateway dies and starts again.                                         *)
Crash ==
    /\ faults < MaxFaults
    /\ pc' = [p \in Procs |-> IF p = Worker THEN "out"
                              ELSE IF pc[p] = "out" THEN "out" ELSE "ended"]
    /\ lock' = None
    /\ busy' = FALSE
    /\ due' = FALSE
    /\ faults' = faults + 1
    /\ buf' = [p \in Procs |-> Empty]
    /\ after' = [p \in Procs |-> "out"]
    /\ seen' = [r \in Readers |-> None]
    /\ away' = None
    /\ UNCHANGED <<doc, table, bin, dumped, last>>

-----------------------------------------------------------------------------
Write(p) == Open(p) \/ Fill(p) \/ WriteFails(p)
Pass(r) == Ensure(r) \/ Check(r) \/ Probe(r) \/ Stamp(r) \/ Finish(r) \/ Write(r)
Edit(e) == Keep(e) \/ Save(e) \/ Ask(e) \/ Write(e)

Next ==
    \/ \E r \in Readers : Begin(r) \/ Pass(r)
    \/ \E e \in Edits : Look(e) \/ Edit(e)
    \/ \E d \in Deletes : Delete(d) \/ Ask(d)
    \/ Tick
    \/ Crash

Spec == Init /\ [][Next]_vars

(* Threads run, and get the lock if it is free again and again; the periodic  *)
(* loop keeps asking.                                                         *)
FairSpec ==
    /\ Spec
    /\ \A r \in Readers : SF_vars(Pass(r))
    /\ \A e \in Edits : SF_vars(Edit(e))
    /\ \A d \in Deletes : WF_vars(Ask(d))
    /\ WF_vars(Begin(Worker))
    /\ WF_vars(Tick)

-----------------------------------------------------------------------------
(* Every variable has its type: what is written is a whole text.              *)
TypeOK ==
    /\ doc \in Texts \cup {Absent}
    /\ lock \in Procs \cup {None}
    /\ table \in {"none", "full", "renamed"}
    /\ busy \in BOOLEAN
    /\ due \in BOOLEAN
    /\ pc \in [Procs -> {"out", "ensure", "check", "probe", "stamp", "open", "fill",
                         "keep", "save", "ask", "done", "ended"}]
    /\ buf \in [Procs -> Texts]
    /\ after \in [Procs -> {"out", "check", "probe", "done", "ask"}]
    /\ seen \in [Readers -> Texts \cup {None}]
    /\ bin \in [Calls -> Bodies \cup {Absent}]
    /\ away \in Deletes \cup {None}
    /\ dumped \in BOOLEAN
    /\ last \in Texts \cup {Absent}
    /\ faults \in 0 .. MaxFaults

(* Readers and writers that take doc_lock see one document that changes at    *)
(* once, even when it is deleted, which takes no lock; a status pass changes  *)
(* its block only; the export goes into an empty inventory only; and nothing  *)
(* is lost but by a failed write or a crash.                                  *)
Register == INSTANCE Document
DocumentSpec == Register!Spec

(* The assets of v1 reach the document once their table has been renamed,     *)
(* unless a write failed or the gateway died.                                 *)
AssetsKept ==
    table = "renamed" /\ faults = 0 =>
        dumped \/ \E p \in Readers : pc[p] \in {"open", "fill"} /\ buf[p].body = Dump

(* The document that was deleted is in the recycle bin whole, though a thread *)
(* was writing it when it was moved, as soon as that write is over.           *)
DeletedWhole ==
    last # Absent /\ away = None /\ faults = 0 => \E d \in Deletes : bin[d] = last.body

(* When the edits are over, the document is there in the end, deleted or not, *)
(* and its status block is and stays about the inventory that is there:       *)
(* passes that probed an older one lose.                                      *)
Settles == <>[](text # Absent /\ text.fresh)

(* "Two people writing at once: the later write wins, the old version is in   *)
(* the recycle bin" (docs/v2.md:229).                                         *)
OldVersionInBin ==
    [][\A e \in Edits : pc[e] = "open" /\ pc'[e] = "fill" /\ doc # Absent /\ doc.body \in Edits =>
          \E d \in Edits : bin[d] = doc.body]_vars
=============================================================================
