------------------------ MODULE HostDocument_proofs ------------------------
(* Proofs about SERVER_AGENTS.md, for any set of agents' calls, any number of *)
(* foreground passes and any bound on the faults.                             *)
EXTENDS HostDocument, TLAPS

(* Who holds doc_lock: exactly the thread inside a "with doc_lock".           *)
LockOK == \A p \in Procs : lock = p <=> pc[p] \in {"check", "open", "fill"}

(* What a rewrite may start from: the file, or the one deleted, or nothing.   *)
Basis == IF doc = Absent THEN {last, Empty} \ {Absent} ELSE {doc}

(* What a thread about to write has in hand, and where it comes from.         *)
Fits(p) ==
    \/ p \in Readers /\ after[p] = "check"
       /\ buf[p] = [body |-> Skeleton, fresh |-> FALSE]
       /\ (pc[p] = "open" => doc = Absent)
    \/ p \in Readers /\ after[p] = "probe"
       /\ buf[p] = [body |-> Dump, fresh |-> FALSE]
       /\ (pc[p] = "open" => \E t \in Basis : t.body \in {Skeleton, Nothing})
    \/ p \in Readers /\ after[p] = "done"
       /\ (pc[p] = "open" => \E t \in Basis, f \in BOOLEAN : buf[p] = [t EXCEPT !.fresh = f])
    \/ p \in Edits /\ after[p] = "ask" /\ buf[p] = [body |-> p, fresh |-> FALSE]

(* Where each thread can be, and what is in the file while one writes to it.  *)
ShapeOK ==
    /\ \A p \in Procs : pc[p] \in {"open", "fill"} => Fits(p)
    /\ \A p \in Procs : pc[p] \in {"check", "probe", "stamp"} => p \in Readers
    /\ \A p \in Procs : pc[p] = "fill" => doc = IF away = None THEN Empty ELSE Absent
    /\ \A p \in Procs : pc[p] \in {"keep", "save"} => p \in Edits
    /\ \A p \in Procs : pc[p] = "ask" => p \in Calls
    /\ away # None => \E p \in Procs : pc[p] = "fill"

(* The inductive invariant.                                                   *)
IInv == TypeOK /\ LockOK /\ ShapeOK

(* The constants are told apart, and the texts of the model are texts.        *)
LEMMA Kinds ==
    /\ Empty \in Texts
    /\ \A b \in Bodies, f \in BOOLEAN : [body |-> b, fresh |-> f] \in Texts
    /\ \A t \in Texts : /\ t.body \in Bodies
                        /\ t.fresh \in BOOLEAN
                        /\ \A f \in BOOLEAN : [t EXCEPT !.fresh = f] \in Texts
    /\ {Skeleton, Dump, Nothing} \subseteq Bodies /\ Edits \subseteq Bodies
    /\ Absent \notin Texts /\ Absent \notin Bodies /\ None \notin Texts
    /\ None \notin Procs /\ None \notin Calls /\ Empty # Absent
<1>1. \A b \in Bodies, f \in BOOLEAN : [body |-> b, fresh |-> f] \in Texts
  BY DEF Texts
<1>2. {Skeleton, Dump, Nothing} \subseteq Bodies /\ Edits \subseteq Bodies
  BY DEF Bodies
<1>3. Empty \in Texts
  BY <1>1, <1>2 DEF Empty
<1>4. ASSUME NEW t \in Texts
      PROVE  /\ t.body \in Bodies
             /\ t.fresh \in BOOLEAN
             /\ \A f \in BOOLEAN : [t EXCEPT !.fresh = f] \in Texts
  BY DEF Texts
<1> QED
  BY <1>1, <1>2, <1>3, <1>4, HostDocumentAssumption DEF Procs, Calls

(* A step that leaves the texts and its place alone leaves a thread ready.    *)
LEMMA FitsStays ==
    ASSUME NEW p \in Procs, Fits(p), UNCHANGED <<doc, last, buf, after>>, pc'[p] = pc[p]
    PROVE  Fits(p)'
BY DEF Fits, Basis

(* The invariant holds at the start.                                          *)
LEMMA InitInv == Init => IInv
<1> SUFFICES ASSUME Init PROVE IInv
  OBVIOUS
<1>0. Empty \in Texts /\ MaxFaults \in Nat /\ None \notin Procs
  BY Kinds, HostDocumentAssumption
<1>1. doc \in Texts \cup {Absent}
  BY Kinds DEF Init
<1>2. TypeOK
  <2>1. busy \in BOOLEAN /\ due \in BOOLEAN
    BY DEF Init, Refresh!Init
  <2>2. buf \in [Procs -> Texts] /\ faults \in 0 .. MaxFaults
    BY <1>0 DEF Init
  <2>3. pc \in [Procs -> {"out"}] /\ after \in [Procs -> {"out"}]
    BY DEF Init
  <2>4. QED
    BY <1>1, <2>1, <2>2, <2>3, HostDocumentAssumption DEF Init, TypeOK
<1>3. LockOK
  BY <1>0 DEF Init, LockOK
<1>4. ShapeOK
  BY DEF Init, ShapeOK
<1> QED
  BY <1>2, <1>3, <1>4 DEF IInv

(* Beginning a pass keeps it.                                                 *)
LEMMA BeginKeeps == ASSUME IInv, NEW r \in Readers, Begin(r) PROVE IInv'
<1> USE DEF IInv, Begin, Goto, service, local, kept, ghosts
<1>1. TypeOK'
  BY DEF TypeOK, Refresh!Begin, Procs
<1>2. LockOK'
  BY HostDocumentAssumption DEF LockOK, TypeOK, Procs
<1>3. ShapeOK'
  <2>1. \A q \in Procs : pc'[q] \in {"open", "fill"} => pc'[q] = pc[q]
    BY DEF TypeOK
  <2>2. UNCHANGED <<doc, last, buf, after>>
    OBVIOUS
  <2>3. \A q \in Procs : pc'[q] \in {"open", "fill"} => Fits(q)'
    BY <2>1, <2>2, FitsStays DEF ShapeOK
  <2>4. \A q \in Procs : pc[q] = "fill" => pc'[q] = "fill"
    BY DEF TypeOK
  <2>5. QED
    BY <2>3, <2>4 DEF ShapeOK, TypeOK, Procs, Calls
<1> QED
  BY <1>1, <1>2, <1>3

(* Looking for the file keeps it.                                             *)
LEMMA EnsureKeeps == ASSUME IInv, NEW r \in Readers, Ensure(r) PROVE IInv'
<1> USE DEF IInv, Ensure, Goto, Rewrite, service, local, kept, ghosts
<1>1. TypeOK'
  <2>1. /\ [body |-> Skeleton, fresh |-> FALSE] \in Texts
        /\ [body |-> Dump, fresh |-> FALSE] \in Texts
    BY Kinds
  <2>2. r \in Procs
    BY DEF Procs
  <2>3. QED
    BY <2>1, <2>2 DEF TypeOK
<1>2. LockOK'
  BY HostDocumentAssumption DEF LockOK, TypeOK, Procs
<1>3. ShapeOK'
  <2>1. \A q \in Procs : pc[q] \notin {"open", "fill"}
    BY HostDocumentAssumption DEF LockOK
  <2>2. \A q \in Procs : pc'[q] \in {"open", "fill"} => pc'[q] = "open" /\ Fits(q)'
    BY <2>1, Kinds DEF Fits, Basis, Current, TypeOK, Procs, ShapeOK
  <2>3. QED
    BY <2>1, <2>2 DEF ShapeOK, TypeOK, Procs, Calls
<1> QED
  BY <1>1, <1>2, <1>3

(* Looking for an inventory keeps it.                                         *)
LEMMA CheckKeeps == ASSUME IInv, NEW r \in Readers, Check(r) PROVE IInv'
<1> USE DEF IInv, Check, Goto, Rewrite, service, local, kept, ghosts
<1>1. TypeOK'
  <2>1. /\ [body |-> Skeleton, fresh |-> FALSE] \in Texts
        /\ [body |-> Dump, fresh |-> FALSE] \in Texts
    BY Kinds
  <2>2. r \in Procs
    BY DEF Procs
  <2>3. QED
    BY <2>1, <2>2 DEF TypeOK
<1>2. LockOK'
  BY HostDocumentAssumption DEF LockOK, TypeOK, Procs
<1>3. ShapeOK'
  <2>1. \A q \in Procs : pc[q] \notin {"open", "fill"}
    BY HostDocumentAssumption DEF LockOK, Procs
  <2>2. \A q \in Procs : pc'[q] \in {"open", "fill"} => pc'[q] = "open" /\ Fits(q)'
    BY <2>1, Kinds DEF Fits, Basis, TypeOK, Procs
  <2>3. QED
    BY <2>1, <2>2 DEF ShapeOK, TypeOK, Procs, Calls
<1> QED
  BY <1>1, <1>2, <1>3

(* Reading keeps it.                                                          *)
LEMMA ProbeKeeps == ASSUME IInv, NEW r \in Readers, Probe(r) PROVE IInv'
<1> USE DEF IInv, Probe, Goto, AfterProbe, service, local, kept, ghosts
<1>1. TypeOK'
  BY Kinds, HostDocumentAssumption DEF TypeOK, Procs, Readers, Calls, Current
<1>2. LockOK'
  BY HostDocumentAssumption DEF LockOK, TypeOK, Procs
<1>3. ShapeOK'
  <2>1. \A q \in Procs : pc'[q] \in {"open", "fill"} => pc'[q] = pc[q]
    BY DEF TypeOK
  <2>2. UNCHANGED <<doc, last, buf, after>>
    OBVIOUS
  <2>3. \A q \in Procs : pc'[q] \in {"open", "fill"} => Fits(q)'
    BY <2>1, <2>2, FitsStays DEF ShapeOK
  <2>4. \A q \in Procs : pc[q] = "fill" => pc'[q] = "fill"
    BY DEF TypeOK
  <2>5. QED
    BY <2>3, <2>4 DEF ShapeOK, TypeOK, Procs, Calls
<1> QED
  BY <1>1, <1>2, <1>3

(* Rewriting the block keeps it.                                              *)
LEMMA StampKeeps == ASSUME IInv, NEW r \in Readers, Stamp(r) PROVE IInv'
<1> USE DEF IInv, Stamp, Goto, Rewrite, service, local, kept, ghosts
<1>1. TypeOK'
  <2>1. Current \in Texts
    BY Kinds DEF Current, TypeOK
  <2>2. [Current EXCEPT !.fresh = seen[r].body = Current.body] \in Texts
    BY <2>1, Kinds
  <2>3. QED
    BY <2>2, HostDocumentAssumption DEF TypeOK, Procs
<1>2. LockOK'
  BY HostDocumentAssumption DEF LockOK, TypeOK, Procs
<1>3. ShapeOK'
  <2>1. \A q \in Procs : pc[q] \notin {"open", "fill"}
    BY HostDocumentAssumption DEF LockOK
  <2>2. Current \in Basis
    BY Kinds DEF Current, Basis
  <2>3. \A q \in Procs : q # r => pc'[q] = pc[q]
    BY DEF TypeOK
  <2>4. pc'[r] = "open" => Fits(r)'
    <3> SUFFICES ASSUME pc'[r] = "open" PROVE Fits(r)'
      OBVIOUS
    <3>1. after'[r] = "done" /\ UNCHANGED <<doc, last>>
      BY DEF TypeOK, Procs
    <3>2. Basis' = Basis
      BY <3>1 DEF Basis
    <3>3. \E f \in BOOLEAN : buf'[r] = [Current EXCEPT !.fresh = f]
      BY DEF TypeOK, Procs
    <3> QED
      BY <2>2, <3>1, <3>2, <3>3 DEF Fits
  <2>5. QED
    BY <2>1, <2>3, <2>4, Kinds DEF ShapeOK, TypeOK, Procs, Calls
<1> QED
  BY <1>1, <1>2, <1>3

(* Ending a pass keeps it.                                                    *)
LEMMA FinishKeeps == ASSUME IInv, NEW r \in Readers, Finish(r) PROVE IInv'
<1> USE DEF IInv, Finish, Goto, service, local, kept, ghosts
<1>1. TypeOK'
  BY Kinds, HostDocumentAssumption DEF TypeOK, Procs, Readers, Calls, Refresh!End
<1>2. LockOK'
  BY HostDocumentAssumption DEF LockOK, TypeOK, Procs
<1>3. ShapeOK'
  <2>1. \A q \in Procs : pc'[q] \in {"open", "fill"} => pc'[q] = pc[q]
    BY DEF TypeOK
  <2>2. UNCHANGED <<doc, last, buf, after>>
    OBVIOUS
  <2>3. \A q \in Procs : pc'[q] \in {"open", "fill"} => Fits(q)'
    BY <2>1, <2>2, FitsStays DEF ShapeOK
  <2>4. \A q \in Procs : pc[q] = "fill" => pc'[q] = "fill"
    BY DEF TypeOK
  <2>5. QED
    BY <2>3, <2>4 DEF ShapeOK, TypeOK, Procs, Calls
<1> QED
  BY <1>1, <1>2, <1>3

(* Truncating keeps it.                                                       *)
LEMMA OpenKeeps == ASSUME IInv, NEW p \in Procs, Open(p) PROVE IInv'
<1> USE DEF IInv, Open, Goto, service, local, kept, ghosts
<1>1. TypeOK'
  BY Kinds, HostDocumentAssumption DEF TypeOK, Procs, Readers, Calls
<1>2. LockOK'
  BY HostDocumentAssumption DEF LockOK, TypeOK, Procs
<1>3. ShapeOK'
  <2>1. away = None
    BY DEF ShapeOK, LockOK
  <2>2. \A q \in Procs : q # p => pc'[q] = pc[q] /\ pc[q] \notin {"open", "fill"}
    BY DEF LockOK, TypeOK
  <2>3. pc'[p] = "fill" /\ Fits(p)'
    BY DEF ShapeOK, Fits, TypeOK
  <2>4. QED
    BY <2>1, <2>2, <2>3 DEF ShapeOK
<1> QED
  BY <1>1, <1>2, <1>3

(* Writing the text keeps it.                                                 *)
LEMMA FillKeeps == ASSUME IInv, NEW p \in Procs, Fill(p) PROVE IInv'
<1> USE DEF IInv, Fill, Goto, Put, service, local, kept, ghosts
<1>1. TypeOK'
  <2>1. buf[p].body \in Bodies /\ buf[p] \in Texts
    BY Kinds DEF TypeOK
  <2>2. away # None => away \in Calls
    BY DEF TypeOK, Calls
  <2>3. QED
    BY <2>1, <2>2, Kinds DEF TypeOK
<1>2. LockOK'
  BY HostDocumentAssumption DEF LockOK, TypeOK, Procs
<1>3. ShapeOK'
  <2>1. \A q \in Procs : q # p => pc'[q] = pc[q] /\ pc[q] \notin {"open", "fill"}
    BY DEF LockOK, TypeOK
  <2>2. \/ p \in Readers /\ after[p] \in {"check", "probe", "done"}
        \/ p \in Edits /\ after[p] = "ask"
    BY DEF ShapeOK, Fits
  <2>3. pc'[p] = after[p] /\ away' = None
    BY DEF TypeOK
  <2>4. QED
    BY <2>1, <2>2, <2>3 DEF ShapeOK, Calls
<1> QED
  BY <1>1, <1>2, <1>3

(* A write that fails keeps it.                                               *)
LEMMA WriteFailsKeeps == ASSUME IInv, NEW p \in Procs, WriteFails(p) PROVE IInv'
<1> USE DEF IInv, WriteFails, Goto, Put, service, local, kept, ghosts
<1>1. TypeOK'
  BY Kinds, HostDocumentAssumption DEF TypeOK, Procs, Readers, Calls
<1>2. LockOK'
  BY HostDocumentAssumption DEF LockOK, TypeOK, Procs
<1>3. ShapeOK'
  <2>1. \A q \in Procs : q # p => pc'[q] = pc[q] /\ pc[q] \notin {"open", "fill"}
    BY DEF LockOK, TypeOK
  <2>2. pc'[p] \in {"ended", "done"} /\ away' = None
    BY DEF TypeOK
  <2>3. QED
    BY <2>1, <2>2 DEF ShapeOK
<1> QED
  BY <1>1, <1>2, <1>3

(* An edit's look at the file keeps it.                                       *)
LEMMA LookKeeps == ASSUME IInv, NEW e \in Edits, Look(e) PROVE IInv'
<1> USE DEF IInv, Look, Goto, service, local, kept, ghosts
<1>1. TypeOK'
  BY Kinds, HostDocumentAssumption DEF TypeOK, Procs, Readers, Calls
<1>2. LockOK'
  BY HostDocumentAssumption DEF LockOK, TypeOK, Procs
<1>3. ShapeOK'
  <2>1. \A q \in Procs : pc'[q] \in {"open", "fill"} => pc'[q] = pc[q]
    BY DEF TypeOK
  <2>2. UNCHANGED <<doc, last, buf, after>>
    OBVIOUS
  <2>3. \A q \in Procs : pc'[q] \in {"open", "fill"} => Fits(q)'
    BY <2>1, <2>2, FitsStays DEF ShapeOK
  <2>4. \A q \in Procs : pc[q] = "fill" => pc'[q] = "fill"
    BY DEF TypeOK
  <2>5. QED
    BY <2>3, <2>4 DEF ShapeOK, TypeOK, Procs, Calls
<1> QED
  BY <1>1, <1>2, <1>3

(* The recycle bin's copy keeps it.                                           *)
LEMMA KeepKeeps == ASSUME IInv, NEW e \in Edits, Keep(e) PROVE IInv'
<1> USE DEF IInv, Keep, Goto, service, local, kept, ghosts
<1>1. TypeOK'
  BY Kinds, HostDocumentAssumption DEF TypeOK, Procs, Readers, Calls
<1>2. LockOK'
  BY HostDocumentAssumption DEF LockOK, TypeOK, Procs
<1>3. ShapeOK'
  <2>1. \A q \in Procs : pc'[q] \in {"open", "fill"} => pc'[q] = pc[q]
    BY DEF TypeOK
  <2>2. UNCHANGED <<doc, last, buf, after>>
    OBVIOUS
  <2>3. \A q \in Procs : pc'[q] \in {"open", "fill"} => Fits(q)'
    BY <2>1, <2>2, FitsStays DEF ShapeOK
  <2>4. \A q \in Procs : pc[q] = "fill" => pc'[q] = "fill"
    BY DEF TypeOK
  <2>5. QED
    BY <2>3, <2>4 DEF ShapeOK, TypeOK, Procs, Calls
<1> QED
  BY <1>1, <1>2, <1>3

(* Moving the file away keeps it.                                             *)
LEMMA DeleteKeeps == ASSUME IInv, NEW d \in Deletes, Delete(d) PROVE IInv'
<1> USE DEF IInv, Delete, Goto, service, local, kept, ghosts
<1>1. TypeOK'
  <2>1. text \in Texts /\ doc.body \in Bodies
    BY Kinds DEF text, TypeOK
  <2>2. d \in Calls /\ d \in Procs
    BY DEF Calls, Procs
  <2>3. QED
    BY <2>1, <2>2, Kinds DEF TypeOK
<1>2. LockOK'
  BY Kinds, HostDocumentAssumption DEF LockOK, TypeOK, Procs, Calls
<1>3. ShapeOK'
  <2>1. \A q \in Procs : q # d => pc'[q] = pc[q]
    BY DEF TypeOK
  <2>2. d \in Procs /\ pc'[d] = "ask" /\ pc[d] = "out" /\ d # None
    BY Kinds DEF TypeOK, Procs, Calls
  <2>3. \A q \in Procs : pc[q] = "fill" => away' = d
    BY HostDocumentAssumption DEF LockOK
  <2>4. ASSUME NEW q \in Procs, pc[q] = "open" PROVE Fits(q)'
    <3>1. text = doc /\ doc \in Texts
      BY <2>4, Kinds DEF text, LockOK, TypeOK
    <3>2. doc \in Basis' /\ Basis = {doc}
      BY <3>1, Kinds DEF Basis
    <3>3. QED
      BY <2>4, <3>2 DEF Fits, ShapeOK
  <2>5. ASSUME NEW q \in Procs, pc[q] = "fill" PROVE Fits(q)'
    BY <2>1, <2>2, <2>5 DEF Fits, ShapeOK
  <2>6. away' # None => \E q \in Procs : pc'[q] = "fill"
    BY <2>1, <2>2, Kinds DEF TypeOK
  <2>7. QED
    BY <2>1, <2>2, <2>3, <2>4, <2>5, <2>6 DEF ShapeOK, Calls
<1> QED
  BY <1>1, <1>2, <1>3

(* Taking the lock for an edit keeps it.                                      *)
LEMMA SaveKeeps == ASSUME IInv, NEW e \in Edits, Save(e) PROVE IInv'
<1> USE DEF IInv, Save, Goto, Rewrite, service, local, kept, ghosts
<1>1. TypeOK'
  BY Kinds, HostDocumentAssumption DEF TypeOK, Procs, Readers, Calls
<1>2. LockOK'
  BY HostDocumentAssumption DEF LockOK, TypeOK, Procs
<1>3. ShapeOK'
  <2>1. \A q \in Procs : pc[q] \notin {"open", "fill"}
    BY HostDocumentAssumption DEF LockOK
  <2>2. \A q \in Procs : pc'[q] \in {"open", "fill"} => pc'[q] = "open" /\ Fits(q)'
    BY <2>1, Kinds DEF Fits, Basis, Current, TypeOK, Procs, ShapeOK
  <2>3. QED
    BY <2>1, <2>2 DEF ShapeOK, TypeOK, Procs, Calls
<1> QED
  BY <1>1, <1>2, <1>3

(* Asking for a pass keeps it.                                                *)
LEMMA AskKeeps == ASSUME IInv, NEW c \in Calls, Ask(c) PROVE IInv'
<1> USE DEF IInv, Ask, Goto, service, local, kept, ghosts
<1>1. TypeOK'
  BY Kinds, HostDocumentAssumption DEF TypeOK, Procs, Readers, Calls, Refresh!Ask
<1>2. LockOK'
  BY HostDocumentAssumption DEF LockOK, TypeOK, Procs
<1>3. ShapeOK'
  <2>1. \A q \in Procs : pc'[q] \in {"open", "fill"} => pc'[q] = pc[q]
    BY DEF TypeOK
  <2>2. UNCHANGED <<doc, last, buf, after>>
    OBVIOUS
  <2>3. \A q \in Procs : pc'[q] \in {"open", "fill"} => Fits(q)'
    BY <2>1, <2>2, FitsStays DEF ShapeOK
  <2>4. \A q \in Procs : pc[q] = "fill" => pc'[q] = "fill"
    BY DEF TypeOK
  <2>5. QED
    BY <2>3, <2>4 DEF ShapeOK, TypeOK, Procs, Calls
<1> QED
  BY <1>1, <1>2, <1>3

(* So does the periodic loop's asking.                                        *)
LEMMA TickKeeps == ASSUME IInv, Tick PROVE IInv'
BY DEF IInv, TypeOK, LockOK, ShapeOK, Fits, Basis, Tick, Refresh!Ask, local, kept, ghosts

(* So does a crash.                                                           *)
LEMMA CrashKeeps == ASSUME IInv, Crash PROVE IInv'
<1> USE DEF IInv, Crash
<1>1. pc' \in [Procs -> {"out", "ended"}]
  OBVIOUS
<1>2. TypeOK'
  <2>1. Empty \in Texts
    BY DEF Empty, Texts, Bodies
  <2>2. faults' \in 0 .. MaxFaults
    BY HostDocumentAssumption DEF TypeOK
  <2>3. pc' \in [Procs -> {"out", "ensure", "check", "probe", "stamp", "open", "fill",
                          "keep", "save", "ask", "done", "ended"}]
    BY <1>1
  <2>4. /\ buf' \in [Procs -> Texts]
        /\ after' \in [Procs -> {"out", "check", "probe", "done", "ask"}]
        /\ seen' \in [Readers -> Texts \cup {None}]
    BY <2>1
  <2>5. QED
    BY <2>2, <2>3, <2>4 DEF TypeOK
<1>3. LockOK'
  BY <1>1, HostDocumentAssumption DEF LockOK
<1>4. ShapeOK'
  BY <1>1 DEF ShapeOK, Procs
<1> QED
  BY <1>2, <1>3, <1>4

(* Every step keeps the invariant.                                            *)
LEMMA StepInv == IInv /\ [Next]_vars => IInv'
<1> SUFFICES ASSUME IInv, [Next]_vars PROVE IInv'
  OBVIOUS
<1>1. ASSUME NEW r \in Readers, Begin(r) \/ Pass(r) PROVE IInv'
  BY <1>1, BeginKeeps, EnsureKeeps, CheckKeeps, ProbeKeeps, StampKeeps, FinishKeeps,
     OpenKeeps, FillKeeps, WriteFailsKeeps
  DEF Pass, Write, Procs
<1>2. ASSUME NEW e \in Edits, Look(e) \/ Edit(e) PROVE IInv'
  BY <1>2, LookKeeps, KeepKeeps, SaveKeeps, AskKeeps, OpenKeeps, FillKeeps, WriteFailsKeeps
  DEF Edit, Write, Procs, Calls
<1>3. ASSUME NEW d \in Deletes, Delete(d) \/ Ask(d) PROVE IInv'
  BY <1>3, DeleteKeeps, AskKeeps DEF Calls
<1>4. CASE UNCHANGED vars
  BY <1>4 DEF vars, IInv, TypeOK, LockOK, ShapeOK, Fits, Basis
<1> QED
  BY <1>1, <1>2, <1>3, <1>4, TickKeeps, CrashKeeps DEF Next

(* IInv is an invariant of the specification.                                 *)
THEOREM Invariance == Spec => []IInv
BY InitInv, StepInv, PTL DEF Spec

(* Every variable has its type.                                               *)
THEOREM TypeCorrect == Spec => []TypeOK
<1>1. IInv => TypeOK
  BY DEF IInv
<1> QED
  BY <1>1, Invariance, PTL

-----------------------------------------------------------------------------
(* The document as those who take the lock see it: what the thread that has   *)
(* truncated the file is writing, unless the file was moved, or else what is  *)
(* in the file.                                                               *)
LEMMA TextIs ==
    ASSUME IInv
    PROVE  /\ \A p \in Procs : pc[p] = "fill" /\ away = None => text = buf[p]
           /\ \A p \in Procs : pc[p] = "fill" /\ away # None => text = Absent
           /\ (\A p \in Procs : pc[p] # "fill") => text = doc /\ away = None
           /\ text = doc \/ doc = Empty
BY HostDocumentAssumption DEF IInv, LockOK, ShapeOK, TypeOK, text, Procs

(* A step that neither truncates nor writes leaves that as it is.             *)
LEMMA TextStays ==
    ASSUME IInv, IInv', UNCHANGED <<doc, away>>,
           \A p \in Procs : pc[p] = "fill" <=> pc'[p] = "fill",
           \A p \in Procs : pc[p] = "fill" => buf'[p] = buf[p]
    PROVE  text' = text
<1>1. CASE \E p \in Procs : pc[p] = "fill"
  BY <1>1, TextIs, IInv' DEF text, IInv, LockOK
<1>2. CASE \A p \in Procs : pc[p] # "fill"
  BY <1>2, HostDocumentAssumption DEF text, IInv, LockOK, TypeOK
<1> QED
  BY <1>1, <1>2

-----------------------------------------------------------------------------
(* The safety part of DocumentSpec: to readers and writers that take doc_lock *)
(* SERVER_AGENTS.md changes at once, even when it is deleted; a status pass   *)
(* changes its block only, the export goes into an empty inventory only, and  *)
(* nothing is lost but by a failed write or a crash.                          *)
THEOREM ImplementsDocument ==
    Spec => Register!Init /\ [][Register!Next]_<<text, last, seen, faults>>
<1>1. Init => Register!Init
  <2> SUFFICES ASSUME Init PROVE Register!Init
    OBVIOUS
  <2>1. text = doc
    BY DEF Init, text
  <2>2. doc \in {Absent} \cup {[body |-> b, fresh |-> FALSE] : b \in Bodies}
    BY DEF Init, Bodies
  <2> QED
    BY <2>1, <2>2 DEF Init, Register!Init
<1>2. IInv /\ IInv' /\ [Next]_vars => [Register!Next]_<<text, last, seen, faults>>
  <2> SUFFICES ASSUME IInv, IInv', [Next]_vars
               PROVE  [Register!Next]_<<text, last, seen, faults>>
    OBVIOUS
  <2> DEFINE Good == [Register!Next]_<<text, last, seen, faults>>
  <2> USE DEF Goto, Rewrite, local, kept, ghosts, service
  <2>1. ASSUME NEW r \in Readers, Begin(r) \/ Ensure(r) \/ Check(r) PROVE Good
    <3>1. /\ UNCHANGED <<doc, away, last, seen, faults>>
          /\ \A p \in Procs : pc[p] = "fill" <=> pc'[p] = "fill"
          /\ \A p \in Procs : pc[p] = "fill" => buf'[p] = buf[p]
      BY <2>1 DEF Begin, Ensure, Check, IInv, TypeOK, Procs
    <3> QED
      BY <3>1, TextStays
  <2>2. ASSUME NEW e \in Edits, Look(e) \/ Keep(e) \/ Save(e) PROVE Good
    <3>1. /\ UNCHANGED <<doc, away, last, seen, faults>>
          /\ \A p \in Procs : pc[p] = "fill" <=> pc'[p] = "fill"
          /\ \A p \in Procs : pc[p] = "fill" => buf'[p] = buf[p]
      BY <2>2 DEF Look, Keep, Save, IInv, TypeOK, Procs
    <3> QED
      BY <3>1, TextStays
  <2>3. ASSUME NEW c \in Calls, Ask(c) PROVE Good
    <3>1. /\ UNCHANGED <<doc, away, last, seen, faults>>
          /\ \A p \in Procs : pc[p] = "fill" <=> pc'[p] = "fill"
          /\ \A p \in Procs : pc[p] = "fill" => buf'[p] = buf[p]
      BY <2>3 DEF Ask, IInv, TypeOK, Procs
    <3> QED
      BY <3>1, TextStays
  <2>4. ASSUME NEW r \in Readers, Finish(r) \/ Stamp(r) PROVE Good
    <3>1. /\ UNCHANGED <<doc, away, last, faults>>
          /\ \A p \in Procs : pc[p] = "fill" <=> pc'[p] = "fill"
          /\ \A p \in Procs : pc[p] = "fill" => buf'[p] = buf[p]
      BY <2>4 DEF Finish, Stamp, IInv, TypeOK, Procs
    <3>2. seen' = [seen EXCEPT ![r] = None]
      BY <2>4 DEF Finish, Stamp
    <3>3. Register!Forget(r)
      BY <3>1, <3>2, TextStays DEF Register!Forget
    <3> QED
      BY <3>3 DEF Register!Next
  <2>5. ASSUME NEW r \in Readers, Probe(r) PROVE Good
    <3>1. /\ UNCHANGED <<doc, away, last, faults>>
          /\ \A p \in Procs : pc[p] # "fill" /\ pc'[p] # "fill"
      BY <2>5, HostDocumentAssumption DEF Probe, AfterProbe, IInv, LockOK, TypeOK
    <3>2. text = doc /\ text' = text
      BY <3>1, TextIs, TextStays
    <3>3. CASE seen' = seen
      BY <3>1, <3>2, <3>3
    <3>4. CASE seen' = [seen EXCEPT ![r] = Current]
      <4>1. Register!Read(r)
        BY <3>1, <3>2, <3>4 DEF Register!Read, Register!Empty, Empty, Current
      <4> QED
        BY <4>1 DEF Register!Next
    <3> QED
      BY <2>5, <3>3, <3>4 DEF Probe
  <2>6. ASSUME NEW p \in Procs, Open(p) PROVE Good
    <3>1. text = doc /\ text' = buf[p] /\ Register!Base = Basis
      <4>1. \A q \in Procs : pc[q] # "fill"
        BY <2>6 DEF Open, IInv, LockOK
      <4>2. text = doc /\ away' = None
        BY <2>6, <4>1, TextIs DEF Open
      <4>3. lock' = p /\ pc'[p] = "fill" /\ buf'[p] = buf[p]
        BY <2>6 DEF Open, IInv, LockOK, TypeOK
      <4> QED
        BY <4>2, <4>3, Kinds DEF text, Register!Base, Basis, Register!Empty, Empty
    <3>2. UNCHANGED <<last, seen, faults>>
      BY <2>6 DEF Open
    <3>3. Fits(p) /\ pc[p] = "open"
      BY <2>6 DEF Open, IInv, ShapeOK
    <3>4. CASE after[p] = "check"
      BY <3>1, <3>2, <3>3, <3>4 DEF Fits, Register!Next, Register!Create
    <3>5. CASE after[p] = "probe"
      <4>1. Register!Export
        BY <3>1, <3>2, <3>3, <3>5 DEF Fits, Register!Export
      <4> QED
        BY <4>1 DEF Register!Next
    <3>6. CASE after[p] = "done"
      <4>1. Register!Stamp
        BY <3>1, <3>2, <3>3, <3>6 DEF Fits, Register!Stamp
      <4> QED
        BY <4>1 DEF Register!Next
    <3>7. CASE after[p] = "ask"
      <4>1. p \in Bodies /\ text' = [body |-> p, fresh |-> FALSE]
        BY <3>1, <3>3, <3>7 DEF Fits, Bodies
      <4> QED
        BY <4>1, <3>2 DEF Register!Next, Register!Edit
    <3> QED
      BY <3>3, <3>4, <3>5, <3>6, <3>7 DEF Fits
  <2>7. ASSUME NEW p \in Procs, Fill(p) PROVE Good
    <3>1. pc[p] = "fill" /\ UNCHANGED <<last, seen, faults>> /\ away' = None
      BY <2>7 DEF Fill
    <3>2. \A q \in Procs : pc'[q] # "fill"
      BY <2>7 DEF Fill, IInv, LockOK, TypeOK
    <3>3. text' = doc'
      BY <3>2, HostDocumentAssumption DEF text, IInv, TypeOK
    <3>4. CASE away = None
      BY <2>7, <3>1, <3>3, <3>4, TextIs DEF Fill
    <3>5. CASE away # None
      BY <2>7, <3>1, <3>3, <3>5, TextIs DEF Fill, IInv, ShapeOK
    <3> QED
      BY <3>4, <3>5
  <2>8. ASSUME NEW p \in Procs, WriteFails(p) PROVE Good
    <3>1. text' = doc
      BY <2>8, HostDocumentAssumption DEF WriteFails, text
    <3>2. text = doc \/ doc = Empty
      BY TextIs
    <3>3. Register!Fault
      BY <2>8, <3>1, <3>2 DEF WriteFails, Register!Fault, Register!Empty, Empty
    <3> QED
      BY <3>3 DEF Register!Next
  <2>9. ASSUME NEW d \in Deletes, Delete(d) PROVE Good
    <3>1. text # Absent /\ last' = text /\ UNCHANGED <<seen, faults>>
      BY <2>9, Kinds DEF Delete, text, IInv, TypeOK
    <3>2. d \in Procs /\ d # None /\ pc[d] = "out" /\ pc' = [pc EXCEPT ![d] = "ask"]
      BY <2>9, Kinds DEF Delete, Procs, Calls
    <3>3. text' = Absent
      BY <2>9, <3>2 DEF Delete, text, IInv, TypeOK
    <3>4. Register!Delete
      BY <3>1, <3>3 DEF Register!Delete
    <3> QED
      BY <3>4 DEF Register!Next
  <2>10. ASSUME Tick PROVE Good
    BY <2>10, TextStays DEF Tick
  <2>11. ASSUME Crash PROVE Good
    <3>1. text' = doc
      BY <2>11 DEF Crash, text
    <3>2. text = doc \/ doc = Empty
      BY TextIs
    <3>3. Register!Fault
      BY <2>11, <3>1, <3>2 DEF Crash, Register!Fault, Register!Empty, Empty
    <3> QED
      BY <3>3 DEF Register!Next
  <2>12. ASSUME UNCHANGED vars PROVE Good
    BY <2>12 DEF vars, text
  <2>13. ASSUME NEW p \in Procs, Write(p) PROVE Good
    BY <2>6, <2>7, <2>8, <2>13 DEF Write
  <2>14. ASSUME NEW r \in Readers, Begin(r) \/ Pass(r) PROVE Good
    <3>1. r \in Procs
      BY DEF Procs
    <3> HIDE DEF Good
    <3> QED
      BY <3>1, <2>1, <2>4, <2>5, <2>13, <2>14 DEF Pass
  <2>15. ASSUME NEW e \in Edits, Look(e) \/ Edit(e) PROVE Good
    <3>1. e \in Procs /\ e \in Calls
      BY DEF Procs, Calls
    <3> HIDE DEF Good
    <3> QED
      BY <3>1, <2>2, <2>3, <2>13, <2>15 DEF Edit
  <2>16. ASSUME NEW d \in Deletes, Delete(d) \/ Ask(d) PROVE Good
    <3>1. d \in Calls
      BY DEF Calls
    <3> HIDE DEF Good
    <3> QED
      BY <3>1, <2>3, <2>9, <2>16
  <2> HIDE DEF Good
  <2>17. Good
    BY <2>10, <2>11, <2>12, <2>14, <2>15, <2>16 DEF Next
  <2> QED
    BY <2>17 DEF Good
<1>3. QED
  BY <1>1, <1>2, Invariance, PTL DEF Spec

-----------------------------------------------------------------------------
(* A thread that writes to the file that was moved has that text in hand.     *)
Whole ==
    /\ DeletedWhole
    /\ away # None /\ faults = 0 =>
           \A p \in Procs : pc[p] = "fill" => buf[p].body = last.body

(* A step of no consequence to the recycle bin's copy.                        *)
LEMMA WholeStays ==
    ASSUME IInv, Whole, UNCHANGED <<last, away, faults>>,
           \A d \in Deletes : bin'[d] = bin[d],
           \A p \in Procs : pc'[p] = "fill" => away = None \/ (pc[p] = "fill" /\ buf'[p] = buf[p])
    PROVE  Whole'
BY DEF Whole, DeletedWhole

(* A failed write or a crash ends what is promised.                           *)
LEMMA FaultsEnd ==
    ASSUME IInv, faults' = faults + 1
    PROVE  Whole' /\ AssetsKept'
<1>1. faults' # 0
  BY HostDocumentAssumption DEF IInv, TypeOK
<1> QED
  BY <1>1 DEF Whole, DeletedWhole, AssetsKept

(* What was deleted is in the recycle bin whole, once nobody writes to it,    *)
(* though hub_delete_file takes no lock (src/sag/tools.py:551).               *)
THEOREM DeletedStaysWhole == Spec => []DeletedWhole
<1>1. Init => Whole
  BY DEF Init, Whole, DeletedWhole
<1>2. IInv /\ Whole /\ [Next]_vars => Whole'
  <2> SUFFICES ASSUME IInv, Whole, [Next]_vars PROVE Whole'
    OBVIOUS
  <2> USE DEF Goto, Rewrite, local, kept, ghosts, service
  <2>1. ASSUME NEW r \in Readers,
               Begin(r) \/ Ensure(r) \/ Check(r) \/ Probe(r) \/ Stamp(r) \/ Finish(r)
        PROVE  Whole'
    <3>1. /\ UNCHANGED <<last, away, faults, bin>>
          /\ \A p \in Procs : pc'[p] = "fill" => pc[p] = "fill" /\ buf'[p] = buf[p]
      BY <2>1 DEF Begin, Ensure, Check, Probe, AfterProbe, Stamp, Finish, IInv, TypeOK, Procs
    <3> QED
      BY <3>1, WholeStays
  <2>2. ASSUME NEW e \in Edits, Look(e) \/ Keep(e) \/ Save(e) PROVE Whole'
    <3>1. /\ UNCHANGED <<last, away, faults>>
          /\ \A d \in Deletes : bin'[d] = bin[d]
      BY <2>2, HostDocumentAssumption DEF Look, Keep, Save, IInv, TypeOK, Calls
    <3>2. \A p \in Procs : pc'[p] = "fill" => pc[p] = "fill" /\ buf'[p] = buf[p]
      BY <2>2 DEF Look, Keep, Save, IInv, TypeOK, Procs
    <3> QED
      BY <3>1, <3>2, WholeStays
  <2>3. ASSUME NEW c \in Calls, Ask(c) PROVE Whole'
    <3>1. /\ UNCHANGED <<last, away, faults, bin, buf>>
          /\ \A p \in Procs : pc'[p] = "fill" => pc[p] = "fill"
      BY <2>3 DEF Ask, IInv, TypeOK, Procs
    <3> QED
      BY <3>1, WholeStays
  <2>4. ASSUME NEW p \in Procs, Open(p) PROVE Whole'
    <3>1. away = None
      BY <2>4, TextIs DEF Open, IInv, LockOK
    <3> QED
      BY <2>4, <3>1, WholeStays DEF Open
  <2>5. ASSUME NEW p \in Procs, Fill(p) PROVE Whole'
    <3>1. pc[p] = "fill" /\ away' = None /\ UNCHANGED <<last, faults>>
      BY <2>5 DEF Fill
    <3>2. CASE away = None
      BY <2>5, <3>1, <3>2 DEF Fill, Whole, DeletedWhole
    <3>3. CASE away # None
      <4>1. away \in Deletes /\ away \in Calls
        BY <3>3 DEF IInv, TypeOK, Calls
      <4>2. bin'[away] = buf[p].body
        BY <2>5, <3>3, <4>1 DEF Fill, IInv, TypeOK
      <4>3. faults = 0 => buf[p].body = last.body
        BY <3>1, <3>3 DEF Whole
      <4> QED
        BY <3>1, <4>1, <4>2, <4>3 DEF Whole, DeletedWhole
    <3> QED
      BY <3>2, <3>3
  <2>6. ASSUME NEW p \in Procs, WriteFails(p) PROVE Whole'
    BY <2>6, FaultsEnd DEF WriteFails
  <2>7. ASSUME NEW d \in Deletes, Delete(d) PROVE Whole'
    <3>1. /\ d \in Calls /\ d # None /\ pc[d] = "out" /\ doc # Absent
          /\ last' = text /\ bin'[d] = doc.body /\ UNCHANGED <<lock, buf>>
          /\ pc' = [pc EXCEPT ![d] = "ask"]
          /\ away' = IF lock # None /\ pc[lock] = "fill" THEN d ELSE None
      BY <2>7, Kinds DEF Delete, IInv, TypeOK, Calls
    <3>2. CASE \E p \in Procs : pc[p] = "fill"
      <4>1. PICK p \in Procs : pc[p] = "fill"
        BY <3>2
      <4>2. lock = p /\ p # None /\ \A q \in Procs : pc[q] = "fill" => q = p
        BY <4>1, Kinds DEF IInv, LockOK
      <4>3. away = None /\ text = buf[p] /\ away' = d
        BY <3>1, <4>1, <4>2, TextIs DEF IInv, ShapeOK
      <4>4. \A q \in Procs : pc'[q] = "fill" => q = p
        BY <3>1, <4>2 DEF IInv, TypeOK
      <4> QED
        BY <3>1, <4>3, <4>4 DEF Whole, DeletedWhole
    <3>3. CASE \A p \in Procs : pc[p] # "fill"
      <4>1. text = doc /\ away' = None
        BY <3>1, <3>3, TextIs DEF IInv, TypeOK
      <4> QED
        BY <3>1, <4>1 DEF Whole, DeletedWhole
    <3> QED
      BY <3>2, <3>3
  <2>8. ASSUME Tick PROVE Whole'
    BY <2>8, WholeStays DEF Tick
  <2>9. ASSUME Crash PROVE Whole'
    BY <2>9, FaultsEnd DEF Crash
  <2>10. ASSUME UNCHANGED vars PROVE Whole'
    BY <2>10, WholeStays DEF vars
  <2>11. ASSUME NEW p \in Procs, Write(p) PROVE Whole'
    BY <2>4, <2>5, <2>6, <2>11 DEF Write
  <2> QED
    BY <2>1, <2>2, <2>3, <2>7, <2>8, <2>9, <2>10, <2>11
    DEF Next, Pass, Edit, Procs, Calls
<1>3. Whole => DeletedWhole
  BY DEF Whole
<1> QED
  BY <1>1, <1>2, <1>3, Invariance, PTL DEF Spec

-----------------------------------------------------------------------------
(* The assets of v1 reach the document once their table is renamed, unless a  *)
(* write failed or the gateway died (src/sag/overview.py:303).                *)
THEOREM AssetsStayKept == Spec => []AssetsKept
<1>1. Init => AssetsKept
  BY HostDocumentAssumption DEF Init, AssetsKept
<1>2. IInv /\ AssetsKept /\ [Next]_vars => AssetsKept'
  <2> SUFFICES ASSUME IInv, AssetsKept, [Next]_vars PROVE AssetsKept'
    OBVIOUS
  <2> DEFINE Exports(p) == pc[p] \in {"open", "fill"} /\ buf[p].body = Dump
  <2> USE DEF Goto, Rewrite, local, kept, ghosts, service
  <2>1. ASSUME UNCHANGED <<table, faults, dumped>>,
               \A p \in Procs : Exports(p) => Exports(p)'
        PROVE  AssetsKept'
    BY <2>1 DEF AssetsKept, Procs
  <2>2. ASSUME NEW r \in Readers, Begin(r) \/ Ensure(r) \/ Probe(r) \/ Stamp(r) \/ Finish(r)
        PROVE  AssetsKept'
    <3>1. UNCHANGED <<table, faults, dumped>>
      BY <2>2 DEF Begin, Ensure, Probe, Stamp, Finish
    <3>2. \A p \in Procs : pc[p] \in {"open", "fill"} => pc'[p] = pc[p] /\ buf'[p] = buf[p]
      BY <2>2 DEF Begin, Ensure, Probe, AfterProbe, Stamp, Finish, IInv, TypeOK, Procs
    <3> QED
      BY <3>1, <3>2, <2>1
  <2>3. ASSUME NEW r \in Readers, Check(r) PROVE AssetsKept'
    <3>1. \A p \in Procs : pc[p] \in {"open", "fill"} => pc'[p] = pc[p] /\ buf'[p] = buf[p]
      BY <2>3 DEF Check, IInv, TypeOK, Procs
    <3>2. CASE table' = table
      BY <2>3, <3>1, <3>2, <2>1 DEF Check
    <3>3. CASE table' # table
      <4>1. pc'[r] = "open" /\ buf'[r].body = Dump
        BY <2>3, <3>3 DEF Check, IInv, TypeOK, Procs
      <4> QED
        BY <4>1 DEF AssetsKept
    <3> QED
      BY <3>2, <3>3
  <2>4. ASSUME NEW e \in Edits, Look(e) \/ Keep(e) \/ Save(e) PROVE AssetsKept'
    <3>1. UNCHANGED <<table, faults, dumped>>
      BY <2>4 DEF Look, Keep, Save
    <3>2. \A p \in Procs : pc[p] \in {"open", "fill"} => pc'[p] = pc[p] /\ buf'[p] = buf[p]
      BY <2>4 DEF Look, Keep, Save, IInv, TypeOK, Procs
    <3> QED
      BY <3>1, <3>2, <2>1
  <2>5. ASSUME NEW c \in Calls, Ask(c) PROVE AssetsKept'
    <3>1. \A p \in Procs : pc[p] \in {"open", "fill"} => pc'[p] = pc[p]
      BY <2>5 DEF Ask, IInv, TypeOK, Procs
    <3> QED
      BY <2>5, <3>1, <2>1 DEF Ask
  <2>6. ASSUME NEW d \in Deletes, Delete(d) PROVE AssetsKept'
    <3>1. \A p \in Procs : pc[p] \in {"open", "fill"} => pc'[p] = pc[p]
      BY <2>6 DEF Delete, IInv, TypeOK, Procs
    <3> QED
      BY <2>6, <3>1, <2>1 DEF Delete
  <2>7. ASSUME NEW p \in Procs, Open(p) PROVE AssetsKept'
    <3>1. \A q \in Procs : pc[q] \in {"open", "fill"} => pc'[q] \in {"open", "fill"}
      BY <2>7 DEF Open, IInv, TypeOK
    <3> QED
      BY <2>7, <3>1, <2>1 DEF Open
  <2>8. ASSUME NEW p \in Procs, Fill(p) PROVE AssetsKept'
    <3>1. UNCHANGED <<table, faults>> /\ dumped' = (dumped \/ buf[p].body = Dump)
      BY <2>8 DEF Fill
    <3>2. \A q \in Procs : pc[q] \in {"open", "fill"} => q = p
      BY <2>8 DEF Fill, IInv, LockOK
    <3>3. table = "renamed" /\ faults = 0 => dumped \/ buf[p].body = Dump
      BY <3>2 DEF AssetsKept, Procs
    <3> QED
      BY <3>1, <3>3 DEF AssetsKept
  <2>9. ASSUME NEW p \in Procs, WriteFails(p) PROVE AssetsKept'
    BY <2>9, FaultsEnd DEF WriteFails, IInv
  <2>10. ASSUME Tick PROVE AssetsKept'
    BY <2>10, <2>1 DEF Tick
  <2>11. ASSUME Crash PROVE AssetsKept'
    BY <2>11, FaultsEnd DEF Crash
  <2>12. ASSUME UNCHANGED vars PROVE AssetsKept'
    BY <2>12, <2>1 DEF vars
  <2>13. ASSUME NEW p \in Procs, Write(p) PROVE AssetsKept'
    BY <2>7, <2>8, <2>9, <2>13 DEF Write
  <2> QED
    BY <2>2, <2>3, <2>4, <2>5, <2>6, <2>10, <2>11, <2>12, <2>13
    DEF Next, Pass, Edit, Procs, Calls
<1> QED
  BY <1>1, <1>2, Invariance, PTL DEF Spec
=============================================================================
