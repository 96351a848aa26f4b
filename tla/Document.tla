------------------------------ MODULE Document ------------------------------
(* What doc_lock promises for SERVER_AGENTS.md (src/sag/overview.py:17):      *)
(* readers and writers see it change at once.  An edit replaces the text and  *)
(* drops the status block, a status pass replaces the block and nothing else. *)
(* Deletion takes no lock: a rewrite under way may put back what was deleted, *)
(* but nothing older.                                                         *)
EXTENDS Naturals

CONSTANTS
    Readers,
    Bodies,    \* handwritten parts: the agents' texts, and those below
    Skeleton,  \* written when there is no file
    Dump,      \* made from the v1 asset table
    Nothing,   \* of an empty file
    Absent,    \* no file
    None       \* nothing read

VARIABLES
    text,   \* the document: handwritten part, and whether its status block is about it
    last,   \* what was deleted last, or Absent
    seen,   \* what a reader has read, if it still has it
    faults  \* failed writes and crashes so far

Empty == [body |-> Nothing, fresh |-> FALSE]

Init ==
    /\ text \in {Absent} \cup {[body |-> b, fresh |-> FALSE] : b \in Bodies}
    /\ last = Absent
    /\ seen = [r \in Readers |-> None]
    /\ faults = 0

(* What a rewrite starts from.                                                *)
Base == IF text = Absent THEN {last, Empty} \ {Absent} ELSE {text}

Create ==
    /\ text = Absent
    /\ text' = [body |-> Skeleton, fresh |-> FALSE]
    /\ UNCHANGED <<last, seen, faults>>

Edit ==
    /\ \E b \in Bodies : text' = [body |-> b, fresh |-> FALSE]
    /\ UNCHANGED <<last, seen, faults>>

Stamp ==
    /\ \E t \in Base, f \in BOOLEAN : text' = [t EXCEPT !.fresh = f]
    /\ UNCHANGED <<last, seen, faults>>

(* Only into a document that has no inventory.                                *)
Export ==
    /\ \E t \in Base : /\ t.body \in {Skeleton, Nothing}
                       /\ text' = [body |-> Dump, fresh |-> FALSE]
    /\ UNCHANGED <<last, seen, faults>>

Delete ==
    /\ text # Absent
    /\ text' = Absent
    /\ last' = text
    /\ UNCHANGED <<seen, faults>>

Read(r) ==
    /\ seen' = [seen EXCEPT ![r] = IF text = Absent THEN Empty ELSE text]
    /\ UNCHANGED <<text, last, faults>>

Forget(r) ==
    /\ seen' = [seen EXCEPT ![r] = None]
    /\ UNCHANGED <<text, last, faults>>

(* A write fails half way, or the gateway dies in it: all of it is lost.      *)
Fault ==
    /\ faults' = faults + 1
    /\ text' \in {text, Empty}
    /\ UNCHANGED last
    /\ seen' \in {seen, [r \in Readers |-> None]}

Next == Create \/ Edit \/ Stamp \/ Export \/ Delete \/ Fault \/ \E r \in Readers : Read(r) \/ Forget(r)

Spec == Init /\ [][Next]_<<text, last, seen, faults>>
=============================================================================
