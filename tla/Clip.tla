-------------------------------- MODULE Clip --------------------------------
(* Text cut to a budget of bytes (src/sag/clip.py) and what the audit log     *)
(* keeps of a call's output (src/sag/db.py, append_audit).                    *)
(*                                                                            *)
(* Text is the sequence of its UTF-8 bytes.  A character has one byte, or two *)
(* ("lead", "cont"); the marker "\n[truncated]\n" counts as one byte.         *)
EXTENDS Naturals, Sequences

CONSTANT Divisor    \* STDERR_RESERVE_DIVISOR

ASSUME ClipAssumption == Divisor \in Nat \ {0}

Mark == <<"mark">>
Least(a, b) == IF a < b THEN a ELSE b
EndsWith(text, byte) == text # <<>> /\ text[Len(text)] = byte

(* Bytes that do not make a character at the end of a prefix are dropped.     *)
Whole(raw) == IF EndsWith(raw, "lead") THEN SubSeq(raw, 1, Len(raw) - 1) ELSE raw

Cut(raw, keep) == IF keep >= Len(raw) THEN raw ELSE Whole(SubSeq(raw, 1, keep)) \o Mark

(* Mutant: a full stdout leaves nothing for stderr.                           *)
ClipGreedy(out, err, max) ==
    LET outKeep == Least(Len(out), max)
        errKeep == Least(Len(err), max - outKeep)
    IN  [out |-> Cut(out, outKeep), err |-> Cut(err, errKeep),
         clipped |-> Len(out) + Len(err) > max]

(* clip_output.                                                               *)
ClipOutput(out, err, max) ==
    LET reserve == Least(Len(err), max \div Divisor)
        outKeep == Least(Len(out), max - reserve)
        errKeep == Least(Len(err), max - outKeep)
    IN  IF Len(out) + Len(err) <= max
        THEN [out |-> out, err |-> err, clipped |-> FALSE]
        ELSE [out |-> Cut(out, outKeep), err |-> Cut(err, errKeep), clipped |-> TRUE]

(* _split_mark: a text that arrives marked was cut before.                    *)
Marked(text) == EndsWith(text, "mark")
Unmarked(text) == IF Marked(text) THEN SubSeq(text, 1, Len(text) - 1) ELSE text
AddMark(text) == IF Marked(text) THEN text ELSE text \o Mark

(* Mutant: the marker is clipped like content.                                *)
BodiesWithMarks(stdout, stderr, max) ==
    LET clip == ClipOutput(stdout, stderr, max)
    IN  [out |-> clip.out, err |-> clip.err, truncated |-> clip.clipped]

(* The bodies that append_audit stores, and its truncated column.             *)
Bodies(stdout, stderr, max) ==
    LET clip == ClipOutput(Unmarked(stdout), Unmarked(stderr), max)
    IN  [out |-> IF Marked(stdout) THEN AddMark(clip.out) ELSE clip.out,
         err |-> IF Marked(stderr) THEN AddMark(clip.err) ELSE clip.err,
         truncated |-> clip.clipped \/ Marked(stdout) \/ Marked(stderr)]
=============================================================================
