---------------------------- MODULE CommandText ----------------------------
(* The text of a command's output (src/sag/executor.py): what hub_shell tells *)
(* of the bytes that a command has written, and what its audit row keeps.     *)
(* Here the command prints the file, which may be any bytes: the beginning to *)
(* stdout and the rest to stderr.                                             *)
EXTENDS ReadFile

VARIABLES
    printed,    \* the bytes written to stdout and stderr, and the notes added
    said        \* stdout, stderr and truncated of the answer

Nothing == [out |-> <<>>, err |-> <<>>, notes |-> 0]
Silence == [out |-> <<>>, err |-> <<>>, truncated |-> FALSE]

CommandInit ==
    /\ Init
    /\ printed = Nothing
    /\ said = Silence

(* _Capture: the first bytes, and whether there were more.                    *)
Captured(raw) == SubSeq(raw, 1, Least(BodyMax, Len(raw)))
Dropped(raw) == Len(raw) > BodyMax

(* Decoding never fails: U+FFFD, of two bytes here, is put for each byte that *)
(* is not UTF-8.  If bytes were dropped, a character cut off at the end is    *)
(* held back.                                                                 *)
Decoded(raw) ==
    LET data == IF Dropped(raw) THEN Whole(Captured(raw)) ELSE Captured(raw)
    IN  FlattenSeq([i \in DOMAIN data |->
            IF i \in Undecodable(data, TRUE) THEN <<"lead", "cont">> ELSE <<data[i]>>])

Notes(n) == [i \in 1 .. n |-> "note"]

(* Mutant: a stream that lost bytes while it was read is not marked for it.   *)
OutputUnmarked(p) ==
    LET clip == ClipOutput(Decoded(p.out), Decoded(p.err) \o Notes(p.notes), BodyMax)
    IN  [out |-> clip.out, err |-> clip.err,
         truncated |-> clip.clipped \/ Dropped(p.out) \/ Dropped(p.err)]

(* The end of execute_shell, the notes about a timeout added to stderr.       *)
Output(p) ==
    LET clip == ClipOutput(Decoded(p.out), Decoded(p.err) \o Notes(p.notes), BodyMax)
    IN  [out |-> IF Dropped(p.out) THEN AddMark(clip.out) ELSE clip.out,
         err |-> IF Dropped(p.err) THEN AddMark(clip.err) ELSE clip.err,
         truncated |-> clip.clipped \/ Dropped(p.out) \/ Dropped(p.err)]

(* A command that ends (no note), is timed out (one), or is timed out while a *)
(* process that left the group holds its pipes (two).                         *)
tool_shell ==
    /\ phase = "reading" /\ got = <<>> /\ node = "file" /\ ~opened
    /\ limit = NoLimit /\ first = 0 /\ cap = Min(Caps)
    /\ \E k \in 0 .. Len(file), n \in 0 .. 2 :
          LET p == [out |-> SubSeq(file, 1, k), err |-> SubSeq(file, k + 1, Len(file)), notes |-> n]
              a == Output(p)
              body == Bodies(a.out, a.err, BodyMax)
          IN  /\ printed' = p
              /\ said' = a
              /\ row' = [status |-> "TOLD", out |-> body.out, err |-> body.err, truncated |-> body.truncated]
    /\ phase' = "printed"
    /\ UNCHANGED <<node, file, args, offset, got, error, reader, torn>>

CommandNext ==
    \/ Next /\ UNCHANGED <<printed, said>>
    \/ tool_shell

CommandSpec == CommandInit /\ [][CommandNext]_<<vars, printed, said>>
-----------------------------------------------------------------------------
(* All that a stream would say, had there been no limit.                      *)
InFull(raw) ==
    FlattenSeq([i \in DOMAIN raw |->
        IF i \in Undecodable(raw, TRUE) THEN <<"lead", "cont">> ELSE <<raw[i]>>])

Faithful(text, full, notes) ==
    \E i \in 0 .. Len(full), n \in 0 .. notes :
        /\ Unmarked(text) = SubSeq(full, 1, i) \o Notes(n)
        /\ Marked(text) <=> i < Len(full) \/ n < notes

(* A stream that lost anything says so, once, at its end, and one that did    *)
(* not does not, wherever it was lost: in the pipe, in decoding or in the     *)
(* clip; what is left is how it began, and the notes (docs/v2.md:452).        *)
LossMarked ==
    phase = "printed" =>
        /\ Faithful(said.out, InFull(printed.out), 0)
        /\ Faithful(said.err, InFull(printed.err), printed.notes)
        /\ said.truncated <=> Marked(said.out) \/ Marked(said.err)

(* A short stderr is told whole, the notes about a timeout included, however  *)
(* much there is on stdout (clip.py:10).                                      *)
StderrKept ==
    phase = "printed" =>
        LET full == InFull(printed.err) \o Notes(printed.notes)
        IN  Len(full) <= BodyMax \div Divisor => said.err = full

(* The audit row says what the caller was told, although it is clipped again, *)
(* markers and all, and what is told stays within the budget.                 *)
RowAgrees ==
    phase = "printed" =>
        /\ row = [status |-> "TOLD", out |-> said.out, err |-> said.err, truncated |-> said.truncated]
        /\ Len(Unmarked(said.out)) + Len(Unmarked(said.err)) <= BodyMax
=============================================================================
