------------------------------ MODULE ReadFile ------------------------------
(* hub_read_file (src/sag/tools.py), readline by readline, and a client that  *)
(* pages through a file with it while another process appends to that file or *)
(* removes it.                                                                *)
EXTENDS Clip, SequencesExt

CONSTANTS
    Bytes,      \* "a", "newline", "nul", and of Clip "lead", "cont" (no marker)
    MaxBytes,   \* bound on the file's length
    Caps,       \* values of GATEWAY_READ_MAX_BYTES
    BodyMax,    \* GATEWAY_AUDIT_BODY_MAX_BYTES
    Limits,     \* the client's limit; NoLimit when it gives none
    Offsets,    \* where it begins
    NoLimit,
    SkipChunk,  \* _SKIP_CHUNK
    Peek        \* bytes looked at for a NUL

ASSUME ReadFileAssumption ==
    /\ {MaxBytes, BodyMax} \subseteq Nat /\ Offsets \subseteq Nat
    /\ {SkipChunk, Peek} \cup Caps \cup (Limits \ {NoLimit}) \subseteq Nat \ {0}
    /\ NoLimit \notin Nat /\ "mark" \notin Bytes

VARIABLES
    node,       \* what the path names: file, directory, special, gone
    file,       \* the bytes of the file, also of one removed while it is open
    cap, limit, first,  \* the configuration and the client's arguments, fixed
    offset,     \* the client's next offset
    got,        \* what it has read
    phase,      \* reading, done, refused (printed: module CommandText)
    error,      \* why it was refused, with the line for bad UTF-8
    row,        \* the last audit row: status, bodies, truncated
    opened,     \* a call has the file open, and has come so far:
    lines,      \* ... lines skipped, then taken
    begin,      \* ... where the last line skipped ended
    place,      \* ... bytes consumed
    seen,       \* ... part of a line has been skipped
    torn        \* history: a line grew when a call had counted it

args == <<cap, limit, first>>
client == <<offset, got, phase, error, row>>
reader == <<opened, lines, begin, place, seen>>
vars == <<node, file, args, client, reader, torn>>

NoRow == [status |-> "none", out |-> <<>>, err |-> <<>>, truncated |-> FALSE]
NoError == [kind |-> "none", line |-> 0]

Init ==
    /\ node \in {"file", "directory", "special", "gone"}
    /\ file \in UNION {[1 .. n -> Bytes] : n \in 0 .. MaxBytes}
    /\ node # "file" => file = <<>>
    /\ cap \in Caps /\ limit \in Limits /\ first \in Offsets
    /\ offset = first
    /\ got = <<>>
    /\ phase = "reading"
    /\ error = NoError
    /\ row = NoRow
    /\ opened = FALSE /\ seen = FALSE /\ torn = FALSE
    /\ lines = 0 /\ begin = 0 /\ place = 0

-----------------------------------------------------------------------------
(* readline(k), from a position: through the newline, k bytes, or the end of  *)
(* the file as it is then.                                                    *)
ReadLine(f, at, k) ==
    SubSeq(f, at + 1,
           Min({q \in at + 1 .. Len(f) : f[q] = "newline" \/ q = at + k} \cup {Len(f)}))

(* Positions of the bytes that are not UTF-8; a character that the end cuts   *)
(* off is held back unless the data is final.                                 *)
Undecodable(data, final) ==
    {i \in DOMAIN data :
        \/ data[i] = "cont" /\ (i = 1 \/ data[i - 1] # "lead")
        \/ data[i] = "lead" /\ (IF i = Len(data) THEN final ELSE data[i + 1] # "cont")}

Binary(f) == \E i \in 1 .. Least(Peek, Len(f)) : f[i] = "nul"

BadLine(start, data, at) ==
    start + 1 + Cardinality({i \in 1 .. at - 1 : data[i] = "newline"})

(* Mutant: the line that was cut is asked for again.                          *)
NextSame(start, page) ==
    CASE page.cut = "none" -> 0
      [] page.cut = "line" -> start + page.full + 1
      [] page.cut = "partial" -> start + page.full + 1

(* next_offset of the result; 0 when there is none.                           *)
NextOffset(start, page) ==
    CASE page.cut = "none" -> 0
      [] page.cut = "line" -> start + page.full + 1
      [] page.cut = "partial" -> start + page.full + 2

-----------------------------------------------------------------------------
(* One call.                                                                  *)
Start == IF offset = 0 THEN 0 ELSE offset - 1

Closed == opened' = FALSE /\ seen' = FALSE /\ lines' = 0 /\ begin' = 0 /\ place' = 0

Failed(why) ==
    /\ phase' = "refused"
    /\ error' = why
    /\ row' = [NoRow EXCEPT !.status = "FAILED"]
    /\ UNCHANGED <<offset, got>>
    /\ Closed

Missing == node = "gone" /\ Failed([kind |-> "missing", line |-> 0])
NotAFile == node \in {"directory", "special"} /\ Failed([kind |-> node, line |-> 0])
NotText == node = "file" /\ Binary(file) /\ Failed([kind |-> "binary", line |-> 0])

Open ==
    /\ node = "file" /\ ~Binary(file)
    /\ opened' = TRUE
    /\ UNCHANGED <<client, lines, begin, place, seen>>

NotUtf8(page) ==
    LET bad == Undecodable(page.data, page.cut # "partial")
    IN  /\ bad # {}
        /\ Failed([kind |-> "utf8", line |-> BadLine(Start, page.data, Min(bad))])

(* The client follows next_offset.  A page that its limit ended it continues  *)
(* after, if the last line of it is a whole one.                              *)
Read(page) ==
    /\ Undecodable(page.data, page.cut # "partial") = {}
    /\ LET content == IF page.cut = "partial" THEN Whole(page.data) ELSE page.data
           body == Bodies(content, <<>>, BodyMax)
       IN  /\ got' = got \o content
           /\ row' = [status |-> "SUCCESS", out |-> body.out, err |-> body.err, truncated |-> body.truncated]
           /\ \/ /\ page.cut # "none"
                 /\ offset' = NextOffset(Start, page)
                 /\ UNCHANGED phase
              \/ /\ page.cut = "none" /\ page.full = limit /\ EndsWith(content, "newline")
                 /\ offset' = Start + 1 + limit
                 /\ UNCHANGED phase
              \/ /\ page.cut = "none" /\ ~(page.full = limit /\ EndsWith(content, "newline"))
                 /\ phase' = "done"
                 /\ UNCHANGED offset
    /\ UNCHANGED error
    /\ Closed

(* The whole lines that fit, or the beginning of one that never will, and     *)
(* what was held back: none, line, partial.                                   *)
Page(size, full, cut) == [data |-> SubSeq(file, begin + 1, begin + size), full |-> full, cut |-> cut]
Returns(page) == NotUtf8(page) \/ Read(page)

Skipped(part) ==
    /\ lines' = lines + 1 /\ seen' = FALSE
    /\ place' = place + Len(part) /\ begin' = place + Len(part)
    /\ UNCHANGED <<opened, client>>

(* Mutant: one chunk is taken for the line.                                   *)
SkipOnce ==
    /\ opened /\ lines < Start
    /\ LET part == ReadLine(file, place, SkipChunk)
       IN  \/ part = <<>> /\ Returns(Page(0, 0, "none"))
           \/ part # <<>> /\ Skipped(part)

(* A step of _skip_line: to the end of the line or a chunk further; at the    *)
(* end of the file the page is empty.                                         *)
Skip ==
    /\ opened /\ lines < Start
    /\ LET part == ReadLine(file, place, SkipChunk)
       IN  \/ part = <<>> /\ ~seen /\ Returns(Page(0, 0, "none"))
           \/ (IF part = <<>> THEN seen ELSE EndsWith(part, "newline")) /\ Skipped(part)
           \/ /\ part # <<>> /\ ~EndsWith(part, "newline")
              /\ seen' = TRUE /\ place' = place + Len(part)
              /\ UNCHANGED <<opened, lines, begin, client>>

(* A step of _read_window: a line is taken if it fits, and the limit may end  *)
(* the page with it.                                                          *)
Take ==
    /\ opened /\ lines >= Start
    /\ LET full == lines - Start
           size == place - begin
           line == ReadLine(file, place, cap - size + 1)
           fits == Len(line) <= cap - size
       IN  \/ line = <<>> /\ Returns(Page(size, full, "none"))
           \/ /\ line # <<>> /\ fits /\ full + 1 # limit
              /\ lines' = lines + 1 /\ place' = place + Len(line)
              /\ UNCHANGED <<opened, begin, seen, client>>
           \/ /\ line # <<>> /\ fits /\ full + 1 = limit
              /\ Returns(Page(size + Len(line), limit, "none"))
           \/ ~fits /\ full = 0 /\ Returns(Page(cap, 0, "partial"))
           \/ ~fits /\ full # 0 /\ Returns(Page(size, full, "line"))

tool_read_file ==
    /\ phase = "reading"
    /\ \/ ~opened /\ (Missing \/ NotAFile \/ NotText \/ Open)
       \/ Skip
       \/ Take
    /\ UNCHANGED <<node, file, args, torn>>

-----------------------------------------------------------------------------
(* Another process, which may hold the file open too.                         *)

(* The call in progress has counted the file's last line, that has no newline *)
(* yet, and will take what is added to it for a line of its own.              *)
Counted == opened /\ ~seen /\ place = Len(file) /\ place # 0 /\ file[place] # "newline"

AppendByte ==
    /\ phase = "reading" /\ (node = "file" \/ opened) /\ Len(file) < MaxBytes
    /\ \E b \in Bytes : file' = Append(file, b)
    /\ torn' = (torn \/ Counted)
    /\ UNCHANGED <<node, args, client, reader>>

Unlink ==
    /\ phase = "reading" /\ node # "gone"
    /\ node' = "gone"
    /\ UNCHANGED <<file, args, client, reader, torn>>

Next == tool_read_file \/ AppendByte \/ Unlink

Spec == Init /\ [][Next]_vars

-----------------------------------------------------------------------------
(* A file byte by byte: the line a byte is on, its place there, and how long  *)
(* that line is.                                                              *)
NewlinesBefore(f, q) == {i \in 1 .. q - 1 : f[i] = "newline"}
LineOf(f, q) == 1 + Cardinality(NewlinesBefore(f, q))
Column(f, q) == q - Max(NewlinesBefore(f, q) \cup {0})
LineLength(f, q) ==
    Cardinality({i \in DOMAIN f : NewlinesBefore(f, i) = NewlinesBefore(f, q)})

(* The bytes that can be read: all of a line, or as many as the cap allows,   *)
(* up to the last whole character.                                            *)
Reachable(f, q) ==
    \/ LineLength(f, q) <= cap
    \/ Column(f, q) < cap
    \/ Column(f, q) = cap /\ f[q] # "lead"

(* The bytes of a file at some of its positions, in their order.              *)
BytesAt(f, places) ==
    LET chosen[q \in 0 .. Len(f)] ==
          IF q = 0 THEN <<>>
          ELSE IF q \in places THEN Append(chosen[q - 1], f[q]) ELSE chosen[q - 1]
    IN  chosen[Len(f)]

(* What can be read from the first line asked for up to a line.               *)
ShownUpTo(f, last) ==
    BytesAt(f, {q \in DOMAIN f : LineOf(f, q) \in first .. last /\ Reachable(f, q)})

(* The type of each variable; the next page begins right after the last line  *)
(* at the latest, unless the client began beyond it or counted a line twice.  *)
TypeOK ==
    /\ node \in {"file", "directory", "special", "gone"}
    /\ file \in Seq(Bytes)
    /\ {offset, lines, begin, place} \subseteq Nat
    /\ begin <= place /\ place <= Len(file)
    /\ offset = first \/ torn
         \/ offset <= 2 + Cardinality({i \in DOMAIN file : file[i] = "newline"})
    /\ got \in Seq(Bytes)
    /\ phase \in {"reading", "done", "refused", "printed"}
    /\ error \in [kind : {"none", "missing", "directory", "special", "binary", "utf8"}, line : Nat]
    /\ row.status \in {"none", "SUCCESS", "FAILED", "TOLD"}
    /\ {row.truncated, opened, seen, torn} \subseteq BOOLEAN

(* Pages join up: "a caller that follows next_offset loses nothing", the rest *)
(* of an over-long line excepted (tools.py:196-200), whatever the cap, the    *)
(* limit and the first offset, and though the file grows between calls and    *)
(* within them.  No line comes twice, none is missing when the client stops.  *)
(* The exception is a last line without a newline that grows when a call has  *)
(* counted it and reads on (torn): the call counts it twice, and next_offset  *)
(* passes over a line.  What came is always text: an over-long line is not    *)
(* cut inside a character.                                                    *)
PagesJoin ==
    /\ phase = "reading" /\ ~torn => got = ShownUpTo(file, Start)
    /\ phase = "done" /\ ~torn => got = ShownUpTo(file, Len(file))
    /\ Undecodable(got, TRUE) = {}

(* What a row holds of a page: all of it, or its beginning as far as the      *)
(* budget goes, marked and not cut inside a character.                        *)
Holds(audited, page) ==
    LET kept == Unmarked(audited.out)
    IN  IF audited.truncated
        THEN /\ Marked(audited.out) /\ IsPrefix(kept, page)
             /\ Undecodable(kept, TRUE) = {}
             /\ Len(kept) \in BodyMax - 1 .. BodyMax
        ELSE audited.out = page

(* Every page is within the cap (tools.py:199), gets the client on, so that   *)
(* it comes to the end of a file that stays, and is what the audit row says.  *)
PageRight ==
    LET page == SubSeq(got', Len(got) + 1, Len(got')) IN
    /\ Len(page) <= cap
    /\ opened /\ ~opened' /\ phase' = "reading" => offset' > offset
    /\ page # <<>> => Holds(row', page)

EachPage == [][PageRight]_vars
=============================================================================
