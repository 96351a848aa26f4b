# A TLA+ model of server-agents-gateway

The gateway (`src/sag`) is one Python process that gives AI agents a set of
`hub_*` tools over HTTP. Tool handlers run in a thread pool, so any two calls
may overlap; a few threads and processes run beside them: the background
refresh, the periodic loop, the shells that `hub_shell` starts with the `rm`
wrapper their command line calls, and the administrator's command line. The
shared state is the file system, the recycle bin, one SQLite database (every
handler opens a connection of its own) and a few module globals. This directory
holds TLA+ modules for its parts, TLC configurations and TLAPS proofs.

Contents: 1 inventory, 2 plan, 3 how the parts interact, 4 modules and code,
5 runs, 6 fairness, 7 proofs, 8 what the checks found, 9 what is not modelled.

To run: `tlc -config <run>.cfg <module>`, `tlapm <module>_proofs.tla`.

## 1. Inventory

| component | state | operations | what makes it correct |
|---|---|---|---|
| recycle bin and file tools (`trash.py`, `tools.py`, `wrappers/rm`) | files, `trash/<id>/`, `trash_items` | write, patch, delete, mkdir, restore, `rm`, purge | what is overwritten or deleted can be put back; an error is true; protected paths are never touched; rows and bin directories account for each other |
| background refresh (`reconciler.py:284-333`) | `_async_running`, `_async_dirty`, `_async_idle`, a thread | request, pass, wait | one worker; every accepted request gets a pass that begins after it; flags never stick |
| tasks (`collab.py:626-873`) | `agent_tasks`, messages of a task | create, update (claim, release, done, cancel, reopen, comment) | a claim belongs to its holder; rows are consistent; results survive; one thread per task |
| messages, inbox, groups (`collab.py:94-618`) | `agent_messages`, recipients, `agent_groups` | send, reply, inbox, read, mark, groups | nothing unread is marked read unseen; a message reaches exactly its recipients |
| host document (`overview.py`, `reconciler.py:123-141`) | `SERVER_AGENTS.md`, v1 asset table, `doc_lock` | write, patch, delete, status pass, export | handwritten text is never lost to a status pass or a deletion; the status block is the latest |
| dispatch and audit (`server.py:143-210`, `tools.py:30-80`, `db.py`) | `audit_events`, `audit_bodies` | dispatch, record, batch | one row per failed call and per effect |
| shell executor (`executor.py`) | a process group, two pipes | run, collect, kill | ends by the timeout; the output read is what was written first |
| transport and sessions (`server.py:213-465`, `521-661`) | `_SESSIONS`, `_STALE_SEEN` | `/mcp`, `/messages`, `/sse`, 404, hint | an old session id gets one 404 and one hint, whatever overlaps; answers go to their caller |
| credentials (`auth.py`) | `agent_credentials` | issue, revoke, check | a replaced or revoked token never works again |
| paging and clipping (`tools.py:180-295`, `clip.py`, `db.py:221-266`, `executor.py:37-55`) | none | `hub_read_file`, `clip_output`, `append_audit` | pages join up, also of a file that grows, no line is lost or repeated; what was cut is marked, once |
| database set-up, migration, backup (`db.py`) | schema, v1 tables | `init_db`, `_migrate_v1_audit`, `backup_database` | each row migrates once |
| redaction, configuration, catalogue, probes | none | text, data, I/O | |

What is hard in it: handlers overlap freely and no lock covers a path or a
row; several steps on the disk and one in the database make up each file
operation, and each step can fail or be the last one before a kill; a task is
read outside the transaction that writes it; the refresh is asked for by
callers that do not wait; the document is moved away under a thread that is
writing to it; overlapping requests of one client share the hint that it is owed;
output is cut, decoded, clipped and marked in three places. `PROJECT.json` lists every hazard at its line.

## 2. Plan

Done, most important behaviour first:

1. `RecycleBin`: every file tool, the `rm` wrapper and the purges; proofs, of calls
   that overlap freely and of calls on different paths.
2. `RefreshService` (abstract) and `Reconcile` (implements it); proofs.
3. `Tasks`; proofs.
4. `Document` (abstract) and `HostDocument` (implements it, and schedules its
   background passes with `RefreshService`); proofs.
5. `Messages`; proofs of the read marks, of the order of answers and of the audience.
6. `Executor`, and `ToolCall`, which runs its commands with it; proofs.
7. `Clip`, `ReadFile`, `CommandText`: paging, clipping and marking as functions,
   against references that look at the file byte by byte.
8. `Credentials` and `Sessions`, composed in `Gateway`; proofs.
9. `hub_delete_file` on `SERVER_AGENTS.md`, which takes no lock, in `HostDocument`;
   proofs.
10. Proofs about paging, decoding, clipping and marking, for texts of any length.

Left, in this order:

11. The refinement of the safe part of `RecycleBin` by an atomic bin.
12. `hub_restore_file` on `SERVER_AGENTS.md`; the backup (`db.py`).

## 3. How the parts interact

| who | calls or shares | with |
|---|---|---|
| `dispatch_tool` | calls a tool, audits its failure | every tool (`ToolCall`) |
| `hub_shell` | `execute_shell`, then `append_audit` | `Executor` in `ToolCall` |
| a command of `hub_shell` | starts the `rm` wrapper, which its timeout kills | `RecycleBin` (`Kill`) |
| file tools | `trash_put`, `request_reconcile` | `RecycleBin`, `RefreshService` |
| `hub_write_file`, `hub_patch_file`, `hub_delete_file` on `SERVER_AGENTS.md` | `doc_lock` (not the last), `trash_put` | `HostDocument` |
| the background worker | status passes over the document | `RefreshService` in `HostDocument` |
| `hub_update_task` | posts a message in the task's thread | `Tasks` (`Notify`), `Messages` |
| token issue and revocation | `agent_credentials`, read by requests, messages and tasks | `Credentials` in `Gateway`; `Directory`, `Issue`, `Revoke` in `Messages`, `Tasks` |
| a request | authenticates, then asks the table of old sessions, then dispatches | `Credentials` and `Sessions` in `Gateway` |
| `hub_shell` and `hub_read_file` | `clip_output`, then `append_audit`, which clips again | `Clip` in `CommandText` and `ReadFile` |

Calls meet in the file system and the database, never in memory, but for
`doc_lock`, the flags of the refresh and the two tables of sessions. No lock covers a path, a task or a
message, so each model cuts a call into the steps between which the code lets
others in: a system call on the disk, a `SELECT`, a transaction.

## 4. Modules and code

`PROJECT.json` maps every definition to its lines. In all modules a call is
used once, so the set of calls bounds a behaviour, and names its own bin item,
message, thread or text. Definitions marked "Mutant" are plausible bugs, used
to see that each property can fail.

**`RecycleBin`** (`trash.py`, the tools in `tools.py`, `wrappers/rm`). `disk` says
what is at each path and in each bin payload `trash/<id>/...`; `dirs` and `rows`
are the bin's directories and `trash_items`; `lock` is SQLite's write lock; `pc`
says where in `trash_put`, `_move`, `restore_trash` or a purge a call is. One
action per step on the disk or transaction: `PutCheck`, `PutCopy` (keep=True),
`Rename`, or `MoveCopy` and `MoveDrop` to another filesystem, `Record`, and
`Rollback` and `Undone` if the row cannot be inserted; `Open` and `Fill` of
`write_text`; `Finish` and `Forget` of a restore; `PurgeRemove`, `PurgeDelete`,
`PurgeCommit`; `Audit`, the row of the tool itself, which comes after the effect.
Every step has its failure (`PutCopyFails`, `MoveFails`, `AuditFails`, ...); the
gateway may crash, the `rm` wrapper and the root CLI may be killed. What an
exception of `trash_put` comes to is `Raised`: an error, but for `rm -f`, which
swallows all but that of a protected path and exits 0 (`ignored`). A file open
for writing follows its inode (`fd`). Abstracted: paths are flat, so a
directory is one node with a flag `whole` for what an interrupted removal or copy
leaves of it; a symlink is not told apart from a file; copying a file onto an
existing directory of another filesystem fails; a copy of one file is a step;
an unknown id of `hub_restore_file` changes nothing and is no action; which rows
a purge selects (by age) is open.

**`Reconcile`** (`reconciler.py:284-333`). `running`, `dirty`, `idle` are
`_async_running`, `_async_dirty`, `_async_idle`. `Coalesce` and `Claim` are
`request_reconcile` under its lock, `Start` and `StartFails` the thread it then
starts outside it, `BeginPass`, `EndPass`, `Again`, `Rest` the worker's loop.
**`RefreshService`** is what callers may rely on: passes do not overlap and each
accepted request is followed by a pass that begins after it. Passes that
callers make themselves (`reconcile()` at start, `hub_rebuild_overview`) are in
`HostDocument`, not here.

**`Tasks`** (`collab.py:626-873`). A task's row, the messages about it, and calls of
`hub_create_task` (one step) and `hub_update_task`: `Read` is the SELECT and the
decision, outside any transaction; `Write` is the transaction, with columns
computed from the row read and the thread read again (`Notify`). Texts and
result contents are the call that wrote them.

**`HostDocument`** (`overview.py`, `reconciler.py:123-141`, `tools.py`). `doc` is
the file: its handwritten part, and whether its status block was probed from that
part; `lock` is `doc_lock`; `table` the v1 asset table. A pass is `Ensure`,
`Check` (with the v1 export), `Probe`, `Stamp`, `Finish`; an edit is `Look`,
`Keep` (the copy to the bin, without the lock), `Save`, `Ask`; writing is `Open`,
which truncates, and `Fill`; `WriteFails` and `Crash` may come at any point.
`Delete` moves the file to the bin between any two of these steps: a thread that
has it open then writes into the bin (`away`), as descriptors follow the file (the
bin is on its filesystem, where a move is a rename). Each later step meets the
missing file as its code does: `Check`, `Probe` and `Stamp` may end in the exception
of a read of a file that is gone. **`Document`** is the atomic register that those
who take the lock see; what they rewrite may be what was just deleted, and nothing
older. Abstracted: the bin holds handwritten parts; passes that a caller makes are
used once; a restore of the document is left out.

**`Messages`** (`collab.py:67-618`). `messages` with its recipients, in order of
insertion; `read` marks; `active` and `members` are the directory. A send is
`Send` or `Reply`, `Filter`, `Actives`, `Resolve`, `Stamp`, `Insert`: each SELECT,
the reading of the clock and the transaction, with the directory (`SetGroup`,
`Issue`, `Revoke`) and other calls in between. A view is `Inbox` or
`ReadMessage`, then `Mark`. SELECTs of rows that never change are one step with
what follows; an address names at most one group; the clock does not go back;
delivery of the answer is not modelled; list views change nothing and are left
out.

**`Executor`** (`executor.py`). The supervisor's place in `_collect`, the buffers
(`kept`, `dropped`) and the registered pipes; around it, processes that fork
(inheriting pipes, and the group unless they leave it), write, redirect, exit.
A read takes any number of the bytes there. A kill is immediate, and a wait
that has run out is over before the next moment of time, so `now` measures the
code's own waiting and not the scheduler.

**`ToolCall`** (`server.py:143-210`, `tools.py`) extends `Executor` with one call
of a kind: unknown, view, edit, batch, shell. The database may refuse any row
(`Refused`). `Path`, `Refuse`, `Record` are a tool's effect and its rows; `Start`,
`Execute`, `Executed`, `TrashIds`, `AuditShell`, `AuditAgain` are `hub_shell`;
`Failed` is `_audit_failure`. An edit is one step here (its own steps are in
`RecycleBin`): refused, done, or broken by an exception, which may come before its
effect or after it (a removal across devices that fails half way, an undo that
fails). A batch takes an `OSError` as that path's result, REJECTED, and goes on
(`Rejects`; `broken` counts those that came after an effect). What `hub_shell` asks of the refresh is in `Reconcile`.

**`Clip`** (`clip.py`, `db.py:221-266`). Pure operators: `Cut` and `ClipOutput`, which
share a budget between stdout and stderr, and `Bodies`, what `append_audit` stores of
two streams that may arrive marked. Text is the sequence of its UTF-8 bytes;
characters have one or two, U+FFFD two, the marker one, and the marker does not
occur in a file.

**`ReadFile`** (`tools.py:180-295`). A call of `hub_read_file` is one step up to its
`open` (`Missing`, `NotAFile`, `NotText` refuse it, `Open`), then one for each
`readline`: `Skip` is a turn of the loop of `_skip_line`, `Take` one of
`_read_window`, `Page` what was taken and `Returns` the end of the call (`NotUtf8`
refuses, `Read` answers and records). `begin` and `place` are where the page began
and where the file is read on. Between any two of these steps the file may grow
(`AppendByte`) or go (`Unlink`; an open file stays readable, and may still grow).
Python reads ahead, but what is appended changes no byte before it, so a line
from the buffer is a line of the file; only where the file ends can differ, and that
is where the model reads it as it is. The client follows `next_offset`, or goes on
after its `limit`. `torn` remembers that the last line, without a newline, grew
when a call had counted it (`Counted`). The reference, `ShownUpTo`, says byte by byte
(`BytesAt`) what can be read, from line numbers and columns alone. `\r\n` is not
converted; a limit is at least 1.

**`CommandText`** extends it with a command that prints the file to two streams:
`Captured`, `Decoded`, `Output` are `_Capture` and the end of `execute_shell`, then
`Bodies` the audit row. Which bytes reach the buffers is in `Executor`.

**`Credentials`** (`auth.py`, `tools.py:666-712`). `creds` has the last token of each
agent, its role and status; an agent has one row, so an issue replaces the token.
**`Sessions`** (`server.py:240-282`). `table` is `_STALE_SEEN`; `Verdict` is
`_stale_session_action`, `Reject` and `Admit` what it does to the table, `Hinted` and
`HintBack` the two ends of a hint. A session id is the boot that issued it and its
client. **`Gateway`** (`server.py:381-465`, `521-661`) composes them: `Comes` is a
request with a token that works; `NotFound`, `Discard`, `Initialize`, `Start` are a
POST to `/mcp` up to its first await, `Result` and `NoResult` its end, after anything
else may have run; `Listen`, `Ping`, `Post`, `Reply` are `/sse` and `/messages`.
Connections break (`Hangup`, and the lost answers counted in `spoilt`), and the gateway
restarts. The check of the token and that of the session are one step; requests
without an id (answered 202) give the hint back at once and are left out.

## 5. Runs

Each run explores its whole state space. `CHECK_DEADLOCK FALSE` where calls are
used once, so that the system does stop.

| run | instance | distinct states | shows |
|---|---|---|---|
| `bin_serial` | 3 calls of 7 kinds, `rm -f` among them, a local and a remote path, one call per path in flight | 3 382 277 | `Undoable`, `NoSilentLoss`, `ErrorIsTrue` |
| `bin_race` | 3 calls of 6 kinds, overlapping freely, an ordinary and a protected remote path | 3 938 916 | `RowHasPayload`, `DirHasOwner`, `ProtectedUntouched`, `PayloadStable` |
| `bin_restore_race` | violation | | `RestoreKeepsWhatIsThere` fails |
| `reconcile` | 4 callers, one of them the periodic loop | 313 | `IdleMeansQuiet`, `NoneForgotten`, and that it implements `RefreshService` |
| `tasks` | 4 calls of 2 agents on one task | 491 579 | `RowConsistent`, `OneThread`, `HolderDecides`, `ResultKept` |
| `tasks_claim_race` | violation | | `ClaimNeverSteals` fails |
| `document` | an edit, a deletion, one foreground pass, the worker, a fault | 892 478 | `AssetsKept`, `DeletedWhole`, `Settles`, and that it implements `Document` |
| `document_old_version` | violation | | `OldVersionInBin` fails |
| `messages` | 3 calls of 2 agents (either may be revoked at first), a group, a pattern, a change of the directory, 2 moments | 1 809 639 | `ReadMeansHandled`, `AnswersFollow`, `Audience` |
| `tool_call` | a call of each kind; 2 processes besides the shell, 2 pipes of 2 bytes, 3 bytes written to each, a cap of 2; batches of 3 paths | 407 225 | `OneRow`, `ResultReaches`, `EffectsRecorded`, `OutputComplete`, `GroupGone`, `CutIsMarked`, `InTime`, `Ends` |
| `texts` | every file of up to 5 bytes of 5 kinds, 3 caps, 3 limits, 3 offsets; every split of it over stdout and stderr, with up to 2 notes; the file grows or goes between any two `readline`s | 3 654 627 | `PagesJoin`, `EachPage`, `LossMarked`, `StderrKept`, `RowAgrees` |
| `gateway` | the root admin and an agent, of any transport each, 3 connections, a stream, a restart, 2 events, a table of 1 old id | 135 401 | `RejectOnce`, `HintsOwed`, `OwnStream`, `TokensDie`, `Told` |

Why these bounds are enough for the cases that matter:

- Three calls on the bin let one put an item there, a second restore or purge it,
  and a third come between the steps of either; `OnePerPath` is an assumption on
  the environment in `bin_serial` only, for what the code promises to callers
  that do not race on a path, and is dropped in `bin_race` and the violations.
- A batch of three paths has one that is told REJECTED after its effect, one more,
  and one that ends the call.
- One caller that claims, one that coalesces and one that comes while the worker
  stops are three; the loop is the fourth.
- On a task: a claim, two updates that overlap it, and one after.
- Three calls on messages: a send, an overlapping answer or second send, and a
  view between them; two moments tell times apart; one change of the directory
  can come anywhere in a call.
- A pipe that fills (2 of 3 bytes), a stream that passes its cap (3 of 2) or meets
  it (2), in one read or several; one background process in the group and one out
  of it; a deadline before and after the shell's exit.
- Five bytes make a file of several lines, of which one is longer than a cap, a
  character on either side of a cut, and an incomplete last line; `SkipChunk` 2 and
  `Peek` 3 are passed by them; with a budget of 4 and stderr's share of 2 both
  streams can be cut.
- The agent has two connections whose requests overlap, and the root one whose old
  id shares the table; a table of one makes the second id empty it. Two events are a
  restart and a fault, or a fault and a command of the administrator. `Owed` bounds the
  404s of an id not yet followed by a hint, `MaxTokens` the issues, and neither is
  reached by the counterexamples of a mutant.
- One deletion, an edit and two passes let a pass put back what was deleted, the
  edit write it anew, and the other pass come between. The runs without deletions
  have two edits (`document_old_version`).

Each module also states its types (`TypeOK`). `bin_race` checks those of the recycle
bin, with the mutant that swaps two columns; those of `RecycleBin`, `HostDocument`,
`Reconcile`, `Tasks`, `Gateway` and `Messages` are proved. For the others `TypeOK` can
be added to their run, where it holds.

Symmetry is used only for safety runs, over calls and agents, whose names no
action tells apart.

What the properties say is in the comments at their definitions. In one line
each: what was overwritten or deleted is recoverable (`Undoable`), and nothing whole
disappears (`NoSilentLoss`); a failed write leaves its target as found, unless the
error came after the effect, which is then recorded, or a move stuck half way, and
then the bin has it whole (`ErrorIsTrue`); nobody opens a recorded payload, and at
most a write that had the file open when it was moved goes on into it
(`PayloadStable`); rows and bin directories account for each other (`RowHasPayload`, `DirHasOwner`); protected
paths do not change (`ProtectedUntouched`). A refresh is never forgotten, doubled
or reported done too early. A task's row is consistent, its thread unique, its
holder decides, its result stays, all in spite of overtaken updates. Only messages
their reader has handled are marked read; a message goes to those its address
stood for; answers sort after what they answer. A command's output is all read,
or marked as cut, or cut off with its group; the caller waits a bounded time, and
what the caller and the audit log are told fits what happened. A client that follows
the offsets reads each line once, unless a last line without a newline grew when a
call had counted it; bytes that are lost are marked as lost, once, in
the answer and in its row. An old session id gets one 404 and no hint that it is not
owed, clients hear of a restart, answers stay on their caller's stream, and dead
tokens stay dead.

## 6. Fairness

Only runs with a liveness property assume any.

- `Reconcile!FairSpec`: threads run (weak fairness of the worker, of a caller that is
  starting a thread, and of the periodic loop, `server.py:676`), and threads do not
  fail to start forever (strong fairness of `Start`): a host that never again has a
  thread to give refreshes nothing. `RefreshService` promises liveness under these.
- `HostDocument!FairSpec`: a thread that waits for `doc_lock` gets it if the lock is
  free again and again (strong fairness of passes and edits; a `threading.Lock`
  promises no more, and holders are short), the worker's passes begin, a deletion goes
  on to ask for a refresh, and the periodic loop asks. Nothing forces an edit or a
  deletion to begin.
- `Gateway!FairSpec`: clients go on calling (weak fairness of `Send`), calls end (tools
  have timeouts), and those that hold a hint do not end in errors for ever (strong
  fairness of `Result` with a hint): with requests that fail for ever there is nothing
  a hint could be on. `Told` also allows for at most one lost answer or malformed
  request: two can swallow the 404 and the hint.
- `ToolCall!FairSpec`: the handler's thread runs, `select` and `wait` return when there
  is something or their time is over, and time passes. The command's processes
  owe nothing: they may sleep, write or fork for ever.

## 7. Proofs

The theorems hold for every value of the constants that satisfies the modules'
`ASSUME`s (disjoint sets, bounds in `Nat`). Each follows from an inductive
invariant, one lemma per action or group of actions.

- **`RecycleBin_proofs`**. `TypeCorrect`: `TypeOK`. `Protection`: no step changes a
  protected path. `TypeOK` says too little: `ShapeOK` adds which operation can be at
  which step and what it then knows, and `Guarded` that no row, open file or target
  past `trash_put`'s check names a protected path, which is why a restore, which
  checks nothing, cannot reach one. `RowsHavePayload` and `DirsHaveOwner`: rows and
  directories of the bin account for each other, with nothing assumed of who works
  on which path. `Listed` says what each call owns of the bin at each step and that
  what it takes was recorded; `RowKept` and `DirKept` are the two properties, with
  what a restore or a purge on its way is about to do to a directory (`Lost`).
  `PayloadsStable`, for calls that overlap freely too, from `Handles`: a call writes to
  what it has open, which is at its own path or was moved from there, so a payload
  that a late write reaches is of an item of that path.
  The second half of the module is what the bin promises to callers that keep to paths of
  their own, that is, under `OnePerPath`: `AllUndoable`, `NothingLost`,
  `ErrorsAreTrue`, `RestoreReplacesNothing`, for any number of calls, `rm -f` and
  purges among them, that fail and die anywhere, before the audit row or at it. The hypothesis is on the callers, since
  no lock in the code covers a path; without it the last is false
  (`bin_restore_race`). `SerialInv` says of each call what is at its target (`There`),
  in its own item (`Payload`), in the item it restores (`Given`), and what undoes it
  (`Undo`). A step of one call keeps what is known of another because of its
  `Footprint`: it touches no path another works on, makes a row only of its own item,
  and ends a row or empties an item only if a restore or a purge has taken it
  (`StepTouches`, `OthersKept`). `NothingLost` shows where the content that a step
  removes has its copy (`Safe`); a removal leaves less of a directory, never
  something else (`RemainsLess`).
- **`Reconcile_proofs`**. `SingleWorker`, `QuietWhenIdle`, `Remembered`: the three
  safety invariants, from their conjunction with what each flag implies;
  `ImplementsService`: each step is a step of `RefreshService` or a stutter.
- **`Tasks_proofs`**. `TasksConsistent`: `TypeOK` and `RowConsistent`; `ThreadUnique`:
  `OneThread`. A stale row is harmless to them because what an update computes from
  any consistent row is consistent (`DecidedConsistent`), and `SeenOK` remembers
  that the row read was one. `HolderKeeps` and `ResultStays` are about steps: a call
  that no other overtook writes what it decided on the row as it is, and each decision
  on a claimed row, or on one with a result, spares it.
- **`HostDocument_proofs`**. `TypeCorrect`; `ImplementsDocument`: the refinement of
  `Document`, for any number of edits, deletions, passes and faults. `LockOK` says who
  holds the lock; `ShapeOK` what a thread about to write has in hand and where it
  comes from (`Basis`: the file, or the one just deleted), and that a truncated file
  means that its text is with the holder, unless it was moved away. The refinement
  mapping `text` reads it from there. `DeletedStaysWhole` strengthens `DeletedWhole`
  with what a thread that writes to the moved file has in hand; `AssetsStayKept` is
  inductive with that invariant.
- **`Messages_proofs`**. `MarkedAfter`: `ReadMeansHandled`, because what each call is
  about to mark (`Due`) has been handled. `TypeCorrect`, `AnswersInOrder` and
  `AudienceRight` from `SendInv`. `Going`: a call that has found what it answers
  (a thread has a last message, `LastIsThere`) takes its time no earlier than that of
  what it answers. `Aimed`: what it has read of the directory, in three places, lies
  between what held throughout and what ever held, and so does what "to" stands for,
  since `Expand` grows with both (`ExpandGrows`). A reply that first leaves out the
  revoked names agents only, and an agent stands for itself (`ExpandAgents`).
- **`ToolCall_proofs`**. `CutMarked`, `NoneLeft`, `AllRead`, `NeverLate` from `SupInv`: a
  killed group stays empty since only members add to it; a pipe nobody holds stays
  so since a fork passes on what it has; no wait is entered late. `RecordedOnce`,
  `Told` from `CallInv`, which says at each place of a call what has been recorded;
  `EffectsAudited` from `EffectsOK`, by which a call has, besides those of the paths
  told REJECTED (`broken`), at most one effect without a row, and which place or answer
  allows for one.
- **`Gateway_proofs`**. `RejectedOnce`, `NoHintTwice`, `StreamsPrivate` from `IInv`, for any
  clients and streams and any finite set of connections. The requests that hold a hint of an
  id are counted (`Cardinality`), and with the one still owed are no more than the 404s
  not yet followed by a hint; `Counted` bounds the answers lost by the faults that
  lost them; `StreamsOwned` says that a stream aimed at is its caller's and is not
  given away again. `DeadTokens`: every step that touches `creds` is an issue or a
  revocation, also inside a request (`Effect`).
- **`CommandText_proofs`**, about `CommandText`, `ReadFile` and `Clip`, for files and
  outputs of any length. What a recursive function or a fold computes needs induction,
  which is done with sets of numbers here: a set of numbers has a least member
  (`LeastIsThere`, `Induction`), and a function defined by descent is the union of its
  beginnings (`Recursion`). `LossesMarked`, `ShortStderrKept`, `RowsAgree`: what each
  stage keeps of a text is a beginning of it (`ClipIs`, `DecodedIs`, `OutputIs`), so
  stages compose (`BeginningOfBeginning`), and the marker is put once (`MarkOnce`).
  `PagesJoinUp` and `PagesRight`, `readline` by `readline`: `Boundary` says where a line
  begins, `Taken` that whole lines were taken from there; `ReaderOK` says how far a call
  in progress has come: it skips the lines before its page (`Skipping`) or takes those
  of the page (`Taking`). A `readline` keeps that (`Skips`, `Takes`), and so does a byte
  added between two of them, unless the last line was counted (`ReaderGrown`). What the
  call then returns is the page it should (`Right`, `PageIs`), and `LinesShown`,
  `PartialShown`, `AllShown` say that this is what the byte-by-byte reference adds.
  `PagesJoin` is not inductive, since the file grows: a byte added to the last line may
  put more of it within reach. `PagesInv` adds that what the client has is right
  (`Following`) and that the lines before the next page are `Settled`:
  they end in a newline, or are longer than the cap, or nothing has been asked for
  yet, and then no byte that is added changes what is shown of them (`ShownStable`).
  Assumed: the cap, the limit, the chunk of `_skip_line` are at least 1, and the marker
  does not occur in a file.

Only model-checked: all liveness (`Settles`, `Ends`, `Told` of `Gateway` and the
liveness part of `RefreshService`), which is out of the prover's reach. Every other
property of the passing runs is proved. `TypeOK` of `ReadFile`, `CommandText` and
`ToolCall` is left to TLC.

## 8. What the checks found

- `bin_restore_race`: a restore without overwrite tests that the place is free and
  then renames, which replaces a file written in between (`trash.py:231`).
- `tasks_claim_race`: two overlapping claims both succeed (`collab.py:779`).
- `document_old_version`: the copy of `SERVER_AGENTS.md` in the bin is made before
  the lock is taken, so an overlapping write's text is lost (`tools.py:475`).

Met while modelling, and left to the reader without a run:

- A copy into the bin that fails part of the way leaves its bytes there with no row,
  and nothing purges them (`trash.py:138`; `trash.py:142` says a failed copy removes
  its own partial payload). `RecycleBin` has the step (`PutCopyFails`), and
  `DirHasOwner` accounts for the directory as that of a failed put.
- A path of a batch delete that meets an `OSError` is reported as REJECTED and never
  audited (`tools.py:521`, in `Path`; `tools.py:515` says each path is audited on its
  own). The error may come after an effect: the removal of a source on another device
  fails half way (`trash.py:107`), or an undo fails (`trash.py:197`). Then something is
  gone, no row of the bin or of the audit log names it, and the batch goes on
  (`broken` in `EffectsRecorded`).
- `rm -f` swallows whatever `trash_put` raises, but for a protected path
  (`trash.py:409`), and exits 0: also when the target was removed in part, across
  devices, or its row could be neither written nor undone. The bin then holds it
  whole, and no row says so (`ignored` in `ErrorIsTrue`; `Undoable` does not hold
  of such a call).
- The audit row of a write, patch, delete, mkdir or restore comes after its effect
  (`tools.py:437`, `498`, `556`): if it fails, the caller sees an error although the
  target changed. What was replaced is in the bin (`ErrorIsTrue`).
- A write that has a file open when another call moves it to the bin goes on into the
  recorded payload (`trash.py:91`, `LateWrite` in `PayloadStable`).
- A call of `hub_read_file` that has counted a last line without a newline, and reads
  on, takes what was appended meanwhile for a line of its own: its count of lines
  is one too high, and `next_offset` passes over a line that nobody was shown
  (`tools.py:205`, `271`; `torn` in `PagesJoin`), against `tools.py:196`, "loses nothing".
- `hub_shell` looks up the ids of what `rm` moved after the command ran and before its
  row is written; if the database refuses that, the caller gets an error for a command
  that ended (`lost` in `ResultReaches`).
- A pass that began before a deletion of the document writes it anew, perhaps with a
  status block and nothing else; `ensure_document` looks only whether there is a file,
  so no skeleton follows.
- The note that a command was timed out is put at the end of stderr
  (`executor.py:186`), which is clipped from the end: a long stderr loses the note.
- Output that itself ends with the marker makes its row say truncated, although the
  answer does not.
- Of two overlapping requests of an old session, the one that took the hint may be a
  list of tools, which cannot carry it, while the tool call goes without; the hint is
  given back and comes later (`Told` under its fairness).
- A malformed request, or a connection that breaks, spends a hint
  (`server.py:398`); with two such events a client may not hear of a restart, and
  with more old ids in use than `_STALE_SEEN_MAX` each is answered 404 again and again.
- A stream taken off the list by its loop of pings is not marked closed: a `POST` that
  had looked it up answers 202 and its result is lost. A connection that breaks
  before the first event leaves its stream on the list (`server.py:602`).
- `hub_issue_agent_token` issues, then records: if the row fails, the caller sees an
  error, the old token is dead and the new one unknown. `issue-token` for the root
  admin on the command line makes it an operator.

## 9. Not modelled

- Database set-up and the v1 audit migration: one transaction at start, before
  anything else runs. The backup: a call of SQLite's own backup.
- Redaction (regular expressions over text), configuration (read once), the tool
  catalogue (data), host probes (I/O): no state of their own.
- Of the transport: parsing of HTTP, limits and time-outs of heads and bodies,
  `/health` and `/tools`, which change nothing.
- In the modelled parts: symlinks and nested paths; the text of documents,
  messages and results, where no property is about it; views that change nothing;
  delivery of answers to clients outside `Gateway`; a clock that goes back (answers
  would sort before what they answer, `collab.py:43`); `hub_restore_file` and commands
  of `hub_shell` on `SERVER_AGENTS.md`.
