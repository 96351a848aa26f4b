------------------------------ MODULE ToolCall ------------------------------
(* One tool call from dispatch to answer (src/sag/server.py, tools.py): its   *)
(* effects, its audit rows, and what the caller is told.  hub_shell runs its  *)
(* command with Executor.                                                     *)
EXTENDS Executor, Sequences, FiniteSets

CONSTANT Paths      \* how many a batch of hub_delete_file names

ASSUME ToolCallAssumption == Paths \in Nat \ {0}

(* unknown: no such tool for this caller, or arguments that do not fit        *)
(* view:    a tool with no row of its own: get_overview, get_status, ...      *)
(* edit:    one effect, recorded: write, patch, delete, restore, read, ...    *)
(* batch:   hub_delete_file with paths                                        *)
Kinds == {"unknown", "view", "edit", "batch", "shell"}

VARIABLES
    kind, pc,
    left,       \* paths to go
    effects,    \* what it did: files written, moved or read, commands run
    rows,       \* statuses of the audit rows written
    audited,    \* sag_audited, of the exception on its way
    answer,     \* none, result, warned (a result with audit_error), error
    faults,     \* how often the database refused
    broken,     \* history: the paths a batch told as REJECTED after an effect
    lost        \* history: the ids of what rm moved could not be looked up

call == <<kind, pc, left, effects, rows, audited, answer, faults, broken, lost>>
vars == <<executor, call>>

Init ==
    /\ Alone
    /\ kind \in Kinds
    /\ pc = "dispatch"
    /\ left = IF kind = "batch" THEN Paths ELSE 1
    /\ effects = 0
    /\ rows = <<>>
    /\ audited = FALSE
    /\ answer = "none"
    /\ faults = 0
    /\ broken = 0
    /\ lost = FALSE

Written(status) == rows' = Append(rows, status) /\ UNCHANGED faults
Refused == faults' = faults + 1 /\ UNCHANGED rows
Fail(marked) == pc' = "failed" /\ audited' = marked /\ UNCHANGED answer
Answer(a) == pc' = "answered" /\ answer' = a /\ UNCHANGED audited
Goes(to) == pc' = to /\ UNCHANGED <<audited, answer>>

-----------------------------------------------------------------------------
(* dispatch_tool and _dispatch: a call that does not fit fails here.          *)
Dispatch ==
    /\ pc = "dispatch" /\ kind # "shell"
    /\ \/ kind \in {"unknown", "view"} /\ Fail(FALSE)
       \/ kind = "view" /\ Answer("result")
       \/ kind \in {"edit", "batch"} /\ Goes("path")
    /\ UNCHANGED <<executor, kind, left, effects, rows, faults, broken, lost>>

(* A batch takes an OSError as that path's result, which says REJECTED, and   *)
(* records nothing.                                                           *)
Rejects == kind = "batch" /\ Goes("path") /\ left' = left - 1

(* The next path, or the only one: refused, broken by an exception, or done.  *)
(* An exception may come after an effect: the removal of the source fails     *)
(* half way, the parent is made and the file is not, an undo fails.           *)
Path ==
    /\ pc = "path" /\ left > 0
    /\ \/ Goes("refuse") /\ UNCHANGED <<left, effects, broken>>
       \/ Fail(FALSE) /\ effects' \in {effects, effects + 1} /\ UNCHANGED <<left, broken>>
       \/ Rejects /\ UNCHANGED <<effects, broken>>
       \/ Rejects /\ effects' = effects + 1 /\ broken' = broken + 1
       \/ Goes("record") /\ effects' = effects + 1 /\ UNCHANGED <<left, broken>>
    /\ UNCHANGED <<executor, kind, rows, faults, lost>>

PathsDone ==
    /\ pc = "path" /\ left = 0
    /\ Answer("result")
    /\ UNCHANGED <<executor, kind, left, effects, rows, faults, broken, lost>>

(* Mutant: the exception is not marked as recorded.                           *)
RefuseUnmarked ==
    /\ pc = "refuse"
    /\ \/ /\ Written("refused")
          /\ \/ kind # "batch" /\ Fail(FALSE) /\ UNCHANGED left
             \/ kind \in {"edit", "batch"} /\ Goes("path") /\ left' = left - 1
       \/ Refused /\ ((Fail(FALSE) /\ UNCHANGED left) \/ Rejects)
    /\ UNCHANGED <<executor, kind, effects, broken, lost>>

(* _audit_then_raise: a row of the tool's own, and an exception that says so, *)
(* which a batch takes as that path's result; or a result that says FAILED or *)
(* NOT_FOUND.  A row can fail with an OSError too, if the database's          *)
(* directory is gone.                                                         *)
Refuse ==
    /\ pc = "refuse"
    /\ \/ /\ Written("refused")
          /\ \/ kind # "batch" /\ Fail(TRUE) /\ UNCHANGED left
             \/ kind \in {"edit", "batch"} /\ Goes("path") /\ left' = left - 1
       \/ Refused /\ ((Fail(FALSE) /\ UNCHANGED left) \/ Rejects)
    /\ UNCHANGED <<executor, kind, effects, broken, lost>>

(* Mutant: a row that cannot be written is passed over.                       *)
RecordSwallowed ==
    /\ pc = "record"
    /\ Written("success") \/ Refused
    /\ Goes("path") /\ left' = left - 1
    /\ UNCHANGED <<executor, kind, effects, broken, lost>>

(* append_audit after the effect.                                             *)
Record ==
    /\ pc = "record"
    /\ \/ Written("success") /\ Goes("path") /\ left' = left - 1 /\ UNCHANGED broken
       \/ Refused /\ Fail(FALSE) /\ UNCHANGED <<left, broken>>
       \/ Refused /\ Rejects /\ broken' = broken + 1
    /\ UNCHANGED <<executor, kind, effects, lost>>

-----------------------------------------------------------------------------
(* tool_shell: no temporary file, or the command is refused or cannot be      *)
(* started, or it runs.                                                       *)
Start ==
    /\ pc = "dispatch" /\ kind = "shell"
    /\ \/ Fail(FALSE) /\ UNCHANGED <<executor, effects>>
       \/ Goes("refuse") /\ UNCHANGED <<executor, effects>>
       \/ Goes("exec") /\ Spawn /\ effects' = 1
    /\ UNCHANGED <<kind, left, rows, faults, broken, lost>>

Execute == pc = "exec" /\ Run /\ UNCHANGED call

Executed ==
    /\ pc = "exec" /\ sup = "done"
    /\ Goes(IF raised THEN "refuse" ELSE "ids")
    /\ UNCHANGED <<executor, kind, left, effects, rows, faults, broken, lost>>

(* _read_trash_ids, which asks the database if rm reported anything.          *)
TrashIds ==
    /\ pc = "ids"
    /\ \/ Goes("audit") /\ UNCHANGED <<rows, faults, lost>>
       \/ Refused /\ Fail(FALSE) /\ lost' = TRUE
    /\ UNCHANGED <<executor, kind, left, effects, broken>>

AuditShell ==
    /\ pc = "audit"
    /\ \/ Written("success") /\ Answer("result")
       \/ Refused /\ Goes("again")
    /\ UNCHANGED <<executor, kind, left, effects, broken, lost>>

(* Mutant: the second failure is raised.                                      *)
AuditRaises ==
    /\ pc = "again"
    /\ \/ Written("success") /\ Answer("result")
       \/ Refused /\ Fail(FALSE)
    /\ UNCHANGED <<executor, kind, left, effects, broken, lost>>

(* The command has run: its result is given even if it cannot be recorded.    *)
AuditAgain ==
    /\ pc = "again"
    /\ \/ Written("success") /\ Answer("result")
       \/ Refused /\ Answer("warned")
    /\ UNCHANGED <<executor, kind, left, effects, broken, lost>>

-----------------------------------------------------------------------------
(* _audit_failure, once, unless the tool has recorded the failure itself.     *)
Failed ==
    /\ pc = "failed"
    /\ \/ audited /\ UNCHANGED <<rows, faults>>
       \/ ~audited /\ (Written("failed") \/ Refused)
    /\ Answer("error")
    /\ UNCHANGED <<executor, kind, left, effects, broken, lost>>

Handle == Dispatch \/ Path \/ PathsDone \/ Refuse \/ Record \/ Start \/ Executed
          \/ TrashIds \/ AuditShell \/ AuditAgain \/ Failed

Next == Handle \/ Execute

Spec == Init /\ [][Next]_vars

(* The thread runs, select and wait return when they should, time passes; the *)
(* processes owe nothing.                                                     *)
FairSpec ==
    /\ Spec
    /\ WF_vars(Handle)
    /\ WF_vars(pc = "exec" /\ Supervise /\ UNCHANGED call)
    /\ WF_vars(pc = "exec" /\ Tick /\ UNCHANGED call)

-----------------------------------------------------------------------------
(* The type of each variable; a batch does not go past its last path.         *)
TypeOK ==
    /\ sup \in {"idle", "pump", "reap", "drain", "wait", "done"}
    /\ group \subseteq alive /\ alive \subseteq Processes
    /\ holds \in [Processes -> SUBSET Streams] /\ open \subseteq Streams
    /\ \A s \in Streams : got[s] \in 0 .. sent[s] /\ sent[s] \in 0 .. MaxBytes
    /\ {timedOut, raised, audited, lost} \subseteq BOOLEAN
    /\ {now, until, faults} \subseteq Nat
    /\ kind \in Kinds
    /\ pc \in {"dispatch", "path", "refuse", "record", "exec", "ids", "audit", "again",
               "failed", "answered"}
    /\ left \in 0 .. Paths /\ effects \in 0 .. Paths /\ broken \in 0 .. effects
    /\ rows \in Seq({"success", "refused", "failed"})
    /\ answer \in {"none", "result", "warned", "error"}

(* A call leaves one audit row, by the tool or by the dispatcher, never two,  *)
(* and none only if the database refused (server.py:201: "Whatever fails here *)
(* leaves an audit row", "once"); views that succeed leave none.              *)
OneRow ==
    kind # "batch" =>
        /\ Len(rows) <= 1
        /\ answer # "none" /\ rows = <<>> => faults > 0 \/ (kind = "view" /\ answer = "result")

(* A command that ran has its result told, even if it cannot be recorded, and *)
(* then it says so (tools.py:162), unless the supervision broke or the ids of *)
(* what rm moved could not be looked up: the one way the code has to answer   *)
(* with an error for a command that ended.                                    *)
ResultReaches ==
    kind = "shell" /\ effects > 0 /\ answer # "none" =>
        /\ answer = "error" => raised \/ lost
        /\ answer = "warned" <=> answer # "error" /\ rows = <<>>

Successes == Cardinality({i \in DOMAIN rows : rows[i] = "success"})

(* What a call did is recorded, though a batch has more paths to go: a row    *)
(* the database refuses stops the call, which says so (tools.py:498), a       *)
(* command that ran being the one exception.  An effect without a row is of a *)
(* path told as REJECTED, when an OSError came after it (tools.py:521), or is *)
(* the last one, and then there is a row of the failure unless the database   *)
(* refused one.                                                               *)
EffectsRecorded ==
    LET unrecorded == effects - Successes
        failure == \E i \in DOMAIN rows : rows[i] = "failed"
    IN  /\ unrecorded \in 0 .. broken + 1
        /\ answer = "result" => unrecorded = broken
        /\ answer = "error" /\ unrecorded > broken => failure \/ faults > 0 \/ raised

(* The call ends, whatever its processes do: one that left the group and      *)
(* holds the pipes does not keep it (executor.py:72).                         *)
Ends == <>(answer # "none")
=============================================================================
