-------------------------- MODULE ToolCall_proofs --------------------------
(* What holds of every supervised command, and of every call, for any number  *)
(* of processes, pipes, bytes, paths and moments.                             *)
EXTENDS ToolCall, FiniteSetTheorems, SequenceTheorems, TLAPS

(* The supervision: its types, ...                                            *)
CaptureType ==
    /\ sup \in {"idle", "pump", "reap", "drain", "wait", "done"}
    /\ sent \in [Streams -> Nat]
    /\ got \in [Streams -> Nat]
    /\ kept \in [Streams -> Nat]
    /\ dropped \in [Streams -> BOOLEAN]
    /\ holds \in [Processes -> SUBSET Streams]
    /\ open \subseteq Streams
    /\ alive \subseteq Processes
    /\ \A p \in Processes \ alive : holds[p] = {}
    /\ sup = "idle" => alive = {}

(* ... the clock against the wait it is in, ...                               *)
ClockOK ==
    /\ now \in Nat /\ until \in Nat
    /\ sup = "idle" => now = 0
    /\ sup \in {"pump", "reap"} => now <= until /\ until <= Timeout
    /\ sup = "drain" => now <= until /\ until <= Timeout + Drain
    /\ sup = "wait" => now <= until /\ until <= Timeout + Drain + Reap
    /\ sup = "done" => now <= Timeout + Drain + Reap

(* ... who is left of the group once it has been killed, ...                  *)
KillOK ==
    /\ timedOut => sup \in {"drain", "wait", "done"}
    /\ raised => sup \in {"wait", "done"}
    /\ sup = "drain" => timedOut
    /\ sup = "wait" => timedOut \/ raised
    /\ sup \in {"drain", "wait"} => group = {}
    /\ sup = "done" /\ (timedOut \/ raised) => group = {}

(* ... and the pipes it has seen the end of.                                  *)
ClosedOK ==
    /\ sup # "idle" => \A s \in Streams \ open : sent[s] = got[s] /\ Holders(s) = {}
    /\ sup = "reap" => open = {}
    /\ sup = "done" /\ ~timedOut /\ ~raised => open = {} /\ Shell \notin alive

SupInv == CaptureType /\ CutIsMarked /\ ClockOK /\ KillOK /\ ClosedOK

-----------------------------------------------------------------------------
(* Nothing runs yet.                                                          *)
LEMMA AloneOK == Alone => SupInv
  BY ExecutorAssumption
  DEF Alone, SupInv, CaptureType, CutIsMarked, ClockOK, KillOK, ClosedOK, Holders, Processes

LEMMA CaptureTypeStep ==
  ASSUME CaptureType, Spawn \/ Run \/ UNCHANGED executor
  PROVE  CaptureType'
<1> USE ExecutorAssumption DEF CaptureType, Processes, Goto
<1>1. CASE Spawn
  BY <1>1 DEF Spawn
<1>2. CASE \E p \in Processes, q \in Kids : Fork(p, q)
  BY <1>2 DEF Fork, capture
<1>3. CASE \E p \in Processes, s \in Streams : Output(p, s)
  BY <1>3 DEF Output, capture
<1>4. CASE \E p \in Processes, s \in Streams : Redirect(p, s)
  BY <1>4 DEF Redirect, capture
<1>5. CASE \E p \in Processes : Exit(p)
  BY <1>5 DEF Exit, Die, capture
<1>6. CASE \E s \in Streams : Read(s)
  <2>1. PICK s \in Streams : Read(s)
    BY <1>6
  <2>2. PICK n \in 1 .. sent[s] - got[s] :
            /\ got' = [got EXCEPT ![s] = @ + n]
            /\ kept' = [kept EXCEPT ![s] = @ + IF n < Cap - kept[s] THEN n ELSE Cap - kept[s]]
            /\ dropped' = [dropped EXCEPT ![s] = @ \/ n > Cap - kept[s]]
    BY <2>1 DEF Read
  <2> QED
    BY <2>1, <2>2 DEF Read, procs
<1>7. CASE \E s \in Streams : Eof(s)
  BY <1>7 DEF Eof, procs
<1>8. CASE Pumped \/ Reaped \/ Drained \/ Waited \/ Tick
  BY <1>8 DEF Pumped, Reaped, Drained, Waited, Tick, procs, capture
<1>9. CASE Expire \/ Break
  BY <1>9 DEF Expire, Break, Die, capture
<1>10. CASE UNCHANGED executor
  BY <1>10 DEF executor, procs, capture
<1> QED
  BY <1>1, <1>2, <1>3, <1>4, <1>5, <1>6, <1>7, <1>8, <1>9, <1>10 DEF Run, Supervise

(* However the reads split a stream: an unfinished buffer has no cut.         *)
LEMMA CutStep ==
  ASSUME CaptureType, CutIsMarked, Spawn \/ Run \/ UNCHANGED executor
  PROVE  CutIsMarked'
<1> USE ExecutorAssumption DEF CaptureType, CutIsMarked
<1>1. CASE \E s \in Streams : Read(s)
  <2>1. PICK s \in Streams : Read(s)
    BY <1>1
  <2>2. PICK n \in 1 .. sent[s] - got[s] :
            /\ got' = [got EXCEPT ![s] = @ + n]
            /\ kept' = [kept EXCEPT ![s] = @ + IF n < Cap - kept[s] THEN n ELSE Cap - kept[s]]
            /\ dropped' = [dropped EXCEPT ![s] = @ \/ n > Cap - kept[s]]
    BY <2>1 DEF Read
  <2>3. n \in Nat \ {0} /\ Cap \in Nat \ {0}
    OBVIOUS
  <2>4. kept'[s] = IF got'[s] < Cap THEN got'[s] ELSE Cap
    BY <2>2, <2>3
  <2>5. n > Cap - kept[s] \/ got[s] > Cap <=> got'[s] > Cap
    BY <2>2, <2>3
  <2>6. dropped'[s] = (dropped[s] \/ n > Cap - kept[s])
    BY <2>2, Zenon
  <2>7. dropped'[s] <=> got'[s] > Cap
    BY <2>5, <2>6
  <2> QED
    BY <2>2, <2>4, <2>7
<1>2. CASE UNCHANGED <<got, kept, dropped>>
  BY <1>2
<1>3. Spawn \/ Run \/ UNCHANGED executor =>
         (\E s \in Streams : Read(s)) \/ UNCHANGED <<got, kept, dropped>>
  BY DEF executor, procs, capture, Spawn, Run, Fork, Output, Redirect, Exit, Supervise, Eof,
         Pumped, Reaped, Expire, Drained, Waited, Break, Tick
<1> QED
  BY <1>1, <1>2, <1>3

(* No wait is entered late, and none is extended.                             *)
LEMMA ClockStep ==
  ASSUME CaptureType, ClockOK, Spawn \/ Run \/ UNCHANGED executor
  PROVE  ClockOK'
<1> USE ExecutorAssumption DEF CaptureType, ClockOK, Goto
<1>1. CASE UNCHANGED <<sup, now, until>>
  BY <1>1
<1>2. CASE Spawn
  BY <1>2 DEF Spawn
<1>3. CASE Pumped \/ Reaped \/ Drained \/ Waited
  BY <1>3 DEF Pumped, Reaped, Drained, Waited
<1>4. CASE Expire \/ Break
  BY <1>4 DEF Expire, Break
<1>5. CASE Tick
  BY <1>5 DEF Tick
<1>6. CASE \/ \E p \in Processes : Exit(p) \/ \E q \in Kids : Fork(p, q)
           \/ \E p \in Processes, s \in Streams : Output(p, s) \/ Redirect(p, s)
           \/ \E s \in Streams : Read(s) \/ Eof(s)
  BY <1>1, <1>6 DEF Exit, Fork, Output, Redirect, Read, Eof
<1> QED
  BY <1>1, <1>2, <1>3, <1>4, <1>5, <1>6 DEF executor, Run, Supervise

(* A killed group stays empty: only its members can add to it.                *)
LEMMA KillStep ==
  ASSUME CaptureType, KillOK, Spawn \/ Run \/ UNCHANGED executor
  PROVE  KillOK'
<1> USE DEF CaptureType, KillOK, Goto
<1>1. CASE UNCHANGED <<sup, group, timedOut, raised>>
  BY <1>1
<1>2. CASE Spawn
  BY <1>2 DEF Spawn
<1>3. CASE Pumped \/ Reaped \/ Drained \/ Waited
  BY <1>3 DEF Pumped, Reaped, Drained, Waited, procs
<1>4. CASE Expire \/ Break
  BY <1>4 DEF Expire, Break, Die
<1>5. CASE \E p \in Processes : Exit(p)
  BY <1>5 DEF Exit, Die
<1>6. CASE \E p \in Processes, q \in Kids : Fork(p, q)
  BY <1>6 DEF Fork
<1>7. CASE \/ Tick
           \/ \E p \in Processes, s \in Streams : Output(p, s) \/ Redirect(p, s)
           \/ \E s \in Streams : Read(s) \/ Eof(s)
  BY <1>1, <1>7 DEF Tick, Output, Redirect, Read, Eof, procs
<1> QED
  BY <1>1, <1>2, <1>3, <1>4, <1>5, <1>6, <1>7 DEF executor, procs, Run, Supervise

(* A pipe nobody holds stays that way: a fork can only pass on what it has.   *)
LEMMA ClosedStep ==
  ASSUME CaptureType, KillOK, ClosedOK, Spawn \/ Run \/ UNCHANGED executor
  PROVE  ClosedOK'
<1> USE ExecutorAssumption DEF CaptureType, KillOK, ClosedOK, Holders, Goto, Processes
<1>1. CASE UNCHANGED <<sup, alive, holds, sent, got, open, timedOut, raised>>
  BY <1>1
<1>2. CASE Spawn
  BY <1>2 DEF Spawn
<1>3. CASE Pumped \/ Reaped \/ Drained \/ Waited
  BY <1>3 DEF Pumped, Reaped, Drained, Waited, procs, capture
<1>4. CASE Expire \/ Break
  BY <1>4 DEF Expire, Break, Die, capture
<1>5. CASE \E p \in Processes : Exit(p)
  BY <1>5 DEF Exit, Die, capture
<1>6. CASE \E p \in Processes, q \in Kids : Fork(p, q)
  BY <1>6 DEF Fork, capture
<1>7. CASE \E p \in Processes, s \in Streams : Output(p, s)
  BY <1>7 DEF Output, capture
<1>8. CASE \E p \in Processes, s \in Streams : Redirect(p, s)
  BY <1>8 DEF Redirect, capture
<1>9. CASE \E s \in Streams : Read(s)
  BY <1>9 DEF Read, procs
<1>10. CASE \E s \in Streams : Eof(s)
  BY <1>10 DEF Eof, procs
<1>11. CASE Tick
  BY <1>1, <1>11 DEF Tick, procs, capture
<1> QED
  BY <1>1, <1>2, <1>3, <1>4, <1>5, <1>6, <1>7, <1>8, <1>9, <1>10, <1>11
  DEF executor, procs, capture, Run, Supervise

LEMMA SupStep == SupInv /\ [Next]_vars => SupInv'
<1> SUFFICES ASSUME SupInv, [Next]_vars PROVE SupInv'
  OBVIOUS
<1>1. Spawn \/ Run \/ UNCHANGED executor
  BY DEF Next, Handle, vars, Dispatch, Path, PathsDone, Refuse, Record, Start, Execute, Executed,
         TrashIds, AuditShell, AuditAgain, Failed
<1> QED
  BY <1>1, CaptureTypeStep, CutStep, ClockStep, KillStep, ClosedStep DEF SupInv

LEMMA Supervised == Spec => []SupInv
<1>1. Init => SupInv
  BY AloneOK DEF Init
<1> QED
  BY <1>1, SupStep, PTL DEF Spec

(* What is kept of a stream, and whether it is marked as cut, depends on how  *)
(* much was read and not on how: for any cap, pipes and reads.                *)
THEOREM CutMarked == Spec => []CutIsMarked
  BY Supervised, PTL DEF SupInv

(* No process of the group outlives a command that was cut off or whose       *)
(* supervision broke, however its processes fork and leave the group.         *)
THEOREM NoneLeft == Spec => []GroupGone
<1>1. SupInv => GroupGone
  BY DEF SupInv, KillOK, GroupGone
<1> QED
  BY <1>1, Supervised, PTL

(* A command that was not cut off has all its output read, from background    *)
(* processes too, and none of them can add to it.                             *)
THEOREM AllRead == Spec => []OutputComplete
<1>1. SupInv => OutputComplete
  BY DEF SupInv, ClosedOK, OutputComplete
<1> QED
  BY <1>1, Supervised, PTL

(* A caller waits for its timeout and the two waits after it, never longer.   *)
THEOREM NeverLate == Spec => []InTime
<1>1. SupInv => InTime
  BY ExecutorAssumption DEF SupInv, CaptureType, ClockOK, InTime
<1> QED
  BY <1>1, Supervised, PTL

-----------------------------------------------------------------------------
(* The call: where each kind can be, ...                                      *)
CallType ==
    /\ kind \in Kinds /\ faults \in Nat /\ effects \in Nat
    /\ answer # "none" <=> pc = "answered"
    /\ pc \in {"path", "record"} => kind \in {"edit", "batch"}
    /\ pc = "refuse" => kind \in {"edit", "batch", "shell"}
    /\ pc \in {"exec", "ids", "audit", "again"} => kind = "shell"

(* ... what is recorded when it is there, ...                                 *)
RowsOK ==
    kind # "batch" =>
        /\ rows = <<>> \/ Len(rows) = 1
        /\ left \in {0, 1}
        /\ pc \in {"dispatch", "refuse", "record", "exec"} => left = 1
        /\ pc \in {"dispatch", "refuse", "record", "exec", "ids", "audit", "again"} => rows = <<>>
        /\ pc = "path" => (left = 0 <=> rows # <<>>)
        /\ pc = "failed" => (audited <=> rows # <<>>)
        /\ pc = "again" => faults > 0
        /\ pc = "answered" /\ rows = <<>> => faults > 0 \/ (kind = "view" /\ answer = "result")

(* ... and why a command that ran can still end in an error.                  *)
ToldOK ==
    kind = "shell" =>
        /\ pc = "dispatch" => effects = 0
        /\ pc = "refuse" /\ effects > 0 => raised
        /\ pc = "failed" /\ effects > 0 => raised \/ lost
        /\ pc = "answered" /\ effects > 0 =>
              /\ answer = "error" => raised \/ lost
              /\ answer = "warned" <=> answer # "error" /\ rows = <<>>

CallInv == CallType /\ RowsOK /\ ToldOK

LEMMA CallInit == Init => CallInv
  BY DEF Init, Kinds, CallInv, CallType, RowsOK, ToldOK

(* The first row makes one.                                                   *)
LEMMA FirstRow ==
  ASSUME NEW status, rows = <<>>, Written(status)
  PROVE  Len(rows') = 1 /\ rows' # <<>> /\ faults' = faults
<1>1. rows' = <<status>> /\ faults' = faults
  BY DEF Written
<1> QED
  BY <1>1

LEMMA CallStep == CallInv /\ [Next]_vars => CallInv'
<1> SUFFICES ASSUME CallInv, [Next]_vars PROVE CallInv'
  OBVIOUS
<1> USE DEF CallInv, CallType, RowsOK, ToldOK, Kinds, Goes, Fail, Answer, Refused, Rejects
<1>1. CASE Dispatch
  BY <1>1 DEF Dispatch, executor
<1>2. CASE Path
  BY <1>2 DEF Path, executor
<1>3. CASE PathsDone
  BY <1>3 DEF PathsDone, executor
<1>4. CASE Refuse
  <2>1. CASE kind = "batch"
    BY <1>4, <2>1 DEF Refuse, Written, executor
  <2>2. CASE kind # "batch"
    BY <1>4, <2>2, FirstRow DEF Refuse, executor
  <2> QED
    BY <2>1, <2>2
<1>5. CASE Record
  <2>1. CASE kind = "batch"
    BY <1>5, <2>1 DEF Record, Written, executor
  <2>2. CASE kind # "batch"
    BY <1>5, <2>2, FirstRow DEF Record, executor
  <2> QED
    BY <2>1, <2>2
<1>6. CASE Start
  BY <1>6 DEF Start, Spawn, executor
<1>7. CASE Execute
  BY <1>7 DEF Execute, call
<1>8. CASE Executed
  <2>1. CASE raised
    <3>1. pc = "exec" /\ pc' = "refuse" /\ UNCHANGED <<kind, left, effects, rows, faults, answer>>
      BY <1>8, <2>1 DEF Executed
    <3>2. raised'
      BY <1>8, <2>1, Zenon DEF Executed, executor
    <3> QED
      BY <3>1, <3>2
  <2>2. CASE ~raised
    BY <1>8, <2>2 DEF Executed, executor
  <2> QED
    BY <2>1, <2>2
<1>9. CASE TrashIds
  BY <1>9 DEF TrashIds, executor
<1>10. CASE AuditShell \/ AuditAgain
  BY <1>10, FirstRow DEF AuditShell, AuditAgain, executor
<1>11. CASE Failed
  <2>1. CASE kind = "batch"
    BY <1>11, <2>1 DEF Failed, Written, executor
  <2>2. CASE kind # "batch"
    BY <1>11, <2>2, FirstRow DEF Failed, executor
  <2> QED
    BY <2>1, <2>2
<1>12. CASE UNCHANGED vars
  <2>1. UNCHANGED <<call, raised>>
    BY <1>12 DEF vars, executor
  <2> QED
    BY <2>1 DEF call
<1> QED
  BY <1>1, <1>2, <1>3, <1>4, <1>5, <1>6, <1>7, <1>8, <1>9, <1>10, <1>11, <1>12 DEF Next, Handle

LEMMA Called == Spec => []CallInv
  BY CallInit, CallStep, PTL DEF Spec

(* A call never leaves two rows, and none only if the database refused: for   *)
(* any kind of call but a batch, and wherever it fails.                       *)
THEOREM RecordedOnce == Spec => []OneRow
<1>1. CallInv => OneRow
  <2>1. SUFFICES ASSUME CallInv, kind # "batch" PROVE OneRow
    BY DEF OneRow
  <2>2. Len(rows) <= 1
    BY <2>1 DEF CallInv, RowsOK
  <2>3. answer # "none" => pc = "answered"
    BY <2>1 DEF CallInv, CallType
  <2>4. answer # "none" /\ rows = <<>> => faults > 0 \/ (kind = "view" /\ answer = "result")
    BY <2>1, <2>3 DEF CallInv, RowsOK
  <2> QED
    BY <2>2, <2>4 DEF OneRow
<1> QED
  BY <1>1, Called, PTL

(* The caller of a command that ran is told its result, but for a broken      *)
(* supervision and for ids that could not be looked up.                       *)
THEOREM Told == Spec => []ResultReaches
<1>1. ASSUME CallInv, kind = "shell", effects > 0, answer # "none"
      PROVE  /\ answer = "error" => raised \/ lost
             /\ answer = "warned" <=> answer # "error" /\ rows = <<>>
  <2>1. pc = "answered"
    BY <1>1 DEF CallInv, CallType
  <2> QED
    BY <1>1, <2>1 DEF CallInv, ToldOK
<1>2. CallInv => ResultReaches
  BY <1>1 DEF ResultReaches
<1> QED
  BY <1>2, Called, PTL

-----------------------------------------------------------------------------
(* The effects and their rows: how many effects have no row at each place.    *)
RowStatuses == {"success", "refused", "failed"}
Unrecorded == effects - Successes
Failure == \E i \in DOMAIN rows : rows[i] = "failed"

EffectsOK ==
    /\ rows \in Seq(RowStatuses)
    /\ broken \in Nat
    /\ Unrecorded = broken \/ Unrecorded = broken + 1
    /\ pc \in {"dispatch", "path"} => Unrecorded = broken
    /\ pc \in {"record", "exec", "ids", "audit", "again"} => Unrecorded = broken + 1
    /\ pc = "refuse" => Unrecorded = broken \/ (kind = "shell" /\ raised)
    /\ pc = "failed" => Unrecorded = broken \/ ~audited \/ raised \/ faults > 0
    /\ pc = "answered" =>
          /\ answer \in {"result", "warned", "error"}
          /\ answer = "result" => Unrecorded = broken
          /\ answer = "error" => Unrecorded = broken \/ Failure \/ raised \/ faults > 0

EffectsInv == CallInv /\ EffectsOK

LEMMA SuccessesType == rows \in Seq(RowStatuses) => Successes \in Nat
<1> SUFFICES ASSUME rows \in Seq(RowStatuses) PROVE Successes \in Nat
  OBVIOUS
<1>1. DOMAIN rows = 1 .. Len(rows) /\ Len(rows) \in Nat
  BY LenProperties
<1>2. IsFiniteSet(1 .. Len(rows))
  BY <1>1, FS_Interval
<1> QED
  BY <1>1, <1>2, FS_Subset, FS_CardinalityType DEF Successes

(* A row that is written counts if it says success.                           *)
LEMMA WrittenCounts ==
    ASSUME rows \in Seq(RowStatuses), NEW status \in RowStatuses, Written(status)
    PROVE  /\ rows' \in Seq(RowStatuses) /\ faults' = faults
           /\ Successes' = Successes + (IF status = "success" THEN 1 ELSE 0)
           /\ \E i \in DOMAIN rows' : rows'[i] = status
<1> DEFINE n == Len(rows)
           old == {i \in DOMAIN rows : rows[i] = "success"}
<1>1. rows' = Append(rows, status) /\ faults' = faults
  BY DEF Written
<1>2. DOMAIN rows = 1 .. n /\ n \in Nat
  BY LenProperties
<1>3. /\ rows' \in Seq(RowStatuses) /\ Len(rows') = n + 1
      /\ \A i \in 1 .. n : rows'[i] = rows[i]
      /\ rows'[n + 1] = status
  BY <1>1, AppendProperties
<1>4. DOMAIN rows' = 1 .. n + 1
  BY <1>3, LenProperties
<1>5. IsFiniteSet(old) /\ n + 1 \notin old
  <2>1. IsFiniteSet(1 .. n)
    BY <1>2, FS_Interval
  <2> QED
    BY <1>2, <2>1, FS_Subset
<1>6. {i \in DOMAIN rows' : rows'[i] = "success"}
        = IF status = "success" THEN old \cup {n + 1} ELSE old
  BY <1>2, <1>3, <1>4
<1>7. Cardinality(old \cup {n + 1}) = Cardinality(old) + 1 /\ Cardinality(old) \in Nat
  BY <1>5, FS_AddElement, FS_CardinalityType
<1>8. Successes = Cardinality(old)
  BY DEF Successes
<1>9. Successes' = IF status = "success" THEN Cardinality(old \cup {n + 1}) ELSE Cardinality(old)
  BY <1>6 DEF Successes
<1>10. n + 1 \in DOMAIN rows'
  BY <1>2, <1>4
<1> HIDE DEF old
<1> QED
  BY <1>1, <1>3, <1>7, <1>8, <1>9, <1>10

LEMMA EffectsInit == Init => EffectsInv
<1> SUFFICES ASSUME Init PROVE EffectsOK
  BY CallInit DEF EffectsInv
<1>1. rows \in Seq(RowStatuses) /\ effects = 0 /\ broken = 0 /\ pc = "dispatch"
  BY DEF Init
<1>2. {i \in DOMAIN rows : rows[i] = "success"} = {}
  BY DEF Init
<1>3. Successes = 0
  BY <1>2, FS_EmptySet DEF Successes
<1> QED
  BY <1>1, <1>3 DEF EffectsOK, Unrecorded

LEMMA EffectsStep == EffectsInv /\ [Next]_vars => EffectsInv'
<1> SUFFICES ASSUME EffectsInv, [Next]_vars PROVE EffectsOK'
  BY CallStep DEF EffectsInv
<1>0. Successes \in Nat /\ effects \in Nat /\ faults \in Nat /\ broken \in Nat
  BY SuccessesType DEF EffectsInv, EffectsOK, CallInv, CallType
<1>1. rows' = rows => Successes' = Successes
  BY DEF Successes
<1>2. \A status \in RowStatuses : Written(status) =>
          /\ rows' \in Seq(RowStatuses) /\ faults' = faults
          /\ Successes' = Successes + (IF status = "success" THEN 1 ELSE 0)
          /\ \E i \in DOMAIN rows' : rows'[i] = status
  BY WrittenCounts DEF EffectsInv, EffectsOK
<1> USE DEF EffectsInv, EffectsOK, Unrecorded, Goes, Fail, Answer, Refused, Rejects, executor
<1>3. CASE Dispatch
  BY <1>0, <1>1, <1>3 DEF Dispatch
<1>4. CASE Path
  BY <1>0, <1>1, <1>4 DEF Path
<1>5. CASE PathsDone
  BY <1>0, <1>1, <1>5 DEF PathsDone
<1>6. CASE Refuse
  <2>1. Written("refused") => Successes' = Successes /\ rows' \in Seq(RowStatuses)
    BY <1>0, <1>2 DEF RowStatuses
  <2>2. UNCHANGED <<raised, effects, broken, kind>> /\ pc = "refuse"
    BY <1>6 DEF Refuse
  <2>3. CASE Written("refused") /\ Fail(audited')
    BY <1>0, <2>1, <2>2, <2>3 DEF Written
  <2>4. CASE Written("refused") /\ Goes("path") /\ kind \in {"edit", "batch"}
    BY <1>0, <2>1, <2>2, <2>4 DEF Written
  <2>5. CASE Refused /\ (Fail(FALSE) \/ Rejects)
    BY <1>0, <1>1, <2>2, <2>5
  <2> QED
    BY <1>6, <2>3, <2>4, <2>5 DEF Refuse
<1>7. CASE Record
  BY <1>0, <1>1, <1>2, <1>7 DEF Record, RowStatuses
<1>8. CASE Start
  BY <1>0, <1>1, <1>8 DEF Start, Spawn, CallInv, ToldOK
<1>9. CASE Execute
  BY <1>0, <1>1, <1>9 DEF Execute, call
<1>10. CASE Executed
  <2>1. /\ UNCHANGED <<effects, rows, faults, broken, answer>>
        /\ pc = "exec" /\ Unrecorded' = Unrecorded
    BY <1>1, <1>10 DEF Executed
  <2>2. (raised /\ pc' = "refuse" /\ raised') \/ pc' = "ids"
    <3>1. CASE raised
      BY <1>10, <3>1, Zenon DEF Executed
    <3>2. CASE ~raised
      BY <1>10, <3>2, Zenon DEF Executed
    <3> QED
      BY <3>1, <3>2
  <2> QED
    BY <1>0, <1>10, <2>1, <2>2 DEF Executed, CallInv, CallType
<1>11. CASE TrashIds
  BY <1>0, <1>1, <1>11 DEF TrashIds
<1>12. CASE AuditShell \/ AuditAgain
  BY <1>0, <1>1, <1>2, <1>12 DEF AuditShell, AuditAgain, RowStatuses
<1>13. CASE Failed
  <2>1. UNCHANGED <<effects, broken, raised>> /\ pc = "failed"
    BY <1>13 DEF Failed
  <2>2. CASE ~audited /\ Written("failed")
    <3>1. Failure'
      BY <1>2, <2>2 DEF Failure, RowStatuses
    <3> QED
      BY <1>0, <1>2, <1>13, <2>1, <2>2, <3>1 DEF Failed, RowStatuses
  <2>3. CASE audited \/ Refused
    BY <1>0, <1>1, <1>13, <2>1, <2>3 DEF Failed, Failure
  <2> QED
    BY <1>13, <2>2, <2>3 DEF Failed
<1>14. CASE UNCHANGED vars
  <2>1. UNCHANGED <<call, raised>>
    BY <1>14 DEF vars
  <2>2. Failure' <=> Failure
    BY <2>1 DEF call, Failure
  <2> QED
    BY <1>0, <1>1, <2>1, <2>2 DEF call
<1> QED
  BY <1>3, <1>4, <1>5, <1>6, <1>7, <1>8, <1>9, <1>10, <1>11, <1>12, <1>13, <1>14 DEF Next, Handle

(* What a call did has its row, but for what a batch told as REJECTED after   *)
(* an OSError, and for the last of it, which then has the row of the failure  *)
(* unless the database refused or the supervision broke; the caller is not    *)
(* told that all is well: for batches of any length, wherever they fail.      *)
THEOREM EffectsAudited == Spec => []EffectsRecorded
<1>1. EffectsInv => EffectsRecorded
  <2>1. SUFFICES ASSUME EffectsInv PROVE EffectsRecorded
    OBVIOUS
  <2>2. broken \in Nat /\ effects \in Nat /\ Successes \in Nat
    BY <2>1, SuccessesType DEF EffectsInv, EffectsOK, CallInv, CallType
  <2>3. answer # "none" => pc = "answered"
    BY <2>1 DEF EffectsInv, CallInv, CallType
  <2>4. effects - Successes = broken \/ effects - Successes = broken + 1
    BY <2>1 DEF EffectsInv, EffectsOK, Unrecorded
  <2>5. effects - Successes \in 0 .. broken + 1
    BY <2>2, <2>4
  <2>6. answer = "result" => effects - Successes = broken
    BY <2>1, <2>3 DEF EffectsInv, EffectsOK, Unrecorded
  <2>7. answer = "error" /\ effects - Successes > broken => Failure \/ faults > 0 \/ raised
    BY <2>1, <2>2, <2>3 DEF EffectsInv, EffectsOK, Unrecorded
  <2> QED
    BY <2>5, <2>6, <2>7, Zenon DEF Failure, EffectsRecorded
<1> QED
  BY <1>1, EffectsInit, EffectsStep, PTL DEF Spec
=============================================================================
