------------------------ MODULE TenantDeletionProofs ------------------------
(***************************************************************************)
(* Proofs about TenantDeletion, for any number of stores, pods, callers,   *)
(* holds, attempts and crashes.                                            *)
(***************************************************************************)
EXTENDS TenantDeletion, TLAPS

WorkerRecords == [pc: Steps, at: 0 .. N + 1, attempt: Nat, ok: BOOLEAN]

(* The tasks exist, which they do from the approval on. *)
Tasked == \A s \in Stores : task[s].status # "NONE"

Gated == {"running", "start", "destroy", "record"}

(* What a worker relies on when it takes its next step.  The last part is  *)
(* what makes a hold effective: a worker past its check may go on only     *)
(* with the store at which the hold found it.                              *)
WorkerOK(w) ==
    /\ worker[w].pc \in {"begin", "mark", "running"} => worker[w].at = 0
    /\ worker[w].pc \in {"start", "destroy", "record"} => worker[w].at \in Stores
    /\ worker[w].pc \in {"check", "start", "destroy"} => ~worker[w].ok
    /\ worker[w].pc \in {"approved"} \cup Gated => Tasked
    /\ worker[w].pc \in Gated => eligible
    /\ worker[w].pc = "record" /\ worker[w].ok => worker[w].at \in destroyed \cup Derived
    /\ worker[w].pc = "close" => attested
    /\ worker[w].pc \in {"start", "destroy"} =>
          \A h \in Holds : hold[h] = "ACTIVE" => worker[w].at \in exposed[h]

CompletedAreGone == \A s \in Stores \ Derived : task[s].status = "COMPLETED" => s \in destroyed

IInv ==
    /\ TypeOK
    /\ \A w \in Workers : WorkerOK(w)
    /\ Executable => Tasked
    /\ destroyed # {} => eligible /\ Tasked
    /\ CompletedAreGone
    /\ attested => Stores \ Derived \subseteq destroyed
    /\ run = "COMPLETED" => attested

(* What every step of a worker does and does not do. *)
Moves(w) ==
    /\ worker' \in [Workers -> WorkerRecords]
    /\ \A v \in Workers \ {w} : worker'[v] = worker[v]

Respects ==
    /\ run' \in RunStatuses
    /\ run' = "COMPLETED" => run = "COMPLETED" \/ attested'
    /\ request' \in RequestStatuses
    /\ Executable' => Tasked'
    /\ task' \in [Stores -> [status: TaskStatuses, attempt: Nat]]
    /\ Tasked => Tasked'
    /\ CompletedAreGone'
    /\ destroyed \subseteq destroyed'
    /\ destroyed' \subseteq Stores \ Derived
    /\ destroyed' # destroyed => eligible /\ Tasked'
    /\ attested' \in BOOLEAN
    /\ attested => attested'
    /\ attested' => Stores \ Derived \subseteq destroyed'
    /\ verification' \in {"NONE", "PASS", "FAIL"}
    /\ overlapped' \in BOOLEAN
    /\ calls' \in 0 .. MaxCalls
    /\ crashes' \in 0 .. MaxCrashes
    /\ UNCHANGED gates

LEMMA MoveSafe ==
  ASSUME IInv, NEW w \in Workers, Moves(w), Respects, WorkerOK(w)'
  PROVE  IInv'
<1>1. ASSUME NEW v \in Workers PROVE WorkerOK(v)'
  <2>1. CASE v = w
    BY <2>1
  <2>2. CASE v # w
    <3>1. worker'[v] = worker[v] /\ WorkerOK(v)
      BY <2>2 DEF Moves, IInv
    <3>2. /\ (Tasked => Tasked') /\ destroyed \subseteq destroyed' /\ (attested => attested')
          /\ eligible' = eligible /\ hold' = hold /\ exposed' = exposed
      BY DEF Respects, gates
    <3>3. /\ worker[v].pc \in {"approved"} \cup Gated => Tasked'
          /\ worker[v].pc \in Gated => eligible'
          /\ worker[v].pc = "record" /\ worker[v].ok => worker[v].at \in destroyed' \cup Derived
          /\ worker[v].pc = "close" => attested'
      BY <3>1, <3>2 DEF WorkerOK
    <3>4. worker[v].pc \in {"start", "destroy"} =>
             \A h \in Holds : hold'[h] = "ACTIVE" => worker[v].at \in exposed'[h]
      BY <3>1, <3>2 DEF WorkerOK
    <3>5. /\ worker[v].pc \in {"begin", "mark", "running"} => worker[v].at = 0
          /\ worker[v].pc \in {"start", "destroy", "record"} => worker[v].at \in Stores
          /\ worker[v].pc \in {"check", "start", "destroy"} => ~worker[v].ok
      BY <3>1 DEF WorkerOK
    <3> QED BY <3>1, <3>3, <3>4, <3>5 DEF WorkerOK
  <2> QED BY <2>1, <2>2
<1>2. TypeOK'
  BY DEF IInv, TypeOK, Moves, Respects, WorkerRecords, gates
<1>3. destroyed' # {} => eligible' /\ Tasked'
  BY DEF IInv, Respects, gates
<1>4. run' = "COMPLETED" => attested'
  BY DEF IInv, Respects
<1>5. (Executable' => Tasked') /\ CompletedAreGone' /\ (attested' => Stores \ Derived \subseteq destroyed')
  BY DEF Respects
<1> QED BY <1>1, <1>2, <1>3, <1>4, <1>5 DEF IInv

(* A step that leaves the tasks, the data and the attestation alone. *)
LEMMA RowsRespected ==
  ASSUME IInv, UNCHANGED <<task, attested, destroyed, gates>>,
         run' \in RunStatuses, run' = "COMPLETED" => run = "COMPLETED" \/ attested,
         request' \in RequestStatuses, Executable' => Tasked,
         verification' \in {"NONE", "PASS", "FAIL"},
         overlapped' \in BOOLEAN, calls' \in 0 .. MaxCalls, crashes' \in 0 .. MaxCrashes
  PROVE  Respects
<1>1. Tasked' <=> Tasked
  BY DEF Tasked
<1>2. CompletedAreGone'
  BY DEF IInv, CompletedAreGone
<1> QED BY <1>1, <1>2 DEF IInv, TypeOK, Respects

LEMMA WorkerTyped ==
  ASSUME IInv, NEW w \in Workers
  PROVE  /\ worker \in [Workers -> WorkerRecords]
         /\ worker[w] \in WorkerRecords
         /\ Resting \in WorkerRecords
         /\ Resting.pc = "rest" /\ Resting.at = 0 /\ ~Resting.ok
BY DeletionAssumption DEF IInv, TypeOK, WorkerRecords, Resting, Steps

(* The three ways a worker's position changes. *)
LEMMA GotoMoves ==
  ASSUME IInv, NEW w \in Workers, NEW pc \in Steps, Goto(w, pc)
  PROVE  /\ Moves(w)
         /\ worker'[w].pc = pc /\ worker'[w].at = worker[w].at /\ worker'[w].ok = worker[w].ok
BY WorkerTyped DEF Goto, Moves, WorkerRecords

LEMMA LeaveMoves ==
  ASSUME IInv, NEW w \in Workers, NEW pc \in Steps, Leave(w, pc)
  PROVE  /\ Moves(w)
         /\ worker'[w].pc = pc /\ worker'[w].at = 0 /\ ~worker'[w].ok
BY WorkerTyped DEF Leave, Moves, WorkerRecords, Resting

LEMMA RestMoves ==
  ASSUME IInv, NEW w \in Workers, Rest(w)
  PROVE  /\ Moves(w)
         /\ worker'[w].pc = "rest" /\ worker'[w].at = 0 /\ ~worker'[w].ok
BY WorkerTyped DEF Rest, Moves, WorkerRecords, Resting

LEMMA NextStoreMoves ==
  ASSUME IInv, NEW w \in Workers, worker[w].at \in 0..N, NextStore(w)
  PROVE  /\ Moves(w)
         /\ worker'[w].pc = "check" /\ worker'[w].at = worker[w].at + 1 /\ ~worker'[w].ok
<1>1. "check" \in Steps /\ worker[w].at + 1 \in 0 .. N + 1
  BY DeletionAssumption DEF Steps
<1> QED BY <1>1, WorkerTyped DEF NextStore, Moves, WorkerRecords, Resting

(* Places at which WorkerOK asks nothing. *)
Free == Steps \ ({"begin", "mark", "check", "approved", "close"} \cup Gated)

LEMMA FreeOK ==
  ASSUME NEW w \in Workers, worker'[w].pc \in Free
  PROVE  WorkerOK(w)'
BY DEF WorkerOK, Free, Gated

(* Most steps only change a status and go where WorkerOK asks nothing. *)
LEMMA FreeStep ==
  ASSUME IInv, NEW w \in Workers,
         \/ Rest(w)
         \/ \E pc \in Free : Goto(w, pc) \/ Leave(w, pc),
         UNCHANGED <<task, attested, destroyed, gates, overlapped, calls>>,
         run' \in RunStatuses, run' = "COMPLETED" => run = "COMPLETED" \/ attested,
         request' \in RequestStatuses, Executable' => Tasked,
         verification' \in {"NONE", "PASS", "FAIL"}, crashes' \in 0 .. MaxCrashes
  PROVE  IInv'
<1>1. Moves(w) /\ worker'[w].pc \in Free
  <2>1. Free \subseteq Steps /\ "rest" \in Free
    BY DEF Free, Steps, Gated
  <2>2. CASE Rest(w)
    BY <2>1, <2>2, RestMoves
  <2>3. ASSUME NEW pc \in Free, Goto(w, pc) PROVE Moves(w) /\ worker'[w].pc \in Free
    BY <2>1, <2>3, GotoMoves
  <2>4. ASSUME NEW pc \in Free, Leave(w, pc) PROVE Moves(w) /\ worker'[w].pc \in Free
    BY <2>1, <2>4, LeaveMoves
  <2> QED BY <2>2, <2>3, <2>4
<1>2. Respects
  <2>1. overlapped' \in BOOLEAN /\ calls' \in 0 .. MaxCalls
    BY DEF IInv, TypeOK
  <2> QED BY <2>1, RowsRespected
<1>3. WorkerOK(w)'
  BY <1>1, FreeOK
<1> QED BY <1>1, <1>2, <1>3, MoveSafe

LEMMA SubmitSafe ==
  ASSUME IInv, NEW w \in Workers, Submit(w)
  PROVE  IInv'
<1>1. {"submitted"} \subseteq Free
  BY DEF Free, Steps, Gated
<1>2. CASE SubmitRequest(w)
  BY <1>1, <1>2, FreeStep DEF SubmitRequest, IInv, TypeOK, RequestStatuses, Executable, gates, counts
<1>3. CASE RecordRequest(w)
  BY <1>3, FreeStep DEF RecordRequest, IInv, TypeOK, RunStatuses, Executable, gates, counts
<1> QED BY <1>2, <1>3 DEF Submit

LEMMA DecideSafe ==
  ASSUME IInv, NEW w \in Workers, RefuseApproval(w) \/ SuspendRun(w) \/ Postpone(w)
  PROVE  IInv'
<1>1. "suspend" \in Free
  BY DEF Free, Steps, Gated
<1>2. CASE RefuseApproval(w)
  BY <1>1, <1>2, FreeStep DEF RefuseApproval, IInv, TypeOK, RequestStatuses, Executable, gates, counts
<1>3. CASE SuspendRun(w)
  BY <1>3, FreeStep DEF SuspendRun, IInv, TypeOK, RunStatuses, Executable, gates, counts
<1>4. CASE Postpone(w)
  BY <1>4, FreeStep DEF Postpone, IInv, TypeOK, RunStatuses, Executable, gates, counts
<1> QED BY <1>2, <1>3, <1>4

LEMMA ThrowLeaves ==
  ASSUME NEW w \in Workers, Throw(w)
  PROVE  \/ Rest(w)
         \/ \E pc \in Free : Goto(w, pc) \/ Leave(w, pc)
<1>1. "fail" \in Free
  BY DEF Free, Steps, Gated
<1> QED BY <1>1 DEF Throw

LEMMA EndSafe ==
  ASSUME IInv, NEW w \in Workers,
         \/ Refuse(w) \/ FailRun(w) \/ BeginVerifying(w) \/ Verify(w)
         \/ MarkBackupExpiryPending(w) \/ FinishRun(w) \/ Crash(w)
  PROVE  IInv'
<1>1. {"verify", "settle", "fail", "finish"} \subseteq Free
  BY DEF Free, Steps, Gated
<1>2. CASE Refuse(w)
  BY <1>2, ThrowLeaves, FreeStep DEF Refuse, IInv, TypeOK, RequestStatuses, Executable, gates, counts
<1>3. CASE FailRun(w)
  BY <1>3, FreeStep DEF FailRun, IInv, TypeOK, RunStatuses, Executable, gates, counts
<1>4. CASE BeginVerifying(w)
  BY <1>1, <1>4, FreeStep DEF BeginVerifying, IInv, TypeOK, RunStatuses, Executable, gates, counts
<1>5. CASE Verify(w)
  BY <1>1, <1>5, FreeStep DEF Verify, IInv, TypeOK, Executable, gates, counts
<1>6. CASE MarkBackupExpiryPending(w)
  BY <1>1, <1>6, FreeStep
     DEF MarkBackupExpiryPending, IInv, TypeOK, RequestStatuses, Executable, gates, counts
<1>7. CASE FinishRun(w)
  BY <1>7, FreeStep DEF FinishRun, IInv, TypeOK, RunStatuses, Executable, gates, counts
<1>8. CASE Crash(w)
  BY <1>8, FreeStep, DeletionAssumption DEF Crash, IInv, TypeOK, Executable, rows, gates
<1> QED BY <1>2, <1>3, <1>4, <1>5, <1>6, <1>7, <1>8

LEMMA CallSafe ==
  ASSUME IInv, NEW c \in Workers,
         StartDeletion(c) \/ ApproveDeletion(c) \/ ResumeDeletion(c) \/ ResumeDue(c) \/ IssueAttestation(c)
  PROVE  IInv'
<1> USE WorkerTyped
<1>0. worker[c] = Resting /\ worker[c].at = 0 /\ ~worker[c].ok
  BY DEF StartDeletion, ApproveDeletion, ResumeDeletion, ResumeDue, IssueAttestation, Call
<1>1. CASE StartDeletion(c)
  <2>1. Moves(c) /\ worker'[c].pc = "submit"
    BY <1>1 DEF StartDeletion, Moves, WorkerRecords, Steps
  <2>2. WorkerOK(c)'
    BY <2>1, FreeOK DEF Free, Steps, Gated
  <2>3. Respects
    BY <1>1, RowsRespected DEF StartDeletion, IInv, TypeOK, Executable, rows, gates, counts
  <2> QED BY <2>1, <2>2, <2>3, MoveSafe
<1>2. CASE ApproveDeletion(c)
  <2>1. Moves(c) /\ worker'[c].pc \in {"approved", "reject", "approve"}
    BY <1>2 DEF ApproveDeletion, Moves, WorkerRecords, Steps
  <2>2. worker'[c].pc = "approved" => request = "APPROVED"
    BY <1>2 DEF ApproveDeletion, WorkerRecords
  <2>3. worker'[c].pc = "approved" => Tasked'
    BY <1>2, <2>2 DEF IInv, Executable, Tasked, ApproveDeletion, rows
  <2>4. WorkerOK(c)'
    BY <2>1, <2>3 DEF WorkerOK, Gated
  <2>5. Respects
    BY <1>2, RowsRespected, DeletionAssumption
       DEF ApproveDeletion, Call, IInv, TypeOK, Executable, rows, gates, counts
  <2> QED BY <2>1, <2>4, <2>5, MoveSafe
<1>3. CASE ResumeDeletion(c) \/ ResumeDue(c)
  <2>1. Goto(c, "begin") /\ "begin" \in Steps
    BY <1>3 DEF ResumeDeletion, ResumeDue, Steps
  <2>2. Moves(c) /\ worker'[c].pc = "begin" /\ worker'[c].at = 0
    BY <1>0, <2>1, GotoMoves
  <2>3. WorkerOK(c)'
    BY <2>2 DEF WorkerOK, Gated
  <2>4. Respects
    <3>1. overlapped' \in BOOLEAN
      BY <1>3 DEF ResumeDeletion, ResumeDue, Overlap
    <3>2. calls' \in 0 .. MaxCalls /\ crashes' \in 0 .. MaxCrashes
      BY <1>3, DeletionAssumption DEF ResumeDeletion, ResumeDue, Call, IInv, TypeOK
    <3> QED BY <1>3, <3>1, <3>2, RowsRespected
            DEF ResumeDeletion, ResumeDue, IInv, TypeOK, Executable, rows, gates
  <2> QED BY <2>2, <2>3, <2>4, MoveSafe
<1>4. CASE IssueAttestation(c)
  <2>1. Goto(c, "close") /\ "close" \in Steps
    BY <1>4 DEF IssueAttestation, Steps
  <2>2. Moves(c) /\ worker'[c].pc = "close"
    BY <2>1, GotoMoves
  <2>3. WorkerOK(c)'
    BY <1>4, <2>2 DEF WorkerOK, Gated, IssueAttestation
  <2>4. Stores \ Derived \subseteq destroyed
    BY <1>4 DEF IssueAttestation, IInv, CompletedAreGone
  <2>5. Respects
    <3>1. Tasked' <=> Tasked
      BY <1>4 DEF IssueAttestation, Tasked
    <3>2. CompletedAreGone' /\ (Executable' <=> Executable)
      BY <1>4 DEF IssueAttestation, IInv, CompletedAreGone, Executable
    <3> QED BY <1>4, <2>4, <3>1, <3>2, DeletionAssumption
            DEF IssueAttestation, Call, IInv, TypeOK, Respects
  <2> QED BY <2>2, <2>3, <2>5, MoveSafe
<1> QED BY <1>1, <1>2, <1>3, <1>4

-----------------------------------------------------------------------------
(* The steps that matter: approval, gates, stores.                         *)

LEMMA ApproveSafe ==
  ASSUME IInv, NEW c \in Workers, Approve(c)
  PROVE  IInv'
<1>1. CASE task[1] # NoTask
  <2>1. Rest(c)
    BY <1>1 DEF Approve
  <2> QED BY <1>1, <2>1, FreeStep DEF Approve, IInv, TypeOK, Executable, gates, counts
<1>2. CASE task[1] = NoTask
  <2>1. /\ request' = "APPROVED" /\ Goto(c, "approved") /\ "approved" \in Steps
        /\ task' = [s \in Stores |-> [status |-> "PENDING", attempt |-> 0]]
        /\ UNCHANGED <<run, verification, attested, gates, destroyed, counts>>
    BY <1>2 DEF Approve, Steps
  <2>2. Tasked' /\ CompletedAreGone'
    BY <2>1 DEF Tasked, CompletedAreGone
  <2>3. Moves(c) /\ worker'[c].pc = "approved"
    BY <2>1, GotoMoves
  <2>4. WorkerOK(c)'
    BY <2>2, <2>3 DEF WorkerOK, Gated
  <2>5. Respects
    BY <2>1, <2>2 DEF IInv, TypeOK, Respects, RequestStatuses, TaskStatuses, counts
  <2> QED BY <2>3, <2>4, <2>5, MoveSafe
<1> QED BY <1>1, <1>2

LEMMA ApprovedSafe ==
  ASSUME IInv, NEW c \in Workers, Approved(c)
  PROVE  IInv'
<1>1. Tasked
  BY DEF Approved, IInv, WorkerOK
<1>2. {"suspend", "postpone"} \subseteq Free /\ "begin" \in Steps
  BY DEF Free, Steps, Gated
<1>3. ASSUME Goto(c, "suspend") \/ Goto(c, "postpone"), UNCHANGED overlapped,
             request' \in RequestStatuses
      PROVE  IInv'
  BY <1>1, <1>2, <1>3, FreeStep DEF Approved, IInv, TypeOK, gates
<1>4. ASSUME Leave(c, "begin"), Overlap(c), UNCHANGED request
      PROVE  IInv'
  <2>1. Moves(c) /\ worker'[c].pc = "begin" /\ worker'[c].at = 0
    BY <1>2, <1>4, LeaveMoves
  <2>2. WorkerOK(c)'
    BY <2>1 DEF WorkerOK, Gated
  <2>3. overlapped' \in BOOLEAN
    BY <1>4 DEF Overlap
  <2>4. Respects
    BY <1>1, <1>4, <2>3, RowsRespected DEF Approved, IInv, TypeOK
  <2> QED BY <2>1, <2>2, <2>4, MoveSafe
<1>5. \/ Goto(c, "suspend") /\ UNCHANGED <<request, overlapped>>
      \/ Goto(c, "postpone") /\ request' = "AWAITING_RETENTION_EXPIRY" /\ UNCHANGED overlapped
      \/ Leave(c, "begin") /\ Overlap(c) /\ UNCHANGED request
  BY DEF Approved
<1> QED BY <1>3, <1>4, <1>5 DEF IInv, TypeOK, RequestStatuses

LEMMA BeginRunSafe ==
  ASSUME IInv, NEW w \in Workers, BeginRun(w)
  PROVE  IInv'
<1>1. Goto(w, "mark") /\ "mark" \in Steps /\ worker[w].at = 0
  BY DEF BeginRun, Steps, IInv, WorkerOK
<1>2. Moves(w) /\ worker'[w].pc = "mark" /\ worker'[w].at = 0
  BY <1>1, GotoMoves
<1>3. WorkerOK(w)'
  BY <1>2 DEF WorkerOK, Gated
<1>4. Respects
  BY RowsRespected DEF BeginRun, IInv, TypeOK, RunStatuses, Executable, gates, counts
<1> QED BY <1>2, <1>3, <1>4, MoveSafe

(* The gate lets a worker pass only with the tasks there, the retention    *)
(* period over and no hold active; otherwise the worker gives up.          *)
LEMMA GateRefuses ==
  ASSUME IInv, NEW w \in Workers, UNCHANGED <<run, task, verification, attested, gates, destroyed, counts>>,
         \/ Throw(w) /\ UNCHANGED request
         \/ Throw(w) /\ request' = "AWAITING_RETENTION_EXPIRY" /\ Executable
         \/ Goto(w, "refuse") /\ UNCHANGED request
  PROVE  IInv'
<1>1. "refuse" \in Free
  BY DEF Free, Steps, Gated
<1>2. \/ Rest(w)
      \/ \E pc \in Free : Goto(w, pc) \/ Leave(w, pc)
  BY <1>1, ThrowLeaves
<1> QED BY <1>2, FreeStep DEF IInv, TypeOK, RequestStatuses, Executable, gates, counts

LEMMA MarkCheckSafe ==
  ASSUME IInv, NEW w \in Workers, MarkCheck(w)
  PROVE  IInv'
<1>1. CASE Executable /\ eligible /\ ~Held /\ Goto(w, "running") /\ UNCHANGED request
  <2>1. worker[w].at = 0 /\ "running" \in Steps
    BY DEF MarkCheck, Steps, IInv, WorkerOK
  <2>2. Moves(w) /\ worker'[w].pc = "running" /\ worker'[w].at = 0
    BY <1>1, <2>1, GotoMoves
  <2>3. Respects
    BY <1>1, RowsRespected DEF MarkCheck, IInv, TypeOK, Executable, gates, counts
  <2>4. Tasked' /\ eligible'
    BY <1>1, <2>3 DEF IInv, Respects, gates
  <2>5. WorkerOK(w)'
    BY <2>2, <2>4 DEF WorkerOK, Gated
  <2> QED BY <2>2, <2>3, <2>5, MoveSafe
<1>2. CASE ~(Executable /\ eligible /\ ~Held /\ Goto(w, "running") /\ UNCHANGED request)
  BY <1>2, GateRefuses DEF MarkCheck, Gate
<1> QED BY <1>1, <1>2

LEMMA MarkRunningSafe ==
  ASSUME IInv, NEW w \in Workers, MarkRunning(w)
  PROVE  IInv'
<1>1. worker[w].at = 0 /\ Tasked /\ NextStore(w)
  BY DEF MarkRunning, IInv, WorkerOK, Gated
<1>2. Moves(w) /\ worker'[w].pc = "check" /\ ~worker'[w].ok
  BY <1>1, NextStoreMoves, DeletionAssumption
<1>3. WorkerOK(w)'
  BY <1>2 DEF WorkerOK, Gated
<1>4. Respects
  BY <1>1, RowsRespected DEF MarkRunning, IInv, TypeOK, RequestStatuses, gates, counts
<1> QED BY <1>2, <1>3, <1>4, MoveSafe

LEMMA CheckTaskSafe ==
  ASSUME IInv, NEW w \in Workers, CheckTask(w)
  PROVE  IInv'
<1> DEFINE Passes == /\ Executable /\ eligible /\ ~Held
                     /\ worker' = [worker EXCEPT ![w].pc = "start",
                                                 ![w].attempt = task[worker[w].at].attempt + 1]
                     /\ UNCHANGED request
<1>0. /\ worker[w].pc = "check" /\ worker[w].at \in Stores /\ ~worker[w].ok
      /\ UNCHANGED <<run, task, verification, attested, gates, destroyed, counts>>
  BY DEF CheckTask, IInv, WorkerOK
<1>1. CASE NextStore(w) /\ UNCHANGED request
  <2>1. Moves(w) /\ worker'[w].pc = "check" /\ ~worker'[w].ok
    BY <1>0, <1>1, NextStoreMoves, DeletionAssumption DEF Stores
  <2>2. WorkerOK(w)'
    BY <2>1 DEF WorkerOK, Gated
  <2>3. Respects
    BY <1>0, <1>1, RowsRespected DEF IInv, TypeOK, Executable, gates, counts
  <2> QED BY <2>1, <2>2, <2>3, MoveSafe
<1>2. CASE Leave(w, "fail") /\ UNCHANGED request
  <2>1. "fail" \in Free
    BY DEF Free, Steps, Gated
  <2> QED BY <1>0, <1>2, <2>1, FreeStep DEF IInv, TypeOK, Executable, gates, counts
<1>3. CASE Passes
  <2>1. task[worker[w].at].attempt \in Nat /\ "start" \in Steps
    BY <1>0 DEF IInv, TypeOK, Steps
  <2>2. Moves(w) /\ worker'[w].pc = "start" /\ worker'[w].at = worker[w].at /\ worker'[w].ok = worker[w].ok
    BY <1>3, <2>1, WorkerTyped DEF Moves, WorkerRecords
  <2>3. Respects
    BY <1>0, <1>3, RowsRespected DEF IInv, TypeOK, Executable, gates, counts
  <2>4. Tasked' /\ eligible' /\ \A h \in Holds : hold'[h] # "ACTIVE"
    BY <1>0, <1>3, <2>3 DEF IInv, Respects, gates, Held
  <2>5. WorkerOK(w)'
    BY <1>0, <2>2, <2>4 DEF WorkerOK, Gated
  <2> QED BY <2>2, <2>3, <2>5, MoveSafe
<1>4. \/ NextStore(w) /\ UNCHANGED request
      \/ Leave(w, "fail") /\ UNCHANGED request
      \/ Throw(w) /\ UNCHANGED request
      \/ Throw(w) /\ request' = "AWAITING_RETENTION_EXPIRY" /\ Executable
      \/ Goto(w, "refuse") /\ UNCHANGED request
      \/ Passes
  BY DEF CheckTask, Gate
<1> QED BY <1>0, <1>1, <1>2, <1>3, <1>4, GateRefuses

LEMMA StartTaskSafe ==
  ASSUME IInv, NEW w \in Workers, StartTask(w)
  PROVE  IInv'
<1>0. /\ worker[w].pc = "start" /\ worker[w].at \in Stores /\ ~worker[w].ok /\ Tasked /\ eligible
      /\ \A h \in Holds : hold[h] = "ACTIVE" => worker[w].at \in exposed[h]
      /\ Goto(w, "destroy") /\ "destroy" \in Steps
      /\ task' = [task EXCEPT ![worker[w].at] = [status |-> "RUNNING", attempt |-> worker[w].attempt]]
      /\ UNCHANGED <<run, request, verification, attested, gates, destroyed, counts>>
  BY DEF StartTask, IInv, WorkerOK, Gated, Steps
<1>1. /\ Moves(w) /\ worker'[w].pc = "destroy" /\ worker'[w].at = worker[w].at /\ worker'[w].ok = worker[w].ok
  BY <1>0, GotoMoves
<1>2. task' \in [Stores -> [status: TaskStatuses, attempt: Nat]]
  <2>1. worker[w].attempt \in Nat
    BY WorkerTyped DEF WorkerRecords
  <2> QED BY <1>0, <2>1 DEF IInv, TypeOK, TaskStatuses
<1>3. Tasked' /\ CompletedAreGone'
  BY <1>0 DEF IInv, TypeOK, Tasked, CompletedAreGone
<1>4. Respects
  BY <1>0, <1>2, <1>3 DEF IInv, TypeOK, Respects, counts
<1>5. WorkerOK(w)'
  BY <1>0, <1>1, <1>3 DEF WorkerOK, Gated, gates
<1> QED BY <1>1, <1>4, <1>5, MoveSafe

(* Whatever a worker destroys, it had a right to. *)
LEMMA DestroyFacts ==
  ASSUME IInv, NEW w \in Workers, DestroyStore(w)
  PROVE  /\ destroyed \subseteq destroyed' /\ destroyed' \subseteq destroyed \cup ({worker[w].at} \ Derived)
         /\ worker[w].at \in Stores /\ Tasked /\ eligible
         /\ \A h \in Holds : hold[h] = "ACTIVE" => worker[w].at \in exposed[h]
         /\ Moves(w) /\ worker'[w].pc = "record" /\ worker'[w].at = worker[w].at
         /\ worker'[w].ok => worker[w].at \in destroyed' \cup Derived
         /\ UNCHANGED <<rows, gates, counts>>
<1>1. /\ worker[w].pc = "destroy" /\ worker[w].at \in Stores /\ ~worker[w].ok /\ Tasked /\ eligible
      /\ \A h \in Holds : hold[h] = "ACTIVE" => worker[w].at \in exposed[h]
      /\ UNCHANGED <<rows, gates, counts>> /\ "record" \in Steps
  BY DEF DestroyStore, IInv, WorkerOK, Gated, Steps
<1>2. CASE /\ destroyed' = destroyed \cup ({worker[w].at} \ Derived)
           /\ worker' = [worker EXCEPT ![w].pc = "record", ![w].ok = TRUE]
  <2>1. Moves(w) /\ worker'[w].pc = "record" /\ worker'[w].at = worker[w].at
    BY <1>1, <1>2, WorkerTyped DEF Moves, WorkerRecords
  <2> QED BY <1>1, <1>2, <2>1
<1>3. CASE /\ worker[w].at \notin Derived
           /\ destroyed' \in {destroyed, destroyed \cup {worker[w].at}}
           /\ Goto(w, "record")
  <2>1. Moves(w) /\ worker'[w].pc = "record" /\ worker'[w].at = worker[w].at /\ ~worker'[w].ok
    BY <1>1, <1>3, GotoMoves
  <2> QED BY <1>1, <1>3, <2>1
<1> QED BY <1>2, <1>3 DEF DestroyStore

LEMMA DestroyStoreSafe ==
  ASSUME IInv, NEW w \in Workers, DestroyStore(w)
  PROVE  IInv'
<1>1. /\ destroyed \subseteq destroyed' /\ destroyed' \subseteq destroyed \cup ({worker[w].at} \ Derived)
      /\ worker[w].at \in Stores /\ Tasked /\ eligible
      /\ Moves(w) /\ worker'[w].pc = "record" /\ worker'[w].at = worker[w].at
      /\ worker'[w].ok => worker[w].at \in destroyed' \cup Derived
      /\ UNCHANGED <<rows, gates, counts>>
  BY DestroyFacts
<1>2. Tasked' /\ CompletedAreGone'
  BY <1>1 DEF IInv, Tasked, CompletedAreGone, rows
<1>3. Respects
  <2>1. destroyed' \subseteq Stores \ Derived
    BY <1>1 DEF IInv, TypeOK
  <2> QED BY <1>1, <1>2, <2>1 DEF IInv, TypeOK, Respects, rows, counts
<1>4. WorkerOK(w)'
  BY <1>1, <1>2 DEF WorkerOK, Gated, gates
<1> QED BY <1>1, <1>3, <1>4, MoveSafe

LEMMA RecordTaskSafe ==
  ASSUME IInv, NEW w \in Workers, RecordTask(w)
  PROVE  IInv'
<1>0. /\ worker[w].pc = "record" /\ worker[w].at \in Stores /\ Tasked
      /\ worker[w].ok => worker[w].at \in destroyed \cup Derived
      /\ task' = [task EXCEPT ![worker[w].at].status = Outcome(w)]
      /\ UNCHANGED <<run, request, verification, attested, gates, destroyed, counts>>
  BY DEF RecordTask, IInv, WorkerOK, Gated
<1>1. Outcome(w) \in TaskStatuses \ {"NONE"} /\ (Outcome(w) = "COMPLETED" => worker[w].ok)
  BY DEF Outcome, TaskStatuses
<1>2. Moves(w) /\ worker'[w].pc \in {"check", "fail"} /\ ~worker'[w].ok
  <2>1. CASE worker[w].ok
    BY <1>0, <2>1, NextStoreMoves, DeletionAssumption DEF RecordTask, Stores
  <2>2. CASE ~worker[w].ok
    <3>1. Leave(w, "fail") /\ "fail" \in Steps
      BY <2>2 DEF RecordTask, Steps
    <3> QED BY <3>1, LeaveMoves
  <2> QED BY <2>1, <2>2
<1>3. task' \in [Stores -> [status: TaskStatuses, attempt: Nat]]
  BY <1>0, <1>1 DEF IInv, TypeOK
<1>4. Tasked'
  BY <1>0, <1>1 DEF IInv, TypeOK, Tasked
<1>5. CompletedAreGone'
  BY <1>0, <1>1 DEF IInv, TypeOK, CompletedAreGone
<1>6. Respects
  BY <1>0, <1>3, <1>4, <1>5 DEF IInv, TypeOK, Respects, counts
<1>7. WorkerOK(w)'
  BY <1>2 DEF WorkerOK, Gated
<1> QED BY <1>2, <1>6, <1>7, MoveSafe

LEMMA CloseRunSafe ==
  ASSUME IInv, NEW c \in Workers, CloseRun(c)
  PROVE  IInv'
<1>1. attested
  BY DEF CloseRun, IInv, WorkerOK
<1> QED BY <1>1, FreeStep DEF CloseRun, IInv, TypeOK, RunStatuses, Executable, gates, counts

-----------------------------------------------------------------------------
(* Holds and time.                                                         *)

LEMMA HoldSafe ==
  ASSUME IInv, NEW h \in Holds, Place(h)
  PROVE  IInv'
<1>0. /\ UNCHANGED <<run, task, verification, attested, eligible, worker, destroyed, counts>>
      /\ request' \in {request, "BLOCKED_BY_HOLD"}
  BY DEF Place, InsertHold, FindRequest, BlockRequest, HoldEnds, rows
<1>1. TypeOK'
  <2>1. CASE InsertHold(h)
    <3>1. {worker[w].at : w \in {v \in Workers : worker[v].pc \in {"start", "destroy"}}} \subseteq Stores
      BY DEF IInv, WorkerOK
    <3> QED BY <2>1, <3>1, <1>0 DEF InsertHold, IInv, TypeOK, rows, counts
  <2>2. CASE FindRequest(h)
    BY <2>2, <1>0 DEF FindRequest, IInv, TypeOK, rows, counts
  <2>3. CASE BlockRequest(h)
    BY <2>3, <1>0 DEF BlockRequest, IInv, TypeOK, RequestStatuses, counts
  <2>4. CASE HoldEnds(h)
    BY <2>4, <1>0 DEF HoldEnds, IInv, TypeOK, rows, counts
  <2> QED BY <2>1, <2>2, <2>3, <2>4 DEF Place
<1>2. (Tasked' <=> Tasked) /\ (Executable' => Executable)
  BY <1>0 DEF Tasked, Executable
<1>3. ASSUME NEW w \in Workers, worker[w].pc \in {"start", "destroy"},
             NEW g \in Holds, hold'[g] = "ACTIVE"
      PROVE  worker[w].at \in exposed'[g]
  <2>1. hold[g] = "ACTIVE" => worker[w].at \in exposed[g]
    BY <1>3 DEF IInv, WorkerOK
  <2>2. CASE InsertHold(h)
    BY <2>1, <2>2, <1>3 DEF InsertHold, IInv, TypeOK
  <2>3. CASE FindRequest(h) \/ BlockRequest(h)
    BY <2>1, <2>3, <1>3 DEF FindRequest, BlockRequest
  <2>4. CASE HoldEnds(h)
    BY <2>1, <2>4, <1>3 DEF HoldEnds, IInv, TypeOK
  <2> QED BY <2>2, <2>3, <2>4 DEF Place
<1>4. ASSUME NEW w \in Workers PROVE WorkerOK(w)'
  BY <1>0, <1>2, <1>3 DEF IInv, WorkerOK
<1>5. CompletedAreGone'
  BY <1>0 DEF IInv, CompletedAreGone
<1> QED BY <1>0, <1>1, <1>2, <1>4, <1>5 DEF IInv

LEMMA RetentionExpiresSafe ==
  ASSUME IInv, RetentionExpires
  PROVE  IInv'
<1>0. eligible' = TRUE /\ UNCHANGED <<rows, hold, placing, exposed, worker, destroyed, counts>>
  BY DEF RetentionExpires
<1>1. TypeOK'
  BY <1>0 DEF IInv, TypeOK, rows, counts
<1>2. (Tasked' <=> Tasked) /\ (Executable' <=> Executable)
  BY <1>0 DEF Tasked, Executable, rows
<1>3. \A w \in Workers : WorkerOK(w)'
  BY <1>0, <1>2 DEF IInv, WorkerOK, rows
<1>4. CompletedAreGone'
  BY <1>0 DEF IInv, CompletedAreGone, rows
<1> QED BY <1>0, <1>1, <1>2, <1>3, <1>4 DEF IInv, rows

LEMMA InitHolds == Init => IInv
<1> SUFFICES ASSUME Init PROVE IInv
  OBVIOUS
<1>1. TypeOK
  <2>1. Resting \in WorkerRecords /\ NoTask \in [status: TaskStatuses, attempt: Nat]
    BY DeletionAssumption DEF Resting, WorkerRecords, Steps, NoTask, TaskStatuses
  <2>2. 0 \in 0 .. MaxCalls /\ 0 \in 0 .. MaxCrashes
    BY DeletionAssumption
  <2>3. /\ run \in RunStatuses /\ request \in RequestStatuses
        /\ {eligible, attested, overlapped} \subseteq BOOLEAN
        /\ destroyed \subseteq Stores \ Derived
    BY DEF Init, RunStatuses, RequestStatuses
  <2> QED BY <2>1, <2>2, <2>3 DEF Init, TypeOK, WorkerRecords
<1>2. \A w \in Workers : WorkerOK(w)
  BY DEF Init, WorkerOK, Gated, Resting
<1>3. CompletedAreGone
  BY DEF Init, CompletedAreGone, NoTask
<1> QED BY <1>1, <1>2, <1>3 DEF Init, IInv, Executable

LEMMA NextSafe == IInv /\ [Next]_vars => IInv'
<1> SUFFICES ASSUME IInv, [Next]_vars PROVE IInv'
  OBVIOUS
<1>1. Callers \subseteq Workers /\ Pods \subseteq Workers
  BY DEF Workers
<1>2. ASSUME NEW c \in Callers,
             StartDeletion(c) \/ ApproveDeletion(c) \/ ResumeDeletion(c) \/ IssueAttestation(c)
      PROVE  IInv'
  BY <1>1, <1>2, CallSafe
<1>3. ASSUME NEW p \in Pods, ResumeDue(p) PROVE IInv'
  BY <1>1, <1>3, CallSafe
<1>4. ASSUME NEW w \in Workers, Execute(w) PROVE IInv'
  BY <1>4, BeginRunSafe, MarkCheckSafe, MarkRunningSafe, CheckTaskSafe, StartTaskSafe, DestroyStoreSafe,
     RecordTaskSafe, EndSafe DEF Execute
<1>5. ASSUME NEW w \in Workers, Decide(w) PROVE IInv'
  BY <1>5, DecideSafe, ApproveSafe, ApprovedSafe DEF Decide
<1>6. ASSUME NEW w \in Workers, Work(w) \/ Crash(w) PROVE IInv'
  BY <1>4, <1>5, <1>6, SubmitSafe, CloseRunSafe, EndSafe DEF Work
<1>7. ASSUME NEW h \in Holds, Place(h) PROVE IInv'
  BY <1>7, HoldSafe
<1>8. CASE UNCHANGED vars
  BY <1>8 DEF vars, rows, gates, counts, IInv, TypeOK, WorkerOK, Tasked, Executable, CompletedAreGone
<1> QED BY <1>2, <1>3, <1>6, <1>7, <1>8, RetentionExpiresSafe DEF Next

THEOREM Invariance == Spec => []IInv
<1>1. Init => IInv
  BY InitHolds
<1>2. IInv /\ [Next]_vars => IInv'
  BY NextSafe
<1> QED BY <1>1, <1>2, PTL DEF Spec

-----------------------------------------------------------------------------
(* The results.                                                            *)

(* Rows, holds and workers keep the values the code gives them             *)
(* (tenant-offboarding.service.ts, deletion-task.service.ts).              *)
THEOREM TypeCorrect == Spec => []TypeOK
<1>1. IInv => TypeOK
  BY DEF IInv
<1> QED BY <1>1, Invariance, PTL

(* No store is emptied before the approval made the tasks and the          *)
(* retention period was over (deletion-request.service.ts:361-424).        *)
THEOREM ApprovedAndRetained == Spec => []NothingBeforeItsTime
<1>1. IInv => NothingBeforeItsTime
  BY DEF IInv, NothingBeforeItsTime, Tasked, NoTask
<1> QED BY <1>1, Invariance, PTL

(* A task recorded as completed, an attestation and a closed run tell the  *)
(* truth about the data, however many workers overwrite each other's rows  *)
(* (deletion-task.service.ts:102-157, deletion-attestation.service.ts).    *)
THEOREM RecordsTellTheTruth == Spec => []RecordsAreTrue
<1>1. IInv => RecordsAreTrue
  BY DEF IInv, RecordsAreTrue, CompletedAreGone
<1> QED BY <1>1, Invariance, PTL

(* Data that goes under an active hold belongs to a store a worker had     *)
(* checked before the hold was placed: for any number of workers, holds    *)
(* and crashes no later check lets anything through                        *)
(* (deletion-task.service.ts:86-121).                                      *)
THEOREM HoldsHold == Spec => HoldStopsStores
<1>1. ASSUME IInv, [Next]_vars, NEW h \in Holds, hold[h] = "ACTIVE"
      PROVE  destroyed' \ destroyed \subseteq exposed[h]
  <2>1. ASSUME NEW w \in Workers, DestroyStore(w)
        PROVE  destroyed' \ destroyed \subseteq exposed[h]
    BY <1>1, <2>1, DestroyFacts
  <2>2. CASE destroyed' = destroyed
    BY <2>2
  <2>3. CASE destroyed' # destroyed
    <3>1. \E w \in Workers : DestroyStore(w)
      BY <1>1, <2>3
         DEF Next, vars, Work, Submit, Decide, Execute, Place, SubmitRequest, RecordRequest, RefuseApproval,
             SuspendRun, Approve, Approved, Postpone, BeginRun, MarkCheck, MarkRunning, Refuse, CheckTask,
             StartTask, RecordTask, FailRun, BeginVerifying, Verify, MarkBackupExpiryPending, FinishRun,
             CloseRun, Crash, StartDeletion, ApproveDeletion, ResumeDeletion, ResumeDue, IssueAttestation,
             InsertHold, FindRequest, BlockRequest, HoldEnds, RetentionExpires
    <3> QED BY <2>1, <3>1
  <2> QED BY <2>2, <2>3
<1>2. IInv /\ [Next]_vars =>
        [\A h \in Holds : hold[h] = "ACTIVE" => destroyed' \ destroyed \subseteq exposed[h]]_vars
  BY <1>1
<1> QED BY <1>2, Invariance, PTL DEF Spec, HoldStopsStores

-----------------------------------------------------------------------------
(* Attempts.  As long as workers do not overlap, one of them at most is in *)
(* the loop over the stores.  A task it starts was either recorded, and    *)
(* then it is below the limit or not tried again, or left RUNNING by a     *)
(* crash, which raises the limit.                                          *)

InLoop == {"begin", "mark", "running", "check", "start", "destroy", "record"}
AtTask == {"start", "destroy", "record"}

Limit == MaxAttempts + crashes

Alone == \A v, w \in Workers : {worker[v].pc, worker[w].pc} \subseteq InLoop => v = w

Attending(w, s) == worker[w].pc \in {"destroy", "record"} /\ worker[w].at = s

TaskBounded(s) ==
    /\ task[s].attempt <= Limit
    /\ \/ task[s].status \in {"COMPLETED", "ENGINEERING_REVIEW"}
       \/ \E w \in Workers : Attending(w, s)
       \/ task[s].attempt < Limit

AttemptOK(w) ==
    /\ worker[w].pc = "start" => worker[w].attempt <= Limit
    /\ worker[w].pc \in {"destroy", "record"} => worker[w].attempt = task[worker[w].at].attempt

Bounded ==
    ~overlapped =>
        /\ Alone
        /\ \A s \in Stores : TaskBounded(s)
        /\ \A w \in Workers : AttemptOK(w)

LEMMA LimitNumber ==
  ASSUME IInv
  PROVE  /\ Limit \in Nat /\ crashes \in Nat /\ MaxAttempts \in Nat /\ MaxAttempts >= 1
         /\ \A s \in Stores : task[s] \in [status: TaskStatuses, attempt: Nat] /\ task[s].attempt \in Nat
         /\ \A w \in Workers : worker[w].attempt \in Nat
BY WorkerTyped, DeletionAssumption DEF IInv, TypeOK, Limit, WorkerRecords

(* A worker enters the loop with all others at rest. *)
LEMMA AloneStays ==
  ASSUME NEW w \in Workers, Alone, Moves(w),
         worker'[w].pc \in InLoop =>
             worker[w].pc \in InLoop \/ \A v \in Workers \ {w} : worker[v].pc \notin InLoop
  PROVE  Alone'
<1> SUFFICES ASSUME NEW u \in Workers, NEW v \in Workers, {worker'[u].pc, worker'[v].pc} \subseteq InLoop
             PROVE  u = v
  BY DEF Alone
<1> QED BY DEF Alone, Moves

(* A step that is not about a task. *)
LEMMA QuietStep ==
  ASSUME IInv, Bounded, NEW w \in Workers, Moves(w), UNCHANGED <<task, crashes>>,
         worker[w].pc \notin AtTask, worker'[w].pc \notin AtTask,
         ~overlapped' => ~overlapped,
         ~overlapped' /\ worker'[w].pc \in InLoop =>
             worker[w].pc \in InLoop \/ \A v \in Workers \ {w} : worker[v].pc \notin InLoop
  PROVE  Bounded'
<1> SUFFICES ASSUME ~overlapped'
             PROVE  Alone' /\ (\A s \in Stores : TaskBounded(s)') /\ (\A v \in Workers : AttemptOK(v)')
  BY DEF Bounded
<1>1. Alone /\ (\A s \in Stores : TaskBounded(s)) /\ (\A v \in Workers : AttemptOK(v))
  BY DEF Bounded
<1>2. \A v \in Workers \ {w} : worker'[v] = worker[v]
  BY DEF Moves
<1>3. Alone'
  BY <1>1, AloneStays
<1>4. Limit' = Limit
  BY DEF Limit
<1>5. ASSUME NEW s \in Stores PROVE TaskBounded(s)'
  <2>1. ASSUME NEW v \in Workers, Attending(v, s) PROVE Attending(v, s)'
    <3>1. v # w
      BY <2>1 DEF Attending, AtTask
    <3> QED BY <1>2, <2>1, <3>1 DEF Attending
  <2> QED BY <1>1, <1>4, <2>1 DEF TaskBounded
<1>6. ASSUME NEW v \in Workers PROVE AttemptOK(v)'
  <2>1. CASE v = w
    BY <2>1 DEF AttemptOK, AtTask
  <2>2. CASE v # w
    BY <1>1, <1>2, <1>4, <2>2 DEF AttemptOK
  <2> QED BY <2>1, <2>2
<1> QED BY <1>3, <1>5, <1>6

(* The ways a worker's position changes outside the tasks. *)
LEMMA QuietMove ==
  ASSUME IInv, Bounded, NEW w \in Workers, UNCHANGED <<task, crashes, overlapped>>,
         worker[w].pc \notin AtTask,
         \/ Rest(w)
         \/ \E pc \in Steps \ InLoop : Goto(w, pc) \/ Leave(w, pc)
         \/ worker[w].pc \in InLoop /\ \E pc \in {"mark", "running"} : Goto(w, pc)
         \/ worker[w].pc \in InLoop /\ worker[w].at \in 0 .. N /\ NextStore(w)
  PROVE  Bounded'
<1>1. AtTask \subseteq InLoop /\ "rest" \notin InLoop /\ {"mark", "running"} \subseteq Steps \ AtTask
      /\ "check" \notin AtTask
  BY DEF AtTask, InLoop, Steps
<1>2. CASE Rest(w)
  BY <1>1, <1>2, RestMoves, QuietStep
<1>3. ASSUME NEW pc \in Steps \ InLoop, Goto(w, pc) \/ Leave(w, pc) PROVE Bounded'
  <2>1. Moves(w) /\ worker'[w].pc = pc
    BY <1>3, GotoMoves, LeaveMoves
  <2> QED BY <1>1, <2>1, QuietStep
<1>4. ASSUME worker[w].pc \in InLoop, NEW pc \in {"mark", "running"}, Goto(w, pc) PROVE Bounded'
  <2>1. Moves(w) /\ worker'[w].pc = pc
    BY <1>1, <1>4, GotoMoves
  <2> QED BY <1>1, <1>4, <2>1, QuietStep
<1>5. CASE worker[w].pc \in InLoop /\ worker[w].at \in 0 .. N /\ NextStore(w)
  <2>1. Moves(w) /\ worker'[w].pc = "check"
    BY <1>5, NextStoreMoves
  <2> QED BY <1>1, <1>5, <2>1, QuietStep
<1> QED BY <1>2, <1>3, <1>4, <1>5

LEMMA QuietBounded ==
  ASSUME IInv, Bounded, NEW w \in Workers,
         \/ Submit(w) \/ RefuseApproval(w) \/ SuspendRun(w) \/ Postpone(w) \/ CloseRun(w)
         \/ BeginRun(w) \/ MarkCheck(w) \/ MarkRunning(w) \/ Refuse(w) \/ FailRun(w)
         \/ BeginVerifying(w) \/ Verify(w) \/ MarkBackupExpiryPending(w) \/ FinishRun(w)
  PROVE  Bounded'
<1> USE DEF counts
<1>1. {"submitted", "suspend", "fail", "refuse", "verify", "settle", "finish"} \subseteq Steps \ InLoop
      /\ {"begin", "mark", "running"} \subseteq InLoop
  BY DEF Steps, InLoop
<1>2. ASSUME Throw(w) PROVE Rest(w) \/ \E pc \in Steps \ InLoop : Goto(w, pc) \/ Leave(w, pc)
  BY <1>1, <1>2 DEF Throw
<1>3. CASE Submit(w)
  BY <1>1, <1>3, QuietMove DEF Submit, SubmitRequest, RecordRequest, AtTask
<1>4. CASE RefuseApproval(w) \/ SuspendRun(w) \/ Postpone(w) \/ CloseRun(w)
  BY <1>1, <1>4, QuietMove DEF RefuseApproval, SuspendRun, Postpone, CloseRun, AtTask
<1>5. CASE BeginRun(w)
  BY <1>1, <1>5, QuietMove DEF BeginRun, AtTask
<1>6. CASE MarkCheck(w)
  <2>1. Rest(w) \/ (\E pc \in Steps \ InLoop : Goto(w, pc) \/ Leave(w, pc)) \/ Goto(w, "running")
    BY <1>1, <1>2, <1>6 DEF MarkCheck, Gate
  <2>2. worker[w].pc = "mark" /\ UNCHANGED <<task, crashes, overlapped>>
    BY <1>6 DEF MarkCheck
  <2> QED BY <1>1, <2>1, <2>2, QuietMove DEF AtTask
<1>7. CASE MarkRunning(w)
  <2>1. worker[w].pc = "running" /\ worker[w].at \in 0 .. N /\ NextStore(w)
        /\ UNCHANGED <<task, crashes, overlapped>>
    BY <1>7, DeletionAssumption DEF MarkRunning, IInv, WorkerOK
  <2> QED BY <1>1, <2>1, QuietMove DEF AtTask
<1>8. CASE Refuse(w)
  BY <1>2, <1>8, QuietMove DEF Refuse, AtTask
<1>9. CASE FailRun(w) \/ FinishRun(w)
  BY <1>9, QuietMove DEF FailRun, FinishRun, AtTask
<1>10. CASE BeginVerifying(w) \/ Verify(w) \/ MarkBackupExpiryPending(w)
  BY <1>1, <1>10, QuietMove DEF BeginVerifying, Verify, MarkBackupExpiryPending, AtTask
<1> QED BY <1>3, <1>4, <1>5, <1>6, <1>7, <1>8, <1>9, <1>10

(* Calls and cron jobs.  Who begins the deletion without an overlap has    *)
(* all others at rest.                                                     *)
LEMMA BeginBounded ==
  ASSUME IInv, Bounded, NEW w \in Workers, Goto(w, "begin") \/ Leave(w, "begin"), Overlap(w),
         UNCHANGED <<task, crashes>>, worker[w].pc \notin AtTask
  PROVE  Bounded'
<1>1. Moves(w) /\ worker'[w].pc = "begin"
  BY GotoMoves, LeaveMoves DEF Steps
<1>2. ~overlapped' => ~overlapped /\ \A v \in Workers \ {w} : worker[v].pc \notin InLoop
  BY WorkerTyped DEF Overlap, InLoop
<1> QED BY <1>1, <1>2, QuietStep DEF AtTask

LEMMA CallBounded ==
  ASSUME IInv, Bounded, NEW c \in Workers,
         StartDeletion(c) \/ ApproveDeletion(c) \/ ResumeDeletion(c) \/ ResumeDue(c) \/ IssueAttestation(c)
  PROVE  Bounded'
<1>0. worker[c] = Resting /\ worker[c].pc \notin AtTask
  BY WorkerTyped
     DEF StartDeletion, ApproveDeletion, ResumeDeletion, ResumeDue, IssueAttestation, Call, AtTask
<1>1. CASE StartDeletion(c)
  <2>1. Moves(c) /\ worker'[c].pc = "submit"
    BY <1>1, WorkerTyped DEF StartDeletion, Moves, WorkerRecords, Steps
  <2> QED BY <1>0, <1>1, <2>1, QuietStep DEF StartDeletion, rows, counts, AtTask, InLoop
<1>2. CASE ApproveDeletion(c)
  <2>1. Moves(c) /\ worker'[c].pc \in {"approved", "reject", "approve"}
    BY <1>2, WorkerTyped DEF ApproveDeletion, Moves, WorkerRecords, Steps
  <2> QED BY <1>0, <1>2, <2>1, QuietStep DEF ApproveDeletion, rows, AtTask, InLoop
<1>3. CASE ResumeDeletion(c) \/ ResumeDue(c)
  BY <1>0, <1>3, BeginBounded DEF ResumeDeletion, ResumeDue, rows
<1>4. CASE IssueAttestation(c)
  BY <1>0, <1>4, QuietMove DEF IssueAttestation, Steps, InLoop
<1> QED BY <1>1, <1>2, <1>3, <1>4

LEMMA ApprovalBounded ==
  ASSUME IInv, Bounded, NEW c \in Workers, Approve(c) \/ Approved(c)
  PROVE  Bounded'
<1> USE DEF counts
<1>1. CASE Approved(c)
  <2>1. {"suspend", "postpone"} \subseteq Steps \ InLoop
    BY DEF Steps, InLoop
  <2>2. \/ Goto(c, "suspend") /\ UNCHANGED overlapped
        \/ Goto(c, "postpone") /\ UNCHANGED overlapped
        \/ Leave(c, "begin") /\ Overlap(c)
    BY <1>1 DEF Approved
  <2>3. worker[c].pc \notin AtTask /\ UNCHANGED <<task, crashes>>
    BY <1>1 DEF Approved, AtTask
  <2> QED BY <2>1, <2>2, <2>3, QuietMove, BeginBounded
<1>2. CASE Approve(c) /\ task[1] # NoTask
  BY <1>2, QuietMove DEF Approve, AtTask
<1>3. CASE Approve(c) /\ task[1] = NoTask
  <2>1. /\ worker[c].pc = "approve" /\ Goto(c, "approved") /\ "approved" \in Steps
        /\ task' = [s \in Stores |-> [status |-> "PENDING", attempt |-> 0]]
        /\ UNCHANGED <<overlapped, crashes>>
    BY <1>3 DEF Approve, Steps
  <2>2. Moves(c) /\ worker'[c].pc = "approved"
    BY <2>1, GotoMoves
  <2>3. \A v \in Workers : worker[v].pc \notin Gated
    <3>1. 1 \in Stores
      BY DeletionAssumption DEF Stores
    <3>2. ~Tasked
      BY <1>3, <3>1 DEF Tasked, NoTask
    <3> QED BY <3>2 DEF IInv, WorkerOK
  <2>4. \A v \in Workers : worker'[v].pc \notin Gated
    BY <2>2, <2>3 DEF Moves, Gated
  <2>5. Limit' = Limit /\ Limit \in Nat /\ 0 < Limit
    BY <2>1, LimitNumber DEF Limit
  <2>6. \A s \in Stores : TaskBounded(s)'
    BY <2>1, <2>5 DEF TaskBounded
  <2>7. \A v \in Workers : AttemptOK(v)'
    BY <2>4 DEF AttemptOK, Gated
  <2>8. ~overlapped => Alone'
    BY <2>1, <2>2, AloneStays DEF Bounded, InLoop
  <2> QED BY <2>1, <2>6, <2>7, <2>8 DEF Bounded
<1> QED BY <1>1, <1>2, <1>3

(* The steps at a task.  Alone, a worker finds nobody attending to it.     *)
LEMMA NobodyElse ==
  ASSUME Alone, NEW w \in Workers, worker[w].pc \in InLoop, NEW v \in Workers \ {w}
  PROVE  worker[v].pc \notin InLoop /\ \A s : ~Attending(v, s)
BY DEF Alone, Attending, InLoop

LEMMA CheckBounded ==
  ASSUME IInv, Bounded, NEW w \in Workers, CheckTask(w)
  PROVE  Bounded'
<1> DEFINE Passes == /\ task[worker[w].at].status \notin {"COMPLETED", "ENGINEERING_REVIEW"}
                     /\ worker' = [worker EXCEPT ![w].pc = "start",
                                                 ![w].attempt = task[worker[w].at].attempt + 1]
<1>0. /\ worker[w].pc = "check" /\ worker[w].at \in Stores
      /\ UNCHANGED <<task, overlapped, crashes>>
  BY DEF CheckTask, counts
<1>1. worker[w].pc \notin AtTask /\ worker[w].pc \in InLoop /\ worker[w].at \in 0 .. N
      /\ {"fail", "refuse"} \subseteq Steps \ InLoop
  BY <1>0 DEF AtTask, InLoop, Steps, Stores
<1>2. \/ NextStore(w) \/ Rest(w) \/ Leave(w, "fail") \/ Goto(w, "refuse")
      \/ Passes
  BY DEF CheckTask, Gate, Throw, IsCheckpoint
<1>3. CASE ~Passes
  BY <1>0, <1>1, <1>2, <1>3, QuietMove
<1>4. CASE Passes
  <2> SUFFICES ASSUME ~overlapped'
               PROVE  Alone' /\ (\A s \in Stores : TaskBounded(s)') /\ (\A v \in Workers : AttemptOK(v)')
    BY DEF Bounded
  <2>1. Alone /\ (\A s \in Stores : TaskBounded(s)) /\ (\A v \in Workers : AttemptOK(v))
    BY <1>0 DEF Bounded
  <2>2. task[worker[w].at].attempt \in Nat /\ "start" \in Steps
    BY <1>0, LimitNumber DEF Steps
  <2>3. Moves(w) /\ worker'[w].pc = "start" /\ worker'[w].attempt = task[worker[w].at].attempt + 1
    BY <1>4, <2>2, WorkerTyped DEF Moves, WorkerRecords
  <2>4. Limit' = Limit /\ Limit \in Nat
    BY <1>0, LimitNumber DEF Limit
  <2>5. \A v \in Workers : \A s : ~Attending(v, s)
    BY <1>0, <1>1, <2>1, NobodyElse DEF Attending
  <2>6. task[worker[w].at].attempt + 1 <= Limit
    BY <1>0, <1>4, <2>1, <2>2, <2>4, <2>5 DEF TaskBounded
  <2>7. Alone'
    BY <1>1, <2>1, <2>3, AloneStays
  <2>8. \A s \in Stores : TaskBounded(s)'
    BY <1>0, <2>1, <2>4, <2>5 DEF TaskBounded
  <2>9. \A v \in Workers : AttemptOK(v)'
    <3>1. AttemptOK(w)'
      BY <2>3, <2>4, <2>6 DEF AttemptOK
    <3>2. \A v \in Workers \ {w} : AttemptOK(v)'
      BY <1>0, <2>1, <2>3, <2>4 DEF AttemptOK, Moves
    <3> QED BY <3>1, <3>2
  <2> QED BY <2>7, <2>8, <2>9
<1> QED BY <1>3, <1>4

LEMMA StartBounded ==
  ASSUME IInv, Bounded, NEW w \in Workers, StartTask(w)
  PROVE  Bounded'
<1> SUFFICES ASSUME ~overlapped'
             PROVE  Alone' /\ (\A s \in Stores : TaskBounded(s)') /\ (\A v \in Workers : AttemptOK(v)')
  BY DEF Bounded
<1>1. /\ worker[w].pc = "start" /\ worker[w].at \in Stores /\ Goto(w, "destroy") /\ "destroy" \in Steps
      /\ task' = [task EXCEPT ![worker[w].at] = [status |-> "RUNNING", attempt |-> worker[w].attempt]]
      /\ UNCHANGED <<overlapped, crashes>>
  BY DEF StartTask, IInv, WorkerOK, Steps, counts
<1>2. Alone /\ (\A s \in Stores : TaskBounded(s)) /\ (\A v \in Workers : AttemptOK(v))
  BY <1>1 DEF Bounded
<1>3. Moves(w) /\ worker'[w].pc = "destroy" /\ worker'[w].at = worker[w].at
      /\ worker'[w].attempt = worker[w].attempt
  BY <1>1, GotoMoves, WorkerTyped DEF Goto, WorkerRecords
<1>4. Limit' = Limit /\ Limit \in Nat /\ worker[w].attempt <= Limit
  BY <1>1, <1>2, LimitNumber DEF Limit, AttemptOK
<1>5. /\ task'[worker[w].at].attempt = worker[w].attempt
      /\ \A s \in Stores \ {worker[w].at} : task'[s] = task[s]
  BY <1>1 DEF IInv, TypeOK
<1>6. worker[w].pc \in InLoop /\ \A v \in Workers \ {w} : worker'[v] = worker[v] /\ worker[v].pc \notin InLoop
  BY <1>1, <1>2, <1>3, NobodyElse DEF InLoop, Moves
<1>7. Alone'
  BY <1>2, <1>3, <1>6, AloneStays
<1>8. ASSUME NEW s \in Stores PROVE TaskBounded(s)'
  <2>1. CASE s = worker[w].at
    <3>1. Attending(w, s)'
      BY <1>3, <2>1 DEF Attending
    <3> QED BY <1>4, <1>5, <2>1, <3>1 DEF TaskBounded
  <2>2. CASE s # worker[w].at
    <3>1. \A v \in Workers : ~Attending(v, s)
      BY <1>1, <1>6 DEF Attending, InLoop
    <3> QED BY <1>2, <1>4, <1>5, <2>2, <3>1 DEF TaskBounded
  <2> QED BY <2>1, <2>2
<1>9. \A v \in Workers : AttemptOK(v)'
  BY <1>3, <1>5, <1>6 DEF AttemptOK, InLoop
<1> QED BY <1>7, <1>8, <1>9

LEMMA DestroyBounded ==
  ASSUME IInv, Bounded, NEW w \in Workers, DestroyStore(w)
  PROVE  Bounded'
<1> SUFFICES ASSUME ~overlapped'
             PROVE  Alone' /\ (\A s \in Stores : TaskBounded(s)') /\ (\A v \in Workers : AttemptOK(v)')
  BY DEF Bounded
<1>1. worker[w].pc = "destroy" /\ UNCHANGED <<task, overlapped, crashes>>
  BY DEF DestroyStore, rows, counts
<1>2. Alone /\ (\A s \in Stores : TaskBounded(s)) /\ (\A v \in Workers : AttemptOK(v))
  BY <1>1 DEF Bounded
<1>3. Moves(w) /\ worker'[w].pc = "record" /\ worker'[w].at = worker[w].at
  BY DestroyFacts
<1>4. worker'[w].attempt = worker[w].attempt
  BY WorkerTyped DEF DestroyStore, Goto, WorkerRecords
<1>5. Limit' = Limit
  BY <1>1 DEF Limit
<1>6. \A v \in Workers, s \in Stores : Attending(v, s) => Attending(v, s)'
  BY <1>3 DEF Attending, Moves
<1>7. Alone'
  BY <1>1, <1>2, <1>3, AloneStays DEF InLoop
<1>8. \A s \in Stores : TaskBounded(s)'
  BY <1>1, <1>2, <1>5, <1>6 DEF TaskBounded
<1>9. \A v \in Workers : AttemptOK(v)'
  <2>1. AttemptOK(w)'
    BY <1>1, <1>2, <1>3, <1>4 DEF AttemptOK
  <2>2. \A v \in Workers \ {w} : AttemptOK(v)'
    BY <1>1, <1>2, <1>3, <1>5 DEF AttemptOK, Moves
  <2> QED BY <2>1, <2>2
<1> QED BY <1>7, <1>8, <1>9

(* A failure at the limit is not tried again; any other leaves room for    *)
(* one more.                                                               *)
LEMMA RecordBounded ==
  ASSUME IInv, Bounded, NEW w \in Workers, RecordTask(w)
  PROVE  Bounded'
<1> SUFFICES ASSUME ~overlapped'
             PROVE  Alone' /\ (\A s \in Stores : TaskBounded(s)') /\ (\A v \in Workers : AttemptOK(v)')
  BY DEF Bounded
<1>1. /\ worker[w].pc = "record" /\ worker[w].at \in Stores
      /\ task' = [task EXCEPT ![worker[w].at].status = Outcome(w)]
      /\ UNCHANGED <<overlapped, crashes>>
  BY DEF RecordTask, IInv, WorkerOK, counts
<1>2. Alone /\ (\A s \in Stores : TaskBounded(s)) /\ (\A v \in Workers : AttemptOK(v))
  BY <1>1 DEF Bounded
<1>3. Moves(w) /\ worker'[w].pc \in {"check", "fail"}
  <2>1. CASE worker[w].ok
    BY <1>1, <2>1, NextStoreMoves, DeletionAssumption DEF RecordTask, Stores
  <2>2. CASE ~worker[w].ok
    <3>1. Leave(w, "fail") /\ "fail" \in Steps
      BY <2>2 DEF RecordTask, Steps
    <3> QED BY <3>1, LeaveMoves
  <2> QED BY <2>1, <2>2
<1>4. /\ Limit' = Limit /\ Limit \in Nat /\ MaxAttempts \in Nat /\ MaxAttempts <= Limit
      /\ worker[w].attempt \in Nat
  BY <1>1, LimitNumber DEF Limit
<1>5. /\ task'[worker[w].at].attempt = task[worker[w].at].attempt
      /\ task'[worker[w].at].status = Outcome(w)
      /\ \A s \in Stores \ {worker[w].at} : task'[s] = task[s]
  BY <1>1 DEF IInv, TypeOK
<1>6. worker[w].pc \in InLoop /\ \A v \in Workers \ {w} : worker'[v] = worker[v] /\ worker[v].pc \notin InLoop
  BY <1>1, <1>2, <1>3, NobodyElse DEF InLoop, Moves
<1>7. Alone'
  BY <1>2, <1>3, <1>6, AloneStays
<1>8. ASSUME NEW s \in Stores PROVE TaskBounded(s)'
  <2>1. CASE s = worker[w].at
    <3>1. worker[w].attempt = task[s].attempt /\ task[s].attempt <= Limit
      BY <1>1, <1>2, <2>1 DEF AttemptOK, TaskBounded
    <3>2. Outcome(w) \in {"COMPLETED", "ENGINEERING_REVIEW"} \/ task[s].attempt < Limit
      BY <1>4, <3>1 DEF Outcome
    <3> QED BY <1>4, <1>5, <2>1, <3>1, <3>2 DEF TaskBounded
  <2>2. CASE s # worker[w].at
    <3>1. \A v \in Workers : ~Attending(v, s)
      BY <1>6, <2>2 DEF Attending, InLoop
    <3> QED BY <1>2, <1>4, <1>5, <2>2, <3>1 DEF TaskBounded
  <2> QED BY <2>1, <2>2
<1>9. \A v \in Workers : AttemptOK(v)'
  BY <1>3, <1>6 DEF AttemptOK, InLoop
<1> QED BY <1>7, <1>8, <1>9

(* A crash may leave a task RUNNING at the limit, which it raises.         *)
LEMMA CrashBounded ==
  ASSUME IInv, Bounded, NEW w \in Workers, Crash(w)
  PROVE  Bounded'
<1> SUFFICES ASSUME ~overlapped'
             PROVE  Alone' /\ (\A s \in Stores : TaskBounded(s)') /\ (\A v \in Workers : AttemptOK(v)')
  BY DEF Bounded
<1>1. crashes' = crashes + 1 /\ Rest(w) /\ UNCHANGED <<task, overlapped>>
  BY DEF Crash, rows
<1>2. Alone /\ (\A s \in Stores : TaskBounded(s)) /\ (\A v \in Workers : AttemptOK(v))
  BY <1>1 DEF Bounded
<1>3. Moves(w) /\ worker'[w].pc = "rest"
  BY <1>1, RestMoves
<1>4. Limit' = Limit + 1 /\ Limit \in Nat
  BY <1>1, LimitNumber DEF Limit
<1>5. Alone'
  BY <1>2, <1>3, AloneStays DEF InLoop
<1>6. \A s \in Stores : TaskBounded(s)'
  BY <1>1, <1>2, <1>4, LimitNumber DEF TaskBounded
<1>7. \A v \in Workers : AttemptOK(v)'
  <2>1. AttemptOK(w)'
    BY <1>3 DEF AttemptOK
  <2>2. \A v \in Workers \ {w} : AttemptOK(v)'
    BY <1>1, <1>2, <1>3, <1>4, LimitNumber DEF AttemptOK, Moves
  <2> QED BY <2>1, <2>2
<1> QED BY <1>5, <1>6, <1>7

LEMMA RestBounded ==
  ASSUME Bounded, UNCHANGED <<task, worker, overlapped, crashes>>
  PROVE  Bounded'
BY DEF Bounded, Alone, TaskBounded, AttemptOK, Attending, Limit

LEMMA BoundedInit == Init => Bounded
<1> SUFFICES ASSUME Init PROVE Bounded
  OBVIOUS
<1>1. \A w \in Workers : worker[w].pc = "rest"
  BY DEF Init, Resting
<1>2. MaxAttempts \in Nat /\ 0 < MaxAttempts /\ crashes = 0
  BY DeletionAssumption DEF Init
<1>3. \A s \in Stores : task[s].attempt = 0
  BY DEF Init, NoTask
<1> QED BY <1>1, <1>2, <1>3 DEF Bounded, Alone, InLoop, TaskBounded, AttemptOK, Limit

LEMMA BoundedNext ==
  ASSUME IInv, Bounded, [Next]_vars
  PROVE  Bounded'
<1>1. Callers \subseteq Workers /\ Pods \subseteq Workers
  BY DEF Workers
<1>2. ASSUME NEW c \in Callers,
             StartDeletion(c) \/ ApproveDeletion(c) \/ ResumeDeletion(c) \/ IssueAttestation(c)
      PROVE  Bounded'
  BY <1>1, <1>2, CallBounded
<1>3. ASSUME NEW p \in Pods, ResumeDue(p) PROVE Bounded'
  BY <1>1, <1>3, CallBounded
<1>4. ASSUME NEW w \in Workers, Execute(w) PROVE Bounded'
  BY <1>4, QuietBounded, CheckBounded, StartBounded, DestroyBounded, RecordBounded DEF Execute
<1>5. ASSUME NEW w \in Workers, Decide(w) PROVE Bounded'
  BY <1>5, QuietBounded, ApprovalBounded DEF Decide
<1>6. ASSUME NEW w \in Workers, Work(w) \/ Crash(w) PROVE Bounded'
  BY <1>4, <1>5, <1>6, QuietBounded, CrashBounded DEF Work
<1>7. CASE UNCHANGED vars \/ RetentionExpires \/ \E h \in Holds : Place(h)
  BY <1>7, RestBounded DEF vars, rows, counts, RetentionExpires, Place, InsertHold, FindRequest,
                           BlockRequest, HoldEnds
<1> QED BY <1>2, <1>3, <1>6, <1>7 DEF Next

(* As long as no two workers run the deletion at once, a store is tried    *)
(* MaxAttempts times and once more for each crash, for any number of pods, *)
(* calls and holds (deletion-task.service.ts, deletion-retry.service.ts).  *)
THEOREM AttemptsBounded == Spec => []AttemptsAreBounded
<1>1. Init => Bounded
  BY BoundedInit
<1>2. IInv /\ Bounded /\ [Next]_vars => Bounded'
  BY BoundedNext
<1>3. IInv /\ Bounded => AttemptsAreBounded
  BY DEF Bounded, TaskBounded, Limit, AttemptsAreBounded
<1> QED BY <1>1, <1>2, <1>3, Invariance, PTL DEF Spec
=============================================================================
