--------------------------- MODULE TenantDeletion ---------------------------
(***************************************************************************)
(* Permanent deletion of one offboarded tenant: TenantOffboardingService   *)
(* drives the run, DeletionRequestService holds the gates (approval,       *)
(* retention, legal hold), DeletionTaskService destroys one store at a     *)
(* time, DeletionRetryService resumes what stopped, from a cron job in     *)
(* every pod.  A worker is such a cron job or a call of the API.  A step   *)
(* ends at a write; the reads that precede it without a write between are  *)
(* part of it, unless what they read can be out of date by the write.      *)
(* Whose call it is, is left out: requester and approver differ.           *)
(***************************************************************************)
EXTENDS Naturals, FiniteSets

CONSTANTS
    N,            \* stores, in the order of STORE_TYPES
    Derived,      \* those that were never populated: nothing is destroyed
    Pods,         \* instances of shield-core, each with its cron job
    Callers,      \* calls of the API at the same time
    Holds,        \* legal holds that will be placed on the tenant
    MaxAttempts,  \* MAX_DELETION_ATTEMPTS
    MaxCalls,     \* bound on the calls that follow startDeletion
    MaxCrashes    \* bound on crashes

Stores == 1 .. N
Workers == Pods \cup Callers

ASSUME DeletionAssumption ==
    /\ {N, MaxAttempts} \subseteq Nat \ {0}
    /\ {MaxCalls, MaxCrashes} \subseteq Nat
    /\ Derived \subseteq Stores
    /\ Pods \cap Callers = {}

VARIABLES
    run,           \* status of the TenantOffboardingRun
    request,       \* status of its DeletionRequest
    eligible,      \* whether retention_expires_at has passed
    task,          \* status and attempt of each store's DeletionTask
    hold,          \* status of each LegalHold
    placing,       \* where the call that creates each hold is
    worker,        \* what each cron job and each call is doing
    verification,  \* result of the latest DeletionVerification
    attested,      \* whether the DeletionAttestation exists
    destroyed,     \* stores whose data is gone
    exposed,       \* stores whose last check preceded each hold
    overlapped,    \* whether two workers ever ran the deletion at once
    calls,         \* calls so far
    crashes        \* crashes so far

rows == <<run, request, task, verification, attested>>
gates == <<eligible, hold, placing, exposed>>
counts == <<overlapped, calls, crashes>>
vars == <<rows, gates, worker, destroyed, counts>>

NoTask == [status |-> "NONE", attempt |-> 0]
Resting == [pc |-> "rest", at |-> 0, attempt |-> 0, ok |-> FALSE]

Init ==
    /\ run = "CONNECTOR_REVOCATION"
    /\ request = "NONE"
    /\ eligible = FALSE
    /\ task = [s \in Stores |-> NoTask]
    /\ hold = [h \in Holds |-> "NONE"]
    /\ placing = [h \in Holds |-> "rest"]
    /\ worker = [w \in Workers |-> Resting]
    /\ verification = "NONE"
    /\ attested = FALSE
    /\ destroyed = {}
    /\ exposed = [h \in Holds |-> {}]
    /\ overlapped = FALSE
    /\ calls = 0
    /\ crashes = 0

Goto(w, pc) == worker' = [worker EXCEPT ![w].pc = pc]
Leave(w, pc) == worker' = [worker EXCEPT ![w] = [Resting EXCEPT !.pc = pc]]
Rest(w) == worker' = [worker EXCEPT ![w] = Resting]
Held == \E h \in Holds : hold[h] = "ACTIVE"

(* A worker that begins the deletion while another is at it, or about to   *)
(* decide on it, overlaps it.                                              *)
Overlap(w) ==
    overlapped' = (overlapped \/ \E v \in Workers \ {w} : worker[v] # Resting)

Call(c) ==
    /\ worker[c] = Resting
    /\ calls < MaxCalls
    /\ calls' = calls + 1

-----------------------------------------------------------------------------
(* Legal holds.  create inserts the hold, looks for open requests and      *)
(* blocks them; a hold ends when ends_at passes, the call being long over. *)

InsertHold(h) ==
    /\ hold[h] = "NONE"
    /\ hold' = [hold EXCEPT ![h] = "ACTIVE"]
    /\ placing' = [placing EXCEPT ![h] = "find"]
    /\ exposed' = [exposed EXCEPT ![h] =
          {worker[w].at : w \in {v \in Workers :
                                    worker[v].pc \in {"start", "destroy"}}}]
    /\ UNCHANGED <<rows, eligible, worker, destroyed, counts>>

FindRequest(h) ==
    /\ placing[h] = "find"
    /\ placing' = [placing EXCEPT ![h] =
          IF request \in {"VALIDATING", "APPROVED", "RUNNING"}
          THEN "block" ELSE "rest"]
    /\ UNCHANGED <<rows, eligible, hold, exposed, worker, destroyed, counts>>

BlockRequest(h) ==
    /\ placing[h] = "block"
    /\ placing' = [placing EXCEPT ![h] = "rest"]
    /\ request' = "BLOCKED_BY_HOLD"
    /\ UNCHANGED <<run, task, verification, attested, eligible, hold, exposed,
                   worker, destroyed, counts>>

HoldEnds(h) ==
    /\ hold[h] = "ACTIVE" /\ placing[h] = "rest"
    /\ hold' = [hold EXCEPT ![h] = "EXPIRED"]
    /\ exposed' = [exposed EXCEPT ![h] = {}]
    /\ UNCHANGED <<rows, eligible, placing, worker, destroyed, counts>>

RetentionExpires ==
    /\ ~eligible /\ request # "NONE"
    /\ eligible' = TRUE
    /\ UNCHANGED <<rows, hold, placing, exposed, worker, destroyed, counts>>

-----------------------------------------------------------------------------
(* startDeletion, called once: the holds are read, the request is created, *)
(* the run is updated.                                                     *)

StartDeletion(c) ==
    /\ worker[c] = Resting
    /\ run = "CONNECTOR_REVOCATION" /\ request = "NONE"
    /\ \A w \in Workers : worker[w].pc # "submit"
    /\ worker' = [worker EXCEPT ![c].pc = "submit", ![c].ok = ~Held]
    /\ UNCHANGED <<rows, gates, destroyed, counts>>

SubmitRequest(c) ==
    /\ worker[c].pc = "submit"
    /\ request' = IF worker[c].ok THEN "VALIDATING" ELSE "BLOCKED_BY_HOLD"
    /\ Goto(c, "submitted")
    /\ UNCHANGED <<run, task, verification, attested, gates, destroyed, counts>>

RecordRequest(c) ==
    /\ worker[c].pc = "submitted"
    /\ run' = IF worker[c].ok THEN "DELETION_PENDING" ELSE "BLOCKED"
    /\ Rest(c)
    /\ UNCHANGED <<request, task, verification, attested, gates, destroyed,
                   counts>>

(* approveAndExecuteDeletion, by another person.  approve reads request    *)
(* and holds; an approved request is returned as it is.                    *)
ApproveDeletion(c) ==
    /\ Call(c)
    /\ run = "DELETION_PENDING"
    /\ request \in {"VALIDATING", "BLOCKED_BY_HOLD", "APPROVED"}
    /\ worker' = [worker EXCEPT
          ![c].pc = IF request = "APPROVED" THEN "approved"
                    ELSE IF Held THEN "reject" ELSE "approve",
          ![c].ok = request = "APPROVED"]
    /\ UNCHANGED <<rows, gates, destroyed, overlapped, crashes>>

RefuseApproval(c) ==
    /\ worker[c].pc = "reject"
    /\ request' = "BLOCKED_BY_HOLD"
    /\ Goto(c, "suspend")
    /\ UNCHANGED <<run, task, verification, attested, gates, destroyed, counts>>

SuspendRun(c) ==
    /\ worker[c].pc = "suspend"
    /\ run' = "BLOCKED"
    /\ Rest(c)
    /\ UNCHANGED <<request, task, verification, attested, gates, destroyed,
                   counts>>

(* One transaction; the tasks of a request exist once.                     *)
Approve(c) ==
    /\ worker[c].pc = "approve"
    /\ IF task[1] = NoTask
       THEN /\ request' = "APPROVED"
            /\ task' = [s \in Stores |-> [status |-> "PENDING", attempt |-> 0]]
            /\ Goto(c, "approved")
       ELSE Rest(c) /\ UNCHANGED <<request, task>>
    /\ UNCHANGED <<run, verification, attested, gates, destroyed, counts>>

(* The request, as returned or as read again after the transaction, is     *)
(* looked at, and the deletion begun or put off.                           *)
Approved(c) ==
    /\ worker[c].pc = "approved"
    /\ LET blocked == ~worker[c].ok /\ request = "BLOCKED_BY_HOLD"
       IN \/ /\ blocked
             /\ Goto(c, "suspend")
             /\ UNCHANGED <<request, overlapped>>
          \/ /\ ~blocked /\ ~eligible
             /\ request' = "AWAITING_RETENTION_EXPIRY"
             /\ Goto(c, "postpone")
             /\ UNCHANGED overlapped
          \/ /\ ~blocked /\ eligible
             /\ Leave(c, "begin")
             /\ Overlap(c)
             /\ UNCHANGED request
    /\ UNCHANGED <<run, task, verification, attested, gates, destroyed, calls,
                   crashes>>

Postpone(c) ==
    /\ worker[c].pc = "postpone"
    /\ run' = "RETENTION_WAIT"
    /\ Rest(c)
    /\ UNCHANGED <<request, task, verification, attested, gates, destroyed,
                   counts>>

-----------------------------------------------------------------------------
(* resumeDeletion, by a person or by the cron job.  The cron job looks for *)
(* work first: a store to be retried whose backoff has passed (here it may *)
(* always have), or a retention period that is over.                       *)

Resumable == run \in {"RETENTION_WAIT", "DELETING", "VERIFYING", "FAILED"}

ResumeDeletion(c) ==
    /\ Call(c)
    /\ Resumable
    /\ Goto(c, "begin")
    /\ Overlap(c)
    /\ UNCHANGED <<rows, gates, destroyed, crashes>>

Retryable ==
    {s \in Stores : task[s].status # "COMPLETED" /\ task[s].attempt < MaxAttempts}

InReview == \E s \in Stores : task[s].status = "ENGINEERING_REVIEW"

ResumeFailedOnly(p) ==  \* deviation: a crashed run is taken for one under way
    /\ worker[p] = Resting
    /\ \/ run = "RETENTION_WAIT" /\ eligible
       \/ /\ run = "FAILED"
          /\ task[1] # NoTask /\ ~InReview /\ Retryable # {}
    /\ Goto(p, "begin")
    /\ Overlap(p)
    /\ UNCHANGED <<rows, gates, destroyed, calls, crashes>>

ResumeDue(p) ==
    /\ worker[p] = Resting
    /\ \/ run = "RETENTION_WAIT" /\ eligible
       \/ /\ run \in {"FAILED", "DELETING", "VERIFYING"}
          /\ task[1] # NoTask /\ ~InReview /\ Retryable # {}
    /\ Goto(p, "begin")
    /\ Overlap(p)
    /\ UNCHANGED <<rows, gates, destroyed, calls, crashes>>

-----------------------------------------------------------------------------
(* executeDeletion                                                         *)

BeginRun(w) ==
    /\ worker[w].pc = "begin"
    /\ run' = "DELETING"
    /\ Goto(w, "mark")
    /\ UNCHANGED <<request, task, verification, attested, gates, destroyed,
                   counts>>

Executable == request \in {"APPROVED", "AWAITING_RETENTION_EXPIRY", "RUNNING"}

(* assertExecutable, from markRunning (at = 0) and before each store.      *)
(* Outside the loop nothing catches what it throws.                        *)
Throw(w) == IF worker[w].at = 0 THEN Rest(w) ELSE Leave(w, "fail")

GateWithoutHolds(w, pass) ==  \* deviation: holds are not looked at again
    \/ /\ ~Executable
       /\ Throw(w) /\ UNCHANGED request
    \/ /\ Executable /\ ~eligible
       /\ request' = "AWAITING_RETENTION_EXPIRY"
       /\ Throw(w)
    \/ /\ Executable /\ eligible
       /\ pass /\ UNCHANGED request

GateWithoutRetention(w, pass) ==  \* deviation: an approval is enough
    \/ /\ ~Executable
       /\ Throw(w) /\ UNCHANGED request
    \/ /\ Executable /\ Held
       /\ Goto(w, "refuse") /\ UNCHANGED request
    \/ /\ Executable /\ ~Held
       /\ pass /\ UNCHANGED request

Gate(w, pass) ==
    \/ /\ ~Executable
       /\ Throw(w) /\ UNCHANGED request
    \/ /\ Executable /\ ~eligible
       /\ request' = "AWAITING_RETENTION_EXPIRY"
       /\ Throw(w)
    \/ /\ Executable /\ eligible /\ Held
       /\ Goto(w, "refuse") /\ UNCHANGED request
    \/ /\ Executable /\ eligible /\ ~Held
       /\ pass /\ UNCHANGED request

MarkCheck(w) ==
    /\ worker[w].pc = "mark"
    /\ Gate(w, Goto(w, "running"))
    /\ UNCHANGED <<run, task, verification, attested, gates, destroyed, counts>>

Refuse(w) ==
    /\ worker[w].pc = "refuse"
    /\ request' = "BLOCKED_BY_HOLD"
    /\ Throw(w)
    /\ UNCHANGED <<run, task, verification, attested, gates, destroyed, counts>>

NextStore(w) ==
    worker' = [worker EXCEPT ![w] =
        [Resting EXCEPT !.pc = "check", !.at = worker[w].at + 1]]

MarkRunning(w) ==
    /\ worker[w].pc = "running"
    /\ request' = "RUNNING"
    /\ NextStore(w)
    /\ UNCHANGED <<run, task, verification, attested, gates, destroyed, counts>>

IsCheckpoint(t) == t.status = "COMPLETED"

(* executeTask.  The attempt it writes is one more than it read.           *)
CheckTask(w) ==
    /\ worker[w].pc = "check" /\ worker[w].at \in Stores
    /\ LET t == task[worker[w].at]
       IN \/ /\ IsCheckpoint(t)
             /\ NextStore(w) /\ UNCHANGED request
          \/ /\ t.status = "ENGINEERING_REVIEW"
             /\ Leave(w, "fail") /\ UNCHANGED request
          \/ /\ ~IsCheckpoint(t) /\ t.status # "ENGINEERING_REVIEW"
             /\ Gate(w, worker' = [worker EXCEPT ![w].pc = "start",
                                                 ![w].attempt = t.attempt + 1])
    /\ UNCHANGED <<run, task, verification, attested, gates, destroyed, counts>>

StartTask(w) ==
    /\ worker[w].pc = "start"
    /\ task' = [task EXCEPT ![worker[w].at] =
          [status |-> "RUNNING", attempt |-> worker[w].attempt]]
    /\ Goto(w, "destroy")
    /\ UNCHANGED <<run, request, verification, attested, gates, destroyed,
                   counts>>

(* The store is emptied; or an error is thrown before or after.            *)
DestroyStore(w) ==
    /\ worker[w].pc = "destroy"
    /\ LET s == worker[w].at
       IN \/ /\ destroyed' = destroyed \cup ({s} \ Derived)
             /\ worker' = [worker EXCEPT ![w].pc = "record", ![w].ok = TRUE]
          \/ /\ s \notin Derived
             /\ destroyed' \in {destroyed, destroyed \cup {s}}
             /\ Goto(w, "record")
    /\ UNCHANGED <<rows, gates, counts>>

OutcomeGivenUp(w) ==  \* deviation: after the last attempt the task is done
    IF worker[w].ok \/ worker[w].attempt >= MaxAttempts THEN "COMPLETED"
    ELSE "FAILED"
OutcomeUnbounded(w) ==  \* deviation: nothing is held for engineering review
    IF worker[w].ok THEN "COMPLETED" ELSE "FAILED"
Outcome(w) ==
    IF worker[w].ok THEN "COMPLETED"
    ELSE IF worker[w].attempt >= MaxAttempts THEN "ENGINEERING_REVIEW"
    ELSE "FAILED"

RecordTask(w) ==
    /\ worker[w].pc = "record"
    /\ task' = [task EXCEPT ![worker[w].at].status = Outcome(w)]
    /\ IF worker[w].ok THEN NextStore(w) ELSE Leave(w, "fail")
    /\ UNCHANGED <<run, request, verification, attested, gates, destroyed,
                   counts>>

FailRun(w) ==
    /\ worker[w].pc = "fail"
    /\ run' = IF request = "BLOCKED_BY_HOLD" THEN "BLOCKED"
              ELSE IF InReview THEN "ENGINEERING_REVIEW" ELSE "FAILED"
    /\ Rest(w)
    /\ UNCHANGED <<request, task, verification, attested, gates, destroyed,
                   counts>>

(* All stores done: the run is verified.                                   *)
BeginVerifying(w) ==
    /\ worker[w].pc = "check" /\ worker[w].at = N + 1
    /\ run' = "VERIFYING"
    /\ Leave(w, "verify")
    /\ UNCHANGED <<request, task, verification, attested, gates, destroyed,
                   counts>>

(* Populated stores are looked at, for derived ones the task is believed.  *)
Gone == /\ Stores \ Derived \subseteq destroyed
        /\ \A s \in Derived : task[s].status = "COMPLETED"

Verify(w) ==
    /\ worker[w].pc = "verify"
    /\ verification' = IF Gone THEN "PASS" ELSE "FAIL"
    /\ Leave(w, IF Gone THEN "settle" ELSE "fail")
    /\ UNCHANGED <<run, request, task, attested, gates, destroyed, counts>>

MarkBackupExpiryPending(w) ==
    /\ worker[w].pc = "settle"
    /\ request' = "BACKUP_EXPIRY_PENDING"
    /\ Goto(w, "finish")
    /\ UNCHANGED <<run, task, verification, attested, gates, destroyed, counts>>

FinishRun(w) ==
    /\ worker[w].pc = "finish"
    /\ run' = "BACKUP_EXPIRY_PENDING"
    /\ Rest(w)
    /\ UNCHANGED <<request, task, verification, attested, gates, destroyed,
                   counts>>

(* issueAttestationAndClose: a request is attested once.                   *)
IssueAttestation(c) ==
    /\ Call(c)
    /\ run = "BACKUP_EXPIRY_PENDING"
    /\ verification = "PASS" /\ ~attested
    /\ \A s \in Stores : task[s].status = "COMPLETED"
    /\ attested' = TRUE
    /\ Goto(c, "close")
    /\ UNCHANGED <<run, request, task, verification, gates, destroyed,
                   overlapped, crashes>>

CloseRun(c) ==
    /\ worker[c].pc = "close"
    /\ run' = "COMPLETED"
    /\ Rest(c)
    /\ UNCHANGED <<request, task, verification, attested, gates, destroyed,
                   counts>>

(* The instance dies.                                                      *)
Crash(w) ==
    /\ worker[w] # Resting
    /\ crashes < MaxCrashes
    /\ crashes' = crashes + 1
    /\ Rest(w)
    /\ UNCHANGED <<rows, gates, destroyed, overlapped, calls>>

-----------------------------------------------------------------------------
Submit(w) == SubmitRequest(w) \/ RecordRequest(w)
Decide(w) ==
    \/ RefuseApproval(w) \/ SuspendRun(w)
    \/ Approve(w) \/ Approved(w) \/ Postpone(w)
Execute(w) ==
    \/ BeginRun(w) \/ MarkCheck(w) \/ MarkRunning(w) \/ Refuse(w)
    \/ CheckTask(w) \/ StartTask(w) \/ DestroyStore(w) \/ RecordTask(w)
    \/ FailRun(w)
    \/ BeginVerifying(w) \/ Verify(w) \/ MarkBackupExpiryPending(w)
    \/ FinishRun(w)

Work(w) == Submit(w) \/ Decide(w) \/ Execute(w) \/ CloseRun(w)
Place(h) == InsertHold(h) \/ FindRequest(h) \/ BlockRequest(h) \/ HoldEnds(h)

Next ==
    \/ \E c \in Callers : \/ StartDeletion(c) \/ ApproveDeletion(c)
                          \/ ResumeDeletion(c) \/ IssueAttestation(c)
    \/ \E p \in Pods : ResumeDue(p)
    \/ \E w \in Workers : Work(w) \/ Crash(w)
    \/ \E h \in Holds : Place(h)
    \/ RetentionExpires

Spec == Init /\ [][Next]_vars

(* What a worker began goes on, the cron jobs keep polling, and time       *)
(* passes.  Nobody has to call the API or to place a hold.                 *)
Fairness ==
    /\ \A w \in Workers : WF_vars(Work(w))
    /\ \A p \in Pods : WF_vars(ResumeDue(p))
    /\ WF_vars(RetentionExpires)

FairSpec == Spec /\ Fairness

-----------------------------------------------------------------------------
RunStatuses ==
    {"CONNECTOR_REVOCATION", "DELETION_PENDING", "BLOCKED", "RETENTION_WAIT",
     "DELETING", "VERIFYING", "FAILED", "ENGINEERING_REVIEW",
     "BACKUP_EXPIRY_PENDING", "COMPLETED"}
RequestStatuses ==
    {"NONE", "VALIDATING", "BLOCKED_BY_HOLD", "APPROVED",
     "AWAITING_RETENTION_EXPIRY", "RUNNING", "BACKUP_EXPIRY_PENDING"}
TaskStatuses ==
    {"NONE", "PENDING", "RUNNING", "COMPLETED", "FAILED", "ENGINEERING_REVIEW"}
Steps ==
    {"rest", "submit", "submitted", "reject", "suspend", "approve", "approved",
     "postpone", "begin", "mark", "running", "refuse", "check", "start",
     "destroy", "record", "fail", "verify", "settle", "finish", "close"}

(* Every variable keeps its type. *)
TypeOK ==
    /\ run \in RunStatuses
    /\ request \in RequestStatuses
    /\ task \in [Stores -> [status: TaskStatuses, attempt: Nat]]
    /\ hold \in [Holds -> {"NONE", "ACTIVE", "EXPIRED"}]
    /\ placing \in [Holds -> {"rest", "find", "block"}]
    /\ worker \in [Workers -> [pc: Steps, at: 0 .. N + 1, attempt: Nat,
                               ok: BOOLEAN]]
    /\ verification \in {"NONE", "PASS", "FAIL"}
    /\ {eligible, attested, overlapped} \subseteq BOOLEAN
    /\ destroyed \subseteq Stores \ Derived
    /\ exposed \in [Holds -> SUBSET (Stores \cup {0})]
    /\ calls \in 0 .. MaxCalls
    /\ crashes \in 0 .. MaxCrashes

(* Whatever workers, approvals and holds cross each other, a store is      *)
(* emptied under an active hold only if its own check came before that     *)
(* hold ("a stale approval can never authorize later work",                *)
(* DeletionTaskService).                                                   *)
HoldStopsStores ==
    [][\A h \in Holds :
          hold[h] = "ACTIVE" => destroyed' \ destroyed \subseteq exposed[h]]_vars

(* Approval and retention are gates of their own on each of the three ways *)
(* into the deletion: the approval, a resumption, the cron job.            *)
NothingBeforeItsTime ==
    destroyed # {} => eligible /\ \A s \in Stores : task[s] # NoTask

(* What is recorded as done was done: a completed task's store is empty,   *)
(* an attested tenant has no store left, also where workers overlapped and *)
(* overwrote each other's tasks.                                           *)
RecordsAreTrue ==
    /\ \A s \in Stores \ Derived : task[s].status = "COMPLETED" => s \in destroyed
    /\ attested => Stores \ Derived \subseteq destroyed
    /\ run = "COMPLETED" => attested

(* A store is tried MaxAttempts times, plus once for each crash in its     *)
(* last attempt; only workers that overlap can try it more often.          *)
AttemptsAreBounded ==
    ~overlapped =>
        \A s \in Stores : task[s].attempt <= MaxAttempts + crashes

(* A deletion that began comes to rest, whatever failed or crashed: ended  *)
(* or blocked; or begun over and over because a hold, or another worker's  *)
(* end, made its request inexecutable without the run being told; or left  *)
(* where no cron job looks, with a store in review or none to retry.       *)
Ended == run \in {"BLOCKED", "ENGINEERING_REVIEW", "BACKUP_EXPIRY_PENDING",
                  "COMPLETED"}
Forgotten ==
    /\ InReview \/ Retryable = {}
    /\ \A w \in Workers : worker[w] = Resting

EveryDeletionRests ==
    run \in {"DELETING", "FAILED", "VERIFYING"} ~>
        (Ended \/ ~Executable \/ Forgotten)
=============================================================================
