--------------------------- MODULE WebhookDelivery ---------------------------
(***************************************************************************)
(* Outbound webhooks of shield-core: WebhookDeliveryService makes the      *)
(* first attempt of a delivery inside the call that creates its row (a     *)
(* test or a replay), WebhookRetryService makes the others from a cron job *)
(* that runs in every pod.  An attempt reads the row, posts, and then      *)
(* writes the row by id whatever it holds by then; the announcement in the *)
(* outbox is a third write.  Nothing is locked and no write is conditional.*)
(* The clock is left out: a row the cron job reads is due or not.          *)
(***************************************************************************)
EXTENDS Naturals, FiniteSets

CONSTANTS
    Deliveries,   \* rows of WebhookDelivery, one per call of deliver
    Pods,         \* instances of shield-core, each with its cron job
    MaxAttempts,  \* MAX_ATTEMPTS
    BatchSize,    \* take: 50
    MaxFaults,    \* bound on errors and crashes
    None

ASSUME WebhookAssumption ==
    /\ {MaxAttempts, BatchSize} \subseteq Nat \ {0}
    /\ MaxFaults \in Nat
    /\ Deliveries \cap Pods = {}
    /\ None \notin Deliveries

VARIABLES
    row,           \* status and attempt_count of each delivery
    queue,         \* what each pod's cron job read and has not come to yet
    work,          \* the attempt each call or cron job is making
    posts,         \* how often the receiver got each delivery
    acknowledged,  \* deliveries for which some 2xx answer arrived
    announced,     \* topics of each delivery's events in the outbox
    cuts,          \* attempts of each delivery that an error or crash ended
    contested,     \* deliveries two cron jobs held at the same time
    faults         \* faults so far

vars == <<row, queue, work, posts, acknowledged, announced, cuts, contested,
          faults>>
history == <<posts, acknowledged, announced, cuts>>

Workers == Deliveries \cup Pods  \* the call that made a row, or a cron job
Open == {"DELIVERING", "FAILED"}
Settled == {"DELIVERED", "DEAD_LETTERED"}

NoRow == [status |-> "NONE", count |-> 0]
Resting == [pc |-> "rest", of |-> None, number |-> 0, ok |-> FALSE]

Init ==
    /\ row = [d \in Deliveries |-> NoRow]
    /\ queue = [p \in Pods |-> {}]
    /\ work = [w \in Workers |-> Resting]
    /\ posts = [d \in Deliveries |-> 0]
    /\ acknowledged = {}
    /\ announced = [d \in Deliveries |-> {}]
    /\ cuts = [d \in Deliveries |-> 0]
    /\ contested = {}
    /\ faults = 0

Rest(w) == work' = [work EXCEPT ![w] = Resting]
Begin(w, d) == work' = [work EXCEPT ![w].pc = "read", ![w].of = d]

-----------------------------------------------------------------------------
(* deliver: the row is created DELIVERING and attempted at once.           *)
Deliver(d) ==
    /\ row[d] = NoRow
    /\ row' = [row EXCEPT ![d] = [status |-> "DELIVERING", count |-> 0]]
    /\ Begin(d, d)
    /\ UNCHANGED <<queue, history, contested, faults>>

(* attempt: the row is read again, for its attempt_count only.             *)
ReadRow(w) ==
    /\ work[w].pc = "read"
    /\ work' = [work EXCEPT ![w].pc = "post",
                            ![w].number = row[work[w].of].count + 1]
    /\ UNCHANGED <<row, queue, history, contested, faults>>

(* The POST is answered with 2xx; or with anything else, or not at all,    *)
(* the receiver having seen it or not.  retryable is stored, never used.   *)
Post(w) ==
    /\ work[w].pc = "post"
    /\ LET d == work[w].of
       IN \/ /\ posts' = [posts EXCEPT ![d] = @ + 1]
             /\ acknowledged' = acknowledged \cup {d}
             /\ work' = [work EXCEPT ![w].pc = "write", ![w].ok = TRUE]
          \/ /\ posts' = [posts EXCEPT ![d] = @ + 1]
             /\ work' = [work EXCEPT ![w].pc = "write"]
             /\ UNCHANGED acknowledged
    /\ UNCHANGED <<row, queue, announced, cuts, contested, faults>>

ExhaustedEarly(number) == number + 1 >= MaxAttempts  \* deviation: off by one
Exhausted(number) == number >= MaxAttempts

NextStatusGivenUp(w) ==  \* deviation: the last attempt's answer is not looked at
    IF Exhausted(work[w].number) THEN "DEAD_LETTERED"
    ELSE IF work[w].ok THEN "DELIVERED" ELSE "FAILED"

NextStatus(w) ==
    IF work[w].ok THEN "DELIVERED"
    ELSE IF Exhausted(work[w].number) THEN "DEAD_LETTERED" ELSE "FAILED"

(* The update by id: whatever the row holds by now is overwritten.         *)
WriteRow(w) ==
    /\ work[w].pc = "write"
    /\ row' = [row EXCEPT ![work[w].of] =
                  [status |-> NextStatus(w), count |-> work[w].number]]
    /\ work' = [work EXCEPT ![w].pc = "announce"]
    /\ UNCHANGED <<queue, history, contested, faults>>

(* The outbox event, in a transaction of its own *)
TopicOfAnswer(w) ==  \* deviation: no topic of its own for a dead letter
    IF work[w].ok THEN "DELIVERED" ELSE "FAILED"
Topic(w) == NextStatus(w)

Announce(w) ==
    /\ work[w].pc = "announce"
    /\ announced' = [announced EXCEPT ![work[w].of] = @ \cup {Topic(w)}]
    /\ Rest(w)
    /\ UNCHANGED <<row, queue, posts, acknowledged, cuts, contested, faults>>

(* A database error ends the attempt.  retryDue logs it and goes on with   *)
(* its queue; to the caller of deliver it is an error.                     *)
AttemptFails(w) ==
    /\ work[w] # Resting
    /\ faults < MaxFaults
    /\ faults' = faults + 1
    /\ cuts' = [cuts EXCEPT ![work[w].of] = @ + 1]
    /\ Rest(w)
    /\ UNCHANGED <<row, queue, posts, acknowledged, announced, contested>>

-----------------------------------------------------------------------------
(* The cron job *)

FailedOnce ==  \* deviation: a second failure is not retried
    {d \in Deliveries : row[d].status = "FAILED" /\ row[d].count = 1}
FailedRows == {d \in Deliveries : row[d].status = "FAILED"}

Held(d) == \E p \in Pods : d \in queue[p] \/ work[p].of = d

Batches(rows) ==
    {b \in SUBSET rows : \/ Cardinality(b) = BatchSize
                         \/ Cardinality(b) < BatchSize /\ b = rows}

(* retryDue, unless it is still running: BatchSize failed rows, in no      *)
(* particular order                                                        *)
RetryDue(p) ==
    /\ queue[p] = {} /\ work[p] = Resting
    /\ FailedRows # {}
    /\ \E b \in Batches(FailedRows) :
          /\ queue' = [queue EXCEPT ![p] = b]
          /\ contested' = contested \cup {d \in b : Held(d)}
    /\ UNCHANGED <<row, work, history, faults>>

Taken(p, d) == [queue EXCEPT ![p] = @ \ {d}]

(* A row that is due is attempted: as read by the poll, not as it is now.  *)
RetryAttempt(p, d) ==
    /\ d \in queue[p] /\ work[p] = Resting
    /\ queue' = Taken(p, d)
    /\ Begin(p, d)
    /\ UNCHANGED <<row, history, contested, faults>>

NotDue(p, d) ==
    /\ d \in queue[p] /\ work[p] = Resting
    /\ queue' = Taken(p, d)
    /\ UNCHANGED <<row, work, history, contested, faults>>

(* The pod dies with its cron job's attempt; a new one takes its place.    *)
PodCrash(p) ==
    /\ queue[p] # {} \/ work[p] # Resting
    /\ faults < MaxFaults
    /\ faults' = faults + 1
    /\ queue' = [queue EXCEPT ![p] = {}]
    /\ cuts' = [d \in Deliveries |-> cuts[d] + IF work[p].of = d THEN 1 ELSE 0]
    /\ Rest(p)
    /\ UNCHANGED <<row, posts, acknowledged, announced, contested>>

-----------------------------------------------------------------------------
Attempt(w) == ReadRow(w) \/ Post(w) \/ WriteRow(w) \/ Announce(w)

Next ==
    \/ \E d \in Deliveries : Deliver(d)
    \/ \E w \in Workers : Attempt(w) \/ AttemptFails(w)
    \/ \E p \in Pods : RetryDue(p) \/ PodCrash(p)
    \/ \E p \in Pods, d \in Deliveries : RetryAttempt(p, d) \/ NotDue(p, d)

Spec == Init /\ [][Next]_vars

(* An attempt under way goes on and the cron job keeps polling.  The       *)
(* backoff is at most half an hour, so a row that is read again and again  *)
(* is due at some of these reads.                                          *)
Fairness ==
    /\ \A w \in Workers : WF_vars(Attempt(w))
    /\ \A p \in Pods : WF_vars(RetryDue(p))
    /\ \A d \in Deliveries : SF_vars(\E p \in Pods : RetryAttempt(p, d))

FairSpec == Spec /\ Fairness

-----------------------------------------------------------------------------
Quiet(d) == \A w \in Workers : work[w].of # d
InFlight(d) == {w \in Workers : work[w].of = d /\ work[w].pc = "write"}

(* Every variable keeps its type. *)
TypeOK ==
    /\ row \in [Deliveries -> [status: Open \cup Settled, count: Nat] \cup {NoRow}]
    /\ queue \in [Pods -> SUBSET Deliveries]
    /\ work \in [Workers ->
          [pc: {"read", "post", "write", "announce"}, of: Deliveries,
           number: Nat, ok: BOOLEAN] \cup {Resting}]
    /\ posts \in [Deliveries -> Nat]
    /\ acknowledged \subseteq Deliveries
    /\ announced \in [Deliveries -> SUBSET (Settled \cup {"FAILED"})]
    /\ cuts \in [Deliveries -> 0 .. MaxFaults]
    /\ contested \subseteq Deliveries
    /\ faults \in 0 .. MaxFaults

(* attempt_count is never more than the attempts that were made, whoever   *)
(* overwrites whom, so that no delivery is given up early; and as long as  *)
(* no two cron jobs hold the row, never less than those that no error cut  *)
(* short, so that MAX_ATTEMPTS bounds them ("never retries infinitely",    *)
(* WebhookRetryService).                                                   *)
AttemptsAreCounted ==
    \A d \in Deliveries :
        /\ row[d].count <= posts[d]
        /\ row[d].status = "DEAD_LETTERED" => posts[d] >= MaxAttempts
        /\ d \notin contested =>
              posts[d] <= row[d].count + cuts[d] + Cardinality(InFlight(d))
        /\ d \notin contested => posts[d] <= MaxAttempts + cuts[d]

(* What the row says when nobody is at it: DELIVERED exactly when a 2xx    *)
(* answer arrived, unless an error cut an attempt short or two cron jobs   *)
(* held the row.                                                           *)
AnswerIsRecorded ==
    \A d \in Deliveries :
        Quiet(d) /\ cuts[d] = 0 /\ d \notin contested =>
            (row[d].status = "DELIVERED" <=> d \in acknowledged)

(* An end state is announced in the outbox by the time nobody is at the    *)
(* row, although the two are written one after the other, unless an error  *)
(* came between.                                                           *)
EndIsAnnounced ==
    \A d \in Deliveries :
        Quiet(d) /\ cuts[d] = 0 /\ row[d].status \in Settled =>
            row[d].status \in announced[d]

(* Every delivery ends, also one answered with an error no retry can mend  *)
(* and one two pods keep overwriting: delivered or dead-lettered for good, *)
(* or left DELIVERING by an error in its first attempt, which no cron job  *)
(* looks for.                                                              *)
Abandoned(d) == row[d].status = "DELIVERING" /\ Quiet(d) /\ cuts[d] > 0

EveryDeliveryEnds ==
    \A d \in Deliveries :
        row[d] # NoRow ~> [](row[d].status \in Settled \/ Abandoned(d))
=============================================================================
