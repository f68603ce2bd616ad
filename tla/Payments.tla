------------------------------ MODULE Payments ------------------------------
(***************************************************************************)
(* One payment of shield-core, from the charge to its refunds.  Creation   *)
(* and the processor's webhooks go through IdempotencyService.run, refunds *)
(* do not.  The processor, the idempotency record, the payment and the     *)
(* refund are written one after the other, each read long before what is   *)
(* decided from it is written.  All calls that create it carry one key and *)
(* one body; a webhook's key is the payment and the type of the event.     *)
(***************************************************************************)
EXTENDS Integers, FiniteSets

CONSTANTS
    Calls,      \* requests served at the same time
    Events,     \* event types the processor sends about the payment
    Amount,     \* what is charged
    MaxCalls,   \* bound on requests
    MaxFaults   \* bound on errors and crashes

Create == "payments.create"
Keys == {Create} \cup Events

WEBHOOK_EVENT_TO_STATUS ==
    [processing |-> "PROCESSING", succeeded |-> "SUCCEEDED",
     settled |-> "SETTLED", failed |-> "FAILED", disputed |-> "DISPUTED",
     reversed |-> "REVERSED"]

ASSUME PaymentAssumption ==
    /\ Events \subseteq DOMAIN WEBHOOK_EVENT_TO_STATUS
    /\ Amount \in Nat \ {0}
    /\ {MaxCalls, MaxFaults} \subseteq Nat

VARIABLES
    record,    \* the IdempotencyRecord of each key: its status and its id
    payment,   \* status of the Payment and the charge it names; NONE: no row
    refunded,  \* sum of the Refund rows
    call,      \* what each request is doing
    charges,   \* charges the processor made
    paidOut,   \* what the processor paid back
    applied,   \* events that changed the status, with how often
    answers,   \* charges named by the answers to the creation's key
    cut,       \* the steps that faults ended
    raced,     \* whether two requests worked on the payment at once
    started,   \* requests so far
    faults     \* faults so far

processor == <<charges, paidOut>>
history == <<applied, answers, cut, raced, started, faults>>
vars == <<record, payment, refunded, call, processor, history>>

NoRecord == [status |-> "NONE", id |-> 0, answer |-> 0]
Idle == [pc |-> "idle", key |-> Create, id |-> 0, amount |-> 0,
         status |-> "NONE", balance |-> 0]

Init ==
    /\ record = [k \in Keys |-> NoRecord]
    /\ payment = [status |-> "NONE", charge |-> 0]
    /\ refunded = 0
    /\ call = [c \in Calls |-> Idle]
    /\ charges = 0
    /\ paidOut = 0
    /\ applied = [e \in Events |-> 0]
    /\ answers = {}
    /\ cut = {}
    /\ raced = FALSE
    /\ started = 0
    /\ faults = 0

Goto(c, pc) == call' = [call EXCEPT ![c].pc = pc]
Done(c) == call' = [call EXCEPT ![c] = Idle]

(* A request that holds what it read of the payment *)
Holding == {c \in Calls : call[c].pc \in
    {"move", "payback", "bookRefund", "reread", "moveRefund"}}
Race(c) == raced' = (raced \/ Holding \ {c} # {})

Start(c) ==
    /\ call[c] = Idle
    /\ started < MaxCalls
    /\ started' = started + 1

-----------------------------------------------------------------------------
(* IdempotencyService.run                                                  *)

Request(c, k) ==
    /\ Start(c)
    /\ k = Create \/ charges > 0
    /\ call' = [call EXCEPT ![c] = [Idle EXCEPT !.pc = "look", !.key = k]]
    /\ UNCHANGED <<record, payment, refunded, processor, applied, answers, cut,
                   raced, faults>>

Answer(c, charge) ==
    answers' = answers \cup IF call[c].key = Create THEN {charge} ELSE {}

LookAgain(c) ==  \* deviation: a completed record is taken for a failed one
    /\ call[c].pc = "look"
    /\ LET r == record[call[c].key]
       IN IF r.status = "NONE" THEN Goto(c, "claim")
          ELSE IF r.status = "IN_PROGRESS" THEN Done(c)
          ELSE call' = [call EXCEPT ![c].pc = "clear", ![c].id = r.id]
    /\ UNCHANGED <<record, payment, refunded, processor, history>>

(* A replay of the answer, or a 409 while another request is served        *)
Look(c) ==
    /\ call[c].pc = "look"
    /\ LET r == record[call[c].key]
       IN \/ /\ r.status = "NONE"
             /\ Goto(c, "claim") /\ UNCHANGED answers
          \/ /\ r.status = "FAILED"
             /\ call' = [call EXCEPT ![c].pc = "clear", ![c].id = r.id]
             /\ UNCHANGED answers
          \/ /\ r.status = "IN_PROGRESS"
             /\ Done(c) /\ UNCHANGED answers
          \/ /\ r.status = "COMPLETED"
             /\ Answer(c, r.answer)
             /\ Done(c)
    /\ UNCHANGED <<record, payment, refunded, processor, applied, cut, raced,
                   started, faults>>

(* The record of the failed request is deleted by its id.                  *)
ClearByKey(c) ==  \* deviation: by its key, whatever record holds it by now
    /\ call[c].pc = "clear"
    /\ record' = [record EXCEPT ![call[c].key] = [@ EXCEPT !.status = "NONE"]]
    /\ Goto(c, "claim")
    /\ UNCHANGED <<payment, refunded, processor, history>>

Clear(c) ==
    /\ call[c].pc = "clear"
    /\ LET k == call[c].key
       IN IF record[k].id = call[c].id /\ record[k].status # "NONE"
          THEN /\ record' = [record EXCEPT ![k].status = "NONE"]
               /\ Goto(c, "claim")
          ELSE Done(c) /\ UNCHANGED record
    /\ UNCHANGED <<payment, refunded, processor, history>>

Claim(c) ==
    /\ call[c].pc = "claim"
    /\ LET k == call[c].key
       IN IF record[k].status = "NONE"
          THEN /\ record' = [record EXCEPT ![k] =
                      [status |-> "IN_PROGRESS", id |-> @.id + 1, answer |-> 0]]
               /\ Goto(c, IF k = Create THEN "charge" ELSE "read")
          ELSE Done(c) /\ UNCHANGED record
    /\ UNCHANGED <<payment, refunded, processor, history>>

Completed(c) ==
    [record EXCEPT ![call[c].key] =
        [@ EXCEPT !.status = "COMPLETED", !.answer = call[c].id]]

Complete(c) ==
    /\ call[c].pc = "complete"
    /\ record' = Completed(c)
    /\ Answer(c, call[c].id)
    /\ Done(c)
    /\ UNCHANGED <<payment, refunded, processor, applied, cut, raced, started,
                   faults>>

(* The update by key after an error                                        *)
Undo(c) ==
    /\ call[c].pc = "undo"
    /\ record' = [record EXCEPT ![call[c].key].status = "FAILED"]
    /\ Done(c)
    /\ UNCHANGED <<payment, refunded, processor, history>>

-----------------------------------------------------------------------------
(* createPayment.  A declined charge is booked too.  The key is unique     *)
(* among the payments.                                                     *)

Charge(c) ==
    /\ call[c].pc = "charge"
    /\ charges' = charges + 1
    /\ \E status \in {"AUTHORIZED", "FAILED"} :
          call' = [call EXCEPT ![c].pc = "book", ![c].status = status,
                               ![c].id = charges + 1]
    /\ UNCHANGED <<record, payment, refunded, paidOut, history>>

BookAgain(c) ==  \* deviation: the key is not unique among the payments
    /\ call[c].pc = "book"
    /\ payment' = [status |-> call[c].status, charge |-> call[c].id]
    /\ Goto(c, "complete")
    /\ UNCHANGED <<record, refunded, processor, history>>

Book(c) ==
    /\ call[c].pc = "book"
    /\ IF payment.status = "NONE"
       THEN /\ payment' = [status |-> call[c].status, charge |-> call[c].id]
            /\ Goto(c, "complete")
       ELSE Goto(c, "undo") /\ UNCHANGED payment
    /\ UNCHANGED <<record, refunded, processor, history>>

-----------------------------------------------------------------------------
(* transitionStatus reads the status, looks it up and writes by id.        *)

PAYMENT_TRANSITIONS ==
    {<<"PENDING", "AUTHORIZED">>, <<"PENDING", "FAILED">>,
     <<"AUTHORIZED", "PROCESSING">>, <<"AUTHORIZED", "FAILED">>,
     <<"PROCESSING", "SUCCEEDED">>, <<"PROCESSING", "FAILED">>,
     <<"SUCCEEDED", "SETTLED">>, <<"SUCCEEDED", "DISPUTED">>,
     <<"SETTLED", "REFUNDED">>, <<"SETTLED", "PARTIALLY_REFUNDED">>,
     <<"SETTLED", "DISPUTED">>, <<"PARTIALLY_REFUNDED", "REFUNDED">>,
     <<"DISPUTED", "REVERSED">>, <<"DISPUTED", "SETTLED">>}

AssertTransition(from, to) == <<from, to>> \in PAYMENT_TRANSITIONS

(* handleProviderWebhook; a payment that is not there yet is an error.     *)
ReadForEvent(c) ==
    /\ call[c].pc = "read"
    /\ IF AssertTransition(payment.status,
                           WEBHOOK_EVENT_TO_STATUS[call[c].key])
       THEN Goto(c, "move") /\ Race(c)
       ELSE Goto(c, "undo") /\ UNCHANGED raced
    /\ UNCHANGED <<record, payment, refunded, processor, applied, answers, cut,
                   started, faults>>

MoveByEvent(c) ==
    /\ call[c].pc = "move"
    /\ payment' = [payment EXCEPT
                      !.status = WEBHOOK_EVENT_TO_STATUS[call[c].key]]
    /\ applied' = [applied EXCEPT ![call[c].key] = @ + 1]
    /\ Goto(c, "complete")
    /\ UNCHANGED <<record, refunded, processor, answers, cut, raced, started,
                   faults>>

-----------------------------------------------------------------------------
(* refundPayment                                                           *)

ExceedsAmount(amount) == amount > Amount  \* deviation: earlier refunds forgotten
Exceeds(amount) == amount > Amount - refunded

RequestRefund(c, amount) ==
    /\ Start(c)
    /\ payment.status \in {"SETTLED", "PARTIALLY_REFUNDED"}
    /\ ~Exceeds(amount)
    /\ call' = [call EXCEPT ![c] =
           [Idle EXCEPT !.pc = "payback", !.amount = amount,
                        !.status = payment.status,
                        !.balance = Amount - refunded]]
    /\ Race(c)
    /\ UNCHANGED <<record, payment, refunded, processor, applied, answers, cut,
                   faults>>

(* The processor pays or declines; the row of a declined refund is left    *)
(* out, since nothing counts it.                                           *)
PayBack(c) ==
    /\ call[c].pc = "payback"
    /\ \/ /\ paidOut' = paidOut + call[c].amount
          /\ Goto(c, "bookRefund")
       \/ /\ UNCHANGED paidOut
          /\ Done(c)
    /\ UNCHANGED <<record, payment, refunded, charges, history>>

(* The row, and what is to become of the payment: as read, not as it is.   *)
BookRefund(c) ==
    /\ call[c].pc = "bookRefund"
    /\ refunded' = refunded + call[c].amount
    /\ IF call[c].balance = call[c].amount \/ call[c].status = "SETTLED"
       THEN Goto(c, "reread") ELSE Done(c)
    /\ UNCHANGED <<record, payment, processor, history>>

RefundStatusOfRequest(c) ==  \* deviation: compared with the whole amount
    IF call[c].amount = Amount THEN "REFUNDED" ELSE "PARTIALLY_REFUNDED"
RefundStatus(c) ==
    IF call[c].balance = call[c].amount THEN "REFUNDED" ELSE "PARTIALLY_REFUNDED"

ReadForRefund(c) ==
    /\ call[c].pc = "reread"
    /\ IF AssertTransition(payment.status, RefundStatus(c))
       THEN Goto(c, "moveRefund") ELSE Done(c)
    /\ UNCHANGED <<record, payment, refunded, processor, history>>

MoveByRefund(c) ==
    /\ call[c].pc = "moveRefund"
    /\ payment' = [payment EXCEPT !.status = RefundStatus(c)]
    /\ Done(c)
    /\ UNCHANGED <<record, refunded, processor, history>>

-----------------------------------------------------------------------------
(* An error of the processor or the database, where a step was not made or *)
(* where the answer to the step before was lost; a crash; and the answer   *)
(* to the last update of run lost, which is then made undone.              *)

InRun == {"charge", "book", "read", "move", "complete"}

Fault(c) ==
    /\ call[c] # Idle
    /\ faults < MaxFaults
    /\ faults' = faults + 1
    /\ cut' = cut \cup {call[c].pc}
    /\ UNCHANGED <<payment, refunded, processor, applied, answers, raced, started>>

Fail(c) ==
    /\ Fault(c)
    /\ IF call[c].pc \in InRun THEN Goto(c, "undo") ELSE Done(c)
    /\ UNCHANGED record

Crash(c) ==
    /\ Fault(c)
    /\ Done(c)
    /\ UNCHANGED record

LoseAnswer(c) ==
    /\ call[c].pc = "complete"
    /\ Fault(c)
    /\ record' = Completed(c)
    /\ Goto(c, "undo")

-----------------------------------------------------------------------------
Run(c) == Look(c) \/ Clear(c) \/ Claim(c) \/ Complete(c) \/ Undo(c)
CreatePayment(c) == Charge(c) \/ Book(c)
HandleWebhook(c) == ReadForEvent(c) \/ MoveByEvent(c)
RefundPayment(c) ==
    PayBack(c) \/ BookRefund(c) \/ ReadForRefund(c) \/ MoveByRefund(c)

Next ==
    \E c \in Calls :
        \/ \E k \in Keys : Request(c, k)
        \/ \E amount \in 1 .. Amount : RequestRefund(c, amount)
        \/ Run(c) \/ CreatePayment(c) \/ HandleWebhook(c) \/ RefundPayment(c)
        \/ Fail(c) \/ Crash(c) \/ LoseAnswer(c)

Spec == Init /\ [][Next]_vars

-----------------------------------------------------------------------------
Statuses == {"NONE", "AUTHORIZED", "PARTIALLY_REFUNDED", "REFUNDED"} \cup
            {WEBHOOK_EVENT_TO_STATUS[e] : e \in DOMAIN WEBHOOK_EVENT_TO_STATUS}
Points == InRun \cup {"idle", "look", "clear", "claim", "undo", "payback",
                     "bookRefund", "reread", "moveRefund"}

(* Every variable keeps its type. *)
TypeOK ==
    /\ record \in [Keys -> [status: {"NONE", "IN_PROGRESS", "COMPLETED", "FAILED"},
                            id: Nat, answer: Nat]]
    /\ payment \in [status: Statuses, charge: Nat]
    /\ {refunded, paidOut} \subseteq Nat
    /\ call \in [Calls -> [pc: Points, key: Keys, id: Nat,
                           amount: 0 .. Amount, status: Statuses,
                           balance: 0 .. Amount]]
    /\ charges \in Nat
    /\ applied \in [Events -> Nat]
    /\ answers \subseteq Nat
    /\ cut \subseteq Points
    /\ raced \in BOOLEAN
    /\ started \in 0 .. MaxCalls
    /\ faults \in 0 .. MaxFaults

(* One key is charged once, however its requests cross each other: again   *)
(* only after a fault between the charge and the row, each such fault one  *)
(* charge; and without bound only after one between the row and the        *)
(* answer, since then every retry charges and no retry can be booked.      *)
ChargedOnce ==
    /\ cut \cap {"book", "complete"} = {} => charges <= 1
    /\ "complete" \notin cut => charges <= 1 + faults

(* "return the persisted prior response" (IdempotencyService): all answers *)
(* to one key name one charge, the booked one, also where a retry charged  *)
(* again.                                                                  *)
AnswersAgree == answers \subseteq {payment.charge}

(* An event delivered again does not change the status again               *)
(* (handleProviderWebhook), unless a fault hid that it already had.        *)
EventsApplyOnce ==
    "complete" \notin cut => \A e \in Events : applied[e] <= 1

(* "never over-refunded across any number of partial refunds"              *)
(* (refundPayment), as far as the code keeps it: unless two requests       *)
(* worked on the payment at once, or a fault left a payout without a row.  *)
RefundedWithinAmount ==
    raced \/ "bookRefund" \in cut \/ paidOut <= Amount

(* When nobody is at it, the rows are what was paid back, and the status   *)
(* says whether that is nothing, a part or all.                            *)
StatusTellsRefunds ==
    (\A c \in Calls : call[c] = Idle) /\ ~raced
        /\ cut \cap {"bookRefund", "reread", "moveRefund"} = {} =>
            /\ refunded = paidOut
            /\ payment.status = "REFUNDED" <=> refunded = Amount
            /\ payment.status = "PARTIALLY_REFUNDED" <=> refunded \in 1 .. Amount - 1
=============================================================================
