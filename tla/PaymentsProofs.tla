--------------------------- MODULE PaymentsProofs ---------------------------
(***************************************************************************)
(* Proofs about Payments, for any number of requests, event types, errors  *)
(* and crashes, and any amount.                                            *)
(***************************************************************************)
EXTENDS Payments, TLAPS

CallRecords ==
    [pc: Points, key: Keys, id: Nat, amount: 0 .. Amount, status: Statuses, balance: 0 .. Amount]

(* A request between its claim of the key and its last update. *)
Working == {"charge", "book", "read", "move", "complete"}
Serving == Working \cup {"undo"}

Booked == payment.status # "NONE"

(* What a request relies on when it takes its next step. *)
CallOK(c) ==
    /\ call[c].pc \in {"read", "move"} => call[c].key # Create
    /\ call[c].pc \in {"charge", "book"} => call[c].key = Create
    /\ call[c].pc = "book" => call[c].status # "NONE"
    /\ call[c].pc \in {"move", "payback", "bookRefund", "reread", "moveRefund"} => Booked
    /\ call[c].pc = "complete" /\ call[c].key = Create => Booked /\ call[c].id = payment.charge
    /\ call[c].pc = "clear" =>
          /\ call[c].id <= record[call[c].key].id
          /\ call[c].id = record[call[c].key].id => record[call[c].key].status \in {"NONE", "FAILED"}
    /\ call[c].pc \in Working => record[call[c].key].status = "IN_PROGRESS"
    /\ call[c].pc = "undo" => record[call[c].key].status \in {"IN_PROGRESS", "COMPLETED"}

(* A key is served by one request: a record is deleted by the id with      *)
(* which it failed, so a request that comes late with it deletes nothing.  *)
OneServes ==
    \A c, d \in Calls :
        call[c].pc \in Serving /\ call[d].pc \in Serving /\ call[c].key = call[d].key => c = d

(* Unless a fault hit the last update, a completed record stays so. *)
Finished ==
    "complete" \notin cut =>
        \A c \in Calls : record[call[c].key].status = "COMPLETED" => call[c].pc \notin Serving

Ending(k) == record[k].status = "COMPLETED" \/ \E c \in Calls : call[c].pc = "complete" /\ call[c].key = k

(* A charge not booked yet. *)
Charged == IF \E c \in Calls : call[c].pc = "book" THEN 1 ELSE 0

Creation ==
    /\ record[Create].status = "COMPLETED" => Booked /\ record[Create].answer = payment.charge
    /\ answers \subseteq {payment.charge}
    /\ answers # {} => Booked
    /\ "complete" \notin cut /\ Booked => Ending(Create)
    /\ "complete" \notin cut => charges <= faults + IF Booked THEN 1 ELSE Charged
    /\ cut \cap {"book", "complete"} = {} => charges <= IF Booked THEN 1 ELSE Charged

Applications ==
    "complete" \notin cut => \A e \in Events : applied[e] <= 1 /\ (applied[e] = 1 => Ending(e))

(* A refund that was paid and has no row yet is the only difference        *)
(* between the rows and what was paid.                                     *)
Refunding ==
    ~raced /\ "bookRefund" \notin cut =>
        /\ \A c, d \in Holding : c = d
        /\ refunded <= Amount
        /\ (\A c \in Calls : call[c].pc # "bookRefund") => paidOut = refunded
        /\ \A c \in Calls :
              /\ call[c].pc = "bookRefund" => paidOut = refunded + call[c].amount
              /\ call[c].pc \in {"payback", "bookRefund"} => refunded + call[c].amount <= Amount

IInv ==
    /\ TypeOK
    /\ \A c \in Calls : CallOK(c)
    /\ OneServes
    /\ Finished
    /\ Creation
    /\ Applications
    /\ Refunding

-----------------------------------------------------------------------------
(* What every step of a request does and does not do.                      *)

Moves(c) ==
    /\ call' \in [Calls -> CallRecords]
    /\ \A d \in Calls \ {c} : call'[d] = call[d]

(* The records still say what the other requests rely on. *)
Others(c) ==
    \A d \in Calls \ {c} :
        /\ call[d].pc = "clear" =>
              /\ call[d].id <= record'[call[d].key].id
              /\ call[d].id = record'[call[d].key].id => record'[call[d].key].status \in {"NONE", "FAILED"}
        /\ call[d].pc \in Working => record'[call[d].key].status = "IN_PROGRESS"
        /\ call[d].pc = "undo" => record'[call[d].key].status \in {"IN_PROGRESS", "COMPLETED"}

Keeps(c) ==
    /\ Moves(c)
    /\ Others(c)
    /\ cut \subseteq cut'
    /\ Booked => Booked' /\ payment'.charge = payment.charge
    /\ "complete" \notin cut' => \A k \in Keys : Ending(k) => Ending(k)'

LEMMA KeysFacts == Create \in Keys /\ Events \subseteq Keys /\ Create \notin Events
BY PaymentAssumption DEF Keys, Create, WEBHOOK_EVENT_TO_STATUS

LEMMA CallTyped ==
  ASSUME IInv, NEW c \in Calls
  PROVE  /\ call \in [Calls -> CallRecords]
         /\ call[c] \in CallRecords
         /\ Idle \in CallRecords
         /\ Idle.pc = "idle" /\ Idle.key = Create
         /\ CallOK(c)
BY KeysFacts, PaymentAssumption DEF IInv, TypeOK, CallRecords, Idle, Points, InRun, Statuses

LEMMA GotoMoves ==
  ASSUME IInv, NEW c \in Calls, NEW pc \in Points, Goto(c, pc)
  PROVE  /\ Moves(c)
         /\ call'[c].pc = pc /\ call'[c].key = call[c].key /\ call'[c].id = call[c].id
         /\ call'[c].amount = call[c].amount /\ call'[c].status = call[c].status
         /\ call'[c].balance = call[c].balance
BY CallTyped DEF Goto, Moves, CallRecords

LEMMA DoneMoves ==
  ASSUME IInv, NEW c \in Calls, Done(c)
  PROVE  Moves(c) /\ call'[c].pc = "idle" /\ call'[c].key = Create
BY CallTyped DEF Done, Moves, CallRecords

LEMMA Safe ==
  ASSUME IInv, NEW c \in Calls, Keeps(c), CallOK(c)', TypeOK', OneServes', Finished', Creation',
         Applications', Refunding'
  PROVE  IInv'
<1>1. ASSUME NEW d \in Calls PROVE CallOK(d)'
  <2>1. CASE d = c
    BY <2>1
  <2>2. CASE d # c
    <3>1. call'[d] = call[d] /\ CallOK(d)
      BY <2>2 DEF Keeps, Moves, IInv
    <3>2. /\ call[d].pc = "clear" =>
                /\ call[d].id <= record'[call[d].key].id
                /\ call[d].id = record'[call[d].key].id => record'[call[d].key].status \in {"NONE", "FAILED"}
          /\ call[d].pc \in Working => record'[call[d].key].status = "IN_PROGRESS"
          /\ call[d].pc = "undo" => record'[call[d].key].status \in {"IN_PROGRESS", "COMPLETED"}
      BY <2>2 DEF Keeps, Others
    <3>3. Booked => Booked' /\ payment'.charge = payment.charge
      BY DEF Keeps
    <3> QED BY <3>1, <3>2, <3>3 DEF CallOK
  <2> QED BY <2>1, <2>2
<1> QED BY <1>1 DEF IInv

-----------------------------------------------------------------------------
(* Conditions under which a step leaves a part of the invariant alone.     *)

LEMMA OthersKept ==
  ASSUME IInv, NEW c \in Calls, UNCHANGED record
  PROVE  Others(c)
BY DEF IInv, CallOK, Others

LEMMA EndingKept ==
  ASSUME IInv, NEW c \in Calls, Moves(c), UNCHANGED record,
         \/ call[c].pc # "complete"
         \/ call'[c].pc = "complete" /\ call'[c].key = call[c].key
         \/ "complete" \in cut'
  PROVE  "complete" \notin cut' => \A k \in Keys : Ending(k) => Ending(k)'
BY DEF Ending, Moves

LEMMA OneServesKept ==
  ASSUME IInv, NEW c \in Calls, Moves(c),
         call'[c].pc \in Serving => call[c].pc \in Serving /\ call'[c].key = call[c].key
  PROVE  OneServes'
<1> SUFFICES ASSUME NEW d \in Calls, NEW e \in Calls,
                    call'[d].pc \in Serving, call'[e].pc \in Serving, call'[d].key = call'[e].key
             PROVE  d = e
  BY DEF OneServes
<1>1. /\ call[d].pc \in Serving /\ call'[d].key = call[d].key
      /\ call[e].pc \in Serving /\ call'[e].key = call[e].key
  BY DEF Moves
<1> QED BY <1>1 DEF IInv, OneServes

LEMMA FinishedKept ==
  ASSUME IInv, NEW c \in Calls, Moves(c), UNCHANGED record, cut \subseteq cut',
         call'[c].pc \in Serving => call[c].pc \in Serving /\ call'[c].key = call[c].key
  PROVE  Finished'
<1>1. "complete" \notin cut' => "complete" \notin cut
  OBVIOUS
<1>2. ASSUME NEW d \in Calls, call'[d].pc \in Serving
      PROVE  call[d].pc \in Serving /\ call'[d].key = call[d].key
  BY <1>2 DEF Moves
<1> QED BY <1>1, <1>2 DEF IInv, Finished

LEMMA CreationKept ==
  ASSUME IInv, NEW c \in Calls, Keeps(c), UNCHANGED <<charges, answers>>,
         Booked' => Booked,
         record'[Create].status = "COMPLETED" =>
            record[Create].status = "COMPLETED" /\ record'[Create].answer = record[Create].answer,
         faults' = faults \/ faults' = faults + 1,
         call[c].pc = "book" =>
            Booked \/ call'[c].pc = "book" \/ ("book" \in cut' /\ faults' = faults + 1)
  PROVE  Creation'
<1>1. charges \in Nat /\ faults \in Nat /\ charges' = charges /\ (faults' = faults \/ faults' = faults + 1)
  BY PaymentAssumption DEF IInv, TypeOK
<1>2. Booked' <=> Booked
  BY DEF Keeps
<1>3. "complete" \notin cut' => "complete" \notin cut
  BY DEF Keeps
<1>4. cut' \cap {"book", "complete"} = {} => cut \cap {"book", "complete"} = {}
  BY DEF Keeps
<1>5. record'[Create].status = "COMPLETED" => Booked' /\ record'[Create].answer = payment'.charge
  BY <1>2 DEF IInv, Creation, Keeps
<1>6. answers' \subseteq {payment'.charge} /\ (answers' # {} => Booked')
  BY <1>2 DEF IInv, Creation, Keeps
<1>7. "complete" \notin cut' /\ Booked' => Ending(Create)'
  BY <1>2, <1>3, KeysFacts DEF IInv, Creation, Keeps
<1>8. Charged \in {0, 1} /\ Charged' \in {0, 1}
  BY DEF Charged
<1>9. ~Booked => \/ Charged <= Charged'
                 \/ "book" \in cut' /\ faults' = faults + 1
  <2>1. CASE call[c].pc = "book" /\ call'[c].pc # "book"
    BY <2>1
  <2>2. CASE call[c].pc # "book" \/ call'[c].pc = "book"
    <3>1. ASSUME NEW d \in Calls, call[d].pc = "book" PROVE call'[d].pc = "book"
      BY <2>2, <3>1 DEF Keeps, Moves
    <3> QED BY <3>1, <1>8 DEF Charged
  <2> QED BY <2>1, <2>2
<1>10. /\ "complete" \notin cut => charges <= faults + IF Booked THEN 1 ELSE Charged
       /\ cut \cap {"book", "complete"} = {} => charges <= IF Booked THEN 1 ELSE Charged
  BY DEF IInv, Creation
<1>11. /\ "complete" \notin cut' => charges' <= faults' + IF Booked' THEN 1 ELSE Charged'
       /\ cut' \cap {"book", "complete"} = {} => charges' <= IF Booked' THEN 1 ELSE Charged'
  <2>1. CASE Booked
    <3>1. (IF Booked THEN 1 ELSE Charged) = 1 /\ (IF Booked' THEN 1 ELSE Charged') = 1
      BY <2>1, <1>2
    <3>2. /\ "complete" \notin cut => charges <= faults + 1
          /\ cut \cap {"book", "complete"} = {} => charges <= 1
      BY <3>1, <1>10
    <3>3. /\ "complete" \notin cut' => charges' <= faults' + 1
          /\ cut' \cap {"book", "complete"} = {} => charges' <= 1
      BY ONLY <1>1, <1>3, <1>4, <3>2, SMT
    <3> QED BY <3>1, <3>3
  <2>2. CASE ~Booked
    <3>1. (IF Booked THEN 1 ELSE Charged) = Charged /\ (IF Booked' THEN 1 ELSE Charged') = Charged'
      BY <2>2, <1>2
    <3>2. \/ Charged <= Charged'
          \/ "book" \in cut' /\ faults' = faults + 1
      BY <2>2, <1>9
    <3>3. /\ "complete" \notin cut => charges <= faults + Charged
          /\ cut \cap {"book", "complete"} = {} => charges <= Charged
      BY <3>1, <1>10
    <3>4. "complete" \notin cut' => charges' <= faults' + Charged'
      BY ONLY <1>1, <1>3, <1>8, <3>2, <3>3, SMT
    <3>5. cut' \cap {"book", "complete"} = {} => charges' <= Charged'
      BY ONLY <1>1, <1>4, <1>8, <3>2, <3>3, SMT
    <3> QED BY <3>1, <3>4, <3>5
  <2> QED BY <2>1, <2>2
<1> QED BY <1>5, <1>6, <1>7, <1>11 DEF Creation

LEMMA ApplicationsKept ==
  ASSUME IInv, NEW c \in Calls, Keeps(c), UNCHANGED applied
  PROVE  Applications'
<1>1. "complete" \notin cut' => "complete" \notin cut
  BY DEF Keeps
<1> QED BY <1>1, KeysFacts DEF IInv, Applications, Keeps

Held == {"move", "payback", "bookRefund", "reread", "moveRefund"}

LEMMA RefundingKept ==
  ASSUME IInv, NEW c \in Calls, Moves(c), UNCHANGED <<refunded, paidOut, raced>>, cut \subseteq cut',
         call'[c].pc \in Held => call[c].pc \in Held,
         call'[c].pc \in {"payback", "bookRefund"} =>
            call[c].pc = call'[c].pc /\ call'[c].amount = call[c].amount,
         call[c].pc = "bookRefund" => call'[c].pc = "bookRefund" \/ "bookRefund" \in cut'
  PROVE  Refunding'
<1> SUFFICES ASSUME ~raced, "bookRefund" \notin cut'
             PROVE  Refunding'
  BY DEF Refunding
<1>1. /\ \A d, e \in Holding : d = e
      /\ refunded <= Amount
      /\ (\A d \in Calls : call[d].pc # "bookRefund") => paidOut = refunded
      /\ \A d \in Calls :
            /\ call[d].pc = "bookRefund" => paidOut = refunded + call[d].amount
            /\ call[d].pc \in {"payback", "bookRefund"} => refunded + call[d].amount <= Amount
  BY DEF IInv, Refunding
<1>2. Holding' \subseteq Holding
  BY DEF Holding, Held, Moves
<1>3. ASSUME NEW d \in Calls
      PROVE  /\ call[d].pc = "bookRefund" => call'[d].pc = "bookRefund"
             /\ call'[d].pc \in {"payback", "bookRefund"} =>
                   call[d].pc = call'[d].pc /\ call'[d].amount = call[d].amount
  BY DEF Moves
<1>4. (\A d \in Calls : call'[d].pc # "bookRefund") => paidOut' = refunded'
  BY <1>1, <1>3
<1>5. ASSUME NEW d \in Calls
      PROVE  /\ call'[d].pc = "bookRefund" => paidOut' = refunded' + call'[d].amount
             /\ call'[d].pc \in {"payback", "bookRefund"} => refunded' + call'[d].amount <= Amount
  BY <1>1, <1>3
<1> QED BY <1>1, <1>2, <1>4, <1>5 DEF Refunding

(* Many steps change little but the place a request has come to.           *)
LEMMA Quiet ==
  ASSUME IInv, NEW c \in Calls, Moves(c),
         UNCHANGED <<record, refunded, charges, paidOut, applied, answers, raced>>,
         Booked' <=> Booked, payment'.charge = payment.charge,
         cut \subseteq cut', faults' = faults \/ faults' = faults + 1,
         call'[c].pc \in Serving => call[c].pc \in Serving /\ call'[c].key = call[c].key,
         \/ call[c].pc # "complete"
         \/ call'[c].pc = "complete" /\ call'[c].key = call[c].key
         \/ "complete" \in cut',
         call[c].pc = "book" =>
            Booked \/ call'[c].pc = "book" \/ ("book" \in cut' /\ faults' = faults + 1),
         call'[c].pc \in Held => call[c].pc \in Held,
         call'[c].pc \in {"payback", "bookRefund"} =>
            call[c].pc = call'[c].pc /\ call'[c].amount = call[c].amount,
         call[c].pc = "bookRefund" => call'[c].pc = "bookRefund" \/ "bookRefund" \in cut',
         CallOK(c)', TypeOK'
  PROVE  IInv'
<1>1. Others(c)
  BY OthersKept
<1>2. "complete" \notin cut' => \A k \in Keys : Ending(k) => Ending(k)'
  BY EndingKept
<1>3. Keeps(c)
  BY <1>1, <1>2 DEF Keeps
<1>4. OneServes'
  BY OneServesKept
<1>5. Finished'
  BY FinishedKept
<1>6. Creation'
  BY <1>3, CreationKept
<1>7. Applications'
  BY <1>3, ApplicationsKept
<1>8. Refunding'
  BY RefundingKept
<1> QED BY <1>3, <1>4, <1>5, <1>6, <1>7, <1>8, Safe

(* A step to a place that asks nothing of the records or the payment. *)
LEMMA FreeOK ==
  ASSUME NEW c \in Calls, call'[c].pc \in {"idle", "look", "claim"}
  PROVE  CallOK(c)'
BY DEF CallOK, Working

-----------------------------------------------------------------------------
(* One lemma for each action.                                              *)

LEMMA RequestSafe ==
  ASSUME IInv, NEW c \in Calls, NEW k \in Keys, Request(c, k)
  PROVE  IInv'
<1>1. Moves(c) /\ call[c].pc = "idle" /\ call'[c].pc = "look"
  BY CallTyped DEF Request, Start, Moves, CallRecords, Points
<1>2. TypeOK'
  BY <1>1, PaymentAssumption DEF Request, Start, processor, IInv, TypeOK, Moves, CallRecords
<1>3. CallOK(c)'
  BY <1>1, FreeOK
<1> QED BY <1>1, <1>2, <1>3, Quiet DEF Request, processor, Booked, Serving, Working, Held

LEMMA LookSafe ==
  ASSUME IInv, NEW c \in Calls, Look(c)
  PROVE  IInv'
<1>0. call[c].pc = "look" /\ call[c].key \in Keys
  BY CallTyped DEF Look, CallRecords
<1>1. /\ Moves(c)
      /\ call'[c].pc \in {"claim", "idle", "clear"}
      /\ call'[c].pc = "clear" => /\ record[call[c].key].status = "FAILED"
                                  /\ call'[c].key = call[c].key
                                  /\ call'[c].id = record[call[c].key].id
  <2>1. record[call[c].key].id \in Nat
    BY <1>0 DEF IInv, TypeOK
  <2>2. CASE Goto(c, "claim")
    BY <2>2, GotoMoves DEF Points
  <2>3. CASE Done(c)
    BY <2>3, DoneMoves
  <2>4. CASE /\ record[call[c].key].status = "FAILED"
             /\ call' = [call EXCEPT ![c].pc = "clear", ![c].id = record[call[c].key].id]
    BY <2>1, <2>4, CallTyped DEF Moves, CallRecords, Points
  <2> QED BY <2>2, <2>3, <2>4 DEF Look
<1>2. answers' \subseteq answers \cup {payment.charge} /\ (answers' # answers => Booked)
  BY <1>0 DEF Look, Answer, IInv, Creation
<1>3. TypeOK'
  BY <1>1, <1>2 DEF Look, processor, IInv, TypeOK, Moves, CallRecords
<1>4. CallOK(c)'
  <2>1. CASE call'[c].pc = "clear"
    <3>1. record[call[c].key].id \in Nat /\ record' = record
      BY <1>0 DEF IInv, TypeOK, Look
    <3> QED BY <1>1, <2>1, <3>1 DEF CallOK, Working
  <2>2. CASE call'[c].pc # "clear"
    BY <1>1, <2>2, FreeOK
  <2> QED BY <2>1, <2>2
<1>5. /\ UNCHANGED <<record, payment, refunded, charges, paidOut, applied, raced, cut, faults>>
      /\ call'[c].pc \notin Serving \cup Held
      /\ call[c].pc \notin {"complete", "book", "bookRefund"}
  BY <1>0, <1>1 DEF Look, processor, Serving, Working, Held
<1>6. "complete" \notin cut' => \A k \in Keys : Ending(k) => Ending(k)'
  BY <1>1, <1>5, EndingKept
<1>7. Keeps(c)
  BY <1>1, <1>5, <1>6, OthersKept DEF Keeps, Booked
<1>8. Creation'
  <2>1. Charged' = Charged
    BY <1>1, <1>5 DEF Charged, Moves
  <2>2. Booked' <=> Booked
    BY <1>5 DEF Booked
  <2> QED BY <1>2, <1>5, <1>6, <2>1, <2>2, KeysFacts DEF IInv, Creation
<1>9. OneServes' /\ Finished'
  BY <1>1, <1>5, OneServesKept, FinishedKept
<1>10. Refunding'
  BY <1>1, <1>5, RefundingKept DEF Held
<1>11. Applications'
  BY <1>5, <1>7, ApplicationsKept
<1> QED BY <1>3, <1>4, <1>7, <1>8, <1>9, <1>10, <1>11, Safe

(* The record is deleted only with the id under which it was read, and it  *)
(* was read as FAILED: nobody serves its key.                              *)
LEMMA ClearSafe ==
  ASSUME IInv, NEW c \in Calls, Clear(c)
  PROVE  IInv'
<1> DEFINE k == call[c].key
<1>0. call[c].pc = "clear" /\ k \in Keys /\ CallOK(c)
  BY CallTyped DEF Clear, CallRecords
<1>1. CASE UNCHANGED record /\ Done(c)
  <2>1. Moves(c) /\ call'[c].pc = "idle" /\ call'[c].key = Create
    BY <1>1, DoneMoves
  <2>2. TypeOK'
    BY <1>1, <2>1 DEF Clear, processor, history, IInv, TypeOK, Moves, CallRecords
  <2>3. CallOK(c)'
    BY <2>1, FreeOK
  <2> QED BY <1>0, <1>1, <2>1, <2>2, <2>3, Quiet
          DEF Clear, processor, history, Booked, Serving, Working, Held
<1>2. CASE /\ record[k].id = call[c].id /\ record[k].status # "NONE"
           /\ record' = [record EXCEPT ![k].status = "NONE"] /\ Goto(c, "claim")
  <2>1. Moves(c) /\ call'[c].pc = "claim" /\ call'[c].key = k
    BY <1>2, GotoMoves DEF Points
  <2>2. record[k].status = "FAILED"
    BY <1>0, <1>2 DEF CallOK
  <2>3. /\ record' \in [Keys -> [status: {"NONE", "IN_PROGRESS", "COMPLETED", "FAILED"}, id: Nat, answer: Nat]]
        /\ record'[k].status = "NONE" /\ record'[k].id = record[k].id
        /\ \A j \in Keys \ {k} : record'[j] = record[j]
    BY <1>0, <1>2 DEF IInv, TypeOK
  <2>4. /\ UNCHANGED <<payment, refunded, charges, paidOut, applied, answers, raced, cut, faults, started>>
        /\ call'[c].pc \notin Serving \cup Held
        /\ call[c].pc \notin {"complete", "book", "bookRefund"}
    BY <1>0, <2>1 DEF Clear, processor, history, Serving, Working, Held
  <2>5. TypeOK'
    BY <2>1, <2>3, <2>4 DEF IInv, TypeOK, Moves, CallRecords
  <2>6. ASSUME NEW d \in Calls, call[d].key = k PROVE call[d].pc \notin Serving
    BY <2>2, <2>6, CallTyped DEF CallOK, Serving, Working
  <2>7. Others(c)
    <3> SUFFICES ASSUME NEW d \in Calls \ {c}
                 PROVE  /\ call[d].pc = "clear" =>
                              /\ call[d].id <= record'[call[d].key].id
                              /\ call[d].id = record'[call[d].key].id =>
                                    record'[call[d].key].status \in {"NONE", "FAILED"}
                        /\ call[d].pc \in Working => record'[call[d].key].status = "IN_PROGRESS"
                        /\ call[d].pc = "undo" => record'[call[d].key].status \in {"IN_PROGRESS", "COMPLETED"}
      BY DEF Others
    <3>1. CallOK(d) /\ call[d].key \in Keys
      BY CallTyped DEF CallRecords
    <3>2. CASE call[d].key = k
      BY <2>3, <2>6, <3>1, <3>2 DEF CallOK, Serving
    <3>3. CASE call[d].key # k
      BY <2>3, <3>1, <3>3 DEF CallOK
    <3> QED BY <3>2, <3>3
  <2>8. "complete" \notin cut' => \A j \in Keys : Ending(j) => Ending(j)'
    <3>1. ASSUME NEW j \in Keys, Ending(j) PROVE Ending(j)'
      <4>1. CASE record[j].status = "COMPLETED"
        BY <2>2, <2>3, <4>1 DEF Ending
      <4>2. CASE \E d \in Calls : call[d].pc = "complete" /\ call[d].key = j
        BY <2>1, <2>4, <4>2 DEF Ending, Moves
      <4> QED BY <3>1, <4>1, <4>2 DEF Ending
    <3> QED BY <3>1
  <2>9. Keeps(c)
    BY <2>1, <2>4, <2>7, <2>8 DEF Keeps, Booked
  <2>10. OneServes'
    BY <2>1, <2>4, OneServesKept
  <2>11. Finished'
    <3> SUFFICES ASSUME "complete" \notin cut, NEW d \in Calls, record'[call'[d].key].status = "COMPLETED"
                 PROVE  call'[d].pc \notin Serving
      BY <2>4 DEF Finished
    <3>1. CASE d = c
      BY <2>4, <3>1
    <3>2. CASE d # c
      BY <2>1, <2>3, <3>2, CallTyped DEF IInv, Finished, Moves, CallRecords
    <3> QED BY <3>1, <3>2
  <2>12. Creation'
    <3>1. faults' = faults \/ faults' = faults + 1
      BY <2>4
    <3>2. record'[Create].status = "COMPLETED" =>
            record[Create].status = "COMPLETED" /\ record'[Create].answer = record[Create].answer
      BY <2>3, KeysFacts
    <3> QED BY <2>4, <2>9, <3>1, <3>2, CreationKept DEF Booked
  <2>13. Applications'
    BY <2>4, <2>9, ApplicationsKept
  <2>14. Refunding'
    BY <2>1, <2>4, RefundingKept DEF Held
  <2> QED BY <2>1, <2>5, <2>9, <2>10, <2>11, <2>12, <2>13, <2>14, FreeOK, Safe
<1> QED BY <1>1, <1>2 DEF Clear

(* Only one claim finds the key free. *)
LEMMA ClaimSafe ==
  ASSUME IInv, NEW c \in Calls, Claim(c)
  PROVE  IInv'
<1> DEFINE k == call[c].key
           pc == IF k = Create THEN "charge" ELSE "read"
<1>0. call[c].pc = "claim" /\ k \in Keys
  BY CallTyped DEF Claim, CallRecords
<1>1. CASE UNCHANGED record /\ Done(c)
  <2>1. Moves(c) /\ call'[c].pc = "idle" /\ call'[c].key = Create
    BY <1>1, DoneMoves
  <2>2. TypeOK'
    BY <1>1, <2>1 DEF Claim, processor, history, IInv, TypeOK, Moves, CallRecords
  <2>3. CallOK(c)'
    BY <2>1, FreeOK
  <2> QED BY <1>0, <1>1, <2>1, <2>2, <2>3, Quiet
          DEF Claim, processor, history, Booked, Serving, Working, Held
<1>2. CASE /\ record[k].status = "NONE"
           /\ record' = [record EXCEPT ![k] = [status |-> "IN_PROGRESS", id |-> @.id + 1, answer |-> 0]]
           /\ Goto(c, pc)
  <2>0. pc \in Points /\ pc \in Working \ {"complete", "book", "move"}
    BY DEF Points, InRun, Working
  <2>1. Moves(c) /\ call'[c].pc = pc /\ call'[c].key = k
    BY <1>2, <2>0, GotoMoves
  <2>2. /\ record' \in [Keys -> [status: {"NONE", "IN_PROGRESS", "COMPLETED", "FAILED"}, id: Nat, answer: Nat]]
        /\ record'[k].status = "IN_PROGRESS" /\ record'[k].id = record[k].id + 1 /\ record[k].id \in Nat
        /\ \A j \in Keys \ {k} : record'[j] = record[j]
    BY <1>0, <1>2 DEF IInv, TypeOK
  <2>4. /\ UNCHANGED <<payment, refunded, charges, paidOut, applied, answers, raced, cut, faults, started>>
        /\ call'[c].pc \notin Held
        /\ call[c].pc \notin {"complete", "book", "bookRefund"}
    BY <1>0, <2>0, <2>1 DEF Claim, processor, history, Working, Held
  <2>5. TypeOK'
    BY <2>1, <2>2, <2>4 DEF IInv, TypeOK, Moves, CallRecords
  <2>6. ASSUME NEW d \in Calls, call[d].key = k PROVE call[d].pc \notin Serving
    BY <1>2, <2>6, CallTyped DEF CallOK, Serving, Working
  <2>7. Others(c)
    <3> SUFFICES ASSUME NEW d \in Calls \ {c}
                 PROVE  /\ call[d].pc = "clear" =>
                              /\ call[d].id <= record'[call[d].key].id
                              /\ call[d].id = record'[call[d].key].id =>
                                    record'[call[d].key].status \in {"NONE", "FAILED"}
                        /\ call[d].pc \in Working => record'[call[d].key].status = "IN_PROGRESS"
                        /\ call[d].pc = "undo" => record'[call[d].key].status \in {"IN_PROGRESS", "COMPLETED"}
      BY DEF Others
    <3>1. CallOK(d) /\ call[d].key \in Keys /\ call[d].id \in Nat
      BY CallTyped DEF CallRecords
    <3>2. CASE call[d].key = k
      <4>1. call[d].pc = "clear" => call[d].id <= record[k].id
        BY <3>1, <3>2 DEF CallOK
      <4>2. call[d].pc = "clear" => call[d].id <= record'[k].id /\ call[d].id # record'[k].id
        BY <2>2, <3>1, <4>1
      <4> QED BY <2>2, <2>6, <3>2, <4>2 DEF Serving
    <3>3. CASE call[d].key # k
      BY <2>2, <3>1, <3>3 DEF CallOK
    <3> QED BY <3>2, <3>3
  <2>8. "complete" \notin cut' => \A j \in Keys : Ending(j) => Ending(j)'
    <3>1. ASSUME NEW j \in Keys, Ending(j) PROVE Ending(j)'
      <4>1. CASE record[j].status = "COMPLETED"
        BY <1>2, <2>2, <4>1 DEF Ending
      <4>2. CASE \E d \in Calls : call[d].pc = "complete" /\ call[d].key = j
        BY <2>1, <2>4, <4>2 DEF Ending, Moves
      <4> QED BY <3>1, <4>1, <4>2 DEF Ending
    <3> QED BY <3>1
  <2>9. Keeps(c)
    BY <2>1, <2>4, <2>7, <2>8 DEF Keeps, Booked
  <2>10. OneServes'
    <3> SUFFICES ASSUME NEW d \in Calls, NEW e \in Calls,
                        call'[d].pc \in Serving, call'[e].pc \in Serving, call'[d].key = call'[e].key
                 PROVE  d = e
      BY DEF OneServes
    <3>1. CASE d # c /\ e # c
      BY <2>1, <3>1 DEF Moves, IInv, OneServes
    <3>2. CASE d = c \/ e = c
      BY <2>1, <2>6, <3>2 DEF Moves
    <3> QED BY <3>1, <3>2
  <2>11. Finished'
    <3> SUFFICES ASSUME "complete" \notin cut, NEW d \in Calls, record'[call'[d].key].status = "COMPLETED"
                 PROVE  call'[d].pc \notin Serving
      BY <2>4 DEF Finished
    <3>1. d # c
      BY <2>1, <2>2
    <3> QED BY <2>1, <2>2, <3>1, CallTyped DEF IInv, Finished, Moves, CallRecords
  <2>12. Creation'
    <3>1. faults' = faults \/ faults' = faults + 1
      BY <2>4
    <3>2. record'[Create].status = "COMPLETED" =>
            record[Create].status = "COMPLETED" /\ record'[Create].answer = record[Create].answer
      BY <2>2, KeysFacts
    <3> QED BY <2>4, <2>9, <3>1, <3>2, CreationKept DEF Booked
  <2>13. Applications'
    BY <2>4, <2>9, ApplicationsKept
  <2>14. Refunding'
    <3>1. call'[c].pc \notin {"payback", "bookRefund"}
      BY <2>4 DEF Held
    <3> QED BY <2>1, <2>4, <3>1, RefundingKept
  <2>15. CallOK(c)'
    BY <2>0, <2>1, <2>2 DEF CallOK, Working
  <2> QED BY <2>5, <2>9, <2>10, <2>11, <2>12, <2>13, <2>14, <2>15, Safe
<1> QED BY <1>1, <1>2 DEF Claim

(* The last update of a request, whichever it is: nobody else serves the   *)
(* key, and nobody cleans it up with the id it has.                        *)
LEMMA LastUpdate ==
  ASSUME IInv, NEW c \in Calls, call[c].pc \in Serving, Moves(c),
         cut \subseteq cut',
         call'[c].pc \in Serving => call'[c].key = call[c].key /\ "complete" \in cut',
         record' \in [Keys -> [status: {"NONE", "IN_PROGRESS", "COMPLETED", "FAILED"}, id: Nat, answer: Nat]],
         record'[call[c].key].id = record[call[c].key].id,
         record'[call[c].key].status = "FAILED" \/ call[c].pc = "complete",
         \A j \in Keys \ {call[c].key} : record'[j] = record[j]
  PROVE  Others(c) /\ OneServes' /\ Finished'
<1> DEFINE k == call[c].key
<1>0. k \in Keys
  BY CallTyped DEF CallRecords
<1>1. ASSUME NEW d \in Calls \ {c}, call[d].key = k PROVE call[d].pc \notin Serving
  BY <1>1 DEF IInv, OneServes
<1>2. Others(c)
  <2> SUFFICES ASSUME NEW d \in Calls \ {c}
               PROVE  /\ call[d].pc = "clear" =>
                            /\ call[d].id <= record'[call[d].key].id
                            /\ call[d].id = record'[call[d].key].id =>
                                  record'[call[d].key].status \in {"NONE", "FAILED"}
                      /\ call[d].pc \in Working => record'[call[d].key].status = "IN_PROGRESS"
                      /\ call[d].pc = "undo" => record'[call[d].key].status \in {"IN_PROGRESS", "COMPLETED"}
    BY DEF Others
  <2>1. CallOK(d) /\ CallOK(c) /\ call[d].key \in Keys
    BY CallTyped DEF CallRecords
  <2>2. CASE call[d].key = k
    <3>1. call[c].pc = "complete" => record[k].status = "IN_PROGRESS"
      BY <2>1 DEF CallOK, Working
    <3> QED BY <1>1, <2>1, <2>2, <3>1 DEF CallOK, Serving
  <2>3. CASE call[d].key # k
    BY <2>1, <2>3 DEF CallOK
  <2> QED BY <2>2, <2>3
<1>3. OneServes'
  BY OneServesKept
<1>4. Finished'
  <2> SUFFICES ASSUME "complete" \notin cut', NEW d \in Calls, record'[call'[d].key].status = "COMPLETED"
               PROVE  call'[d].pc \notin Serving
    BY DEF Finished
  <2>1. CASE d = c
    BY <2>1
  <2>2. CASE d # c
    <3>1. call'[d] = call[d] /\ call[d].key \in Keys /\ "complete" \notin cut
      BY <2>2, CallTyped DEF Moves, CallRecords
    <3>2. CASE call[d].key = k
      BY <1>1, <2>2, <3>1, <3>2
    <3>3. CASE call[d].key # k
      BY <3>1, <3>3 DEF IInv, Finished
    <3> QED BY <3>2, <3>3
  <2> QED BY <2>1, <2>2
<1> QED BY <1>2, <1>3, <1>4

LEMMA CompletedFacts ==
  ASSUME IInv, NEW c \in Calls, call[c].pc = "complete", record' = Completed(c)
  PROVE  /\ call[c].key \in Keys
         /\ record' \in [Keys -> [status: {"NONE", "IN_PROGRESS", "COMPLETED", "FAILED"}, id: Nat, answer: Nat]]
         /\ record'[call[c].key].id = record[call[c].key].id
         /\ record'[call[c].key].status = "COMPLETED"
         /\ record'[call[c].key].answer = call[c].id
         /\ \A j \in Keys \ {call[c].key} : record'[j] = record[j]
         /\ \A j \in Keys : Ending(j) =>
               \/ record'[j].status = "COMPLETED"
               \/ \E d \in Calls \ {c} : call[d].pc = "complete" /\ call[d].key = j
<1>0. call[c].key \in Keys /\ call[c].id \in Nat
  BY CallTyped DEF CallRecords
<1>1. /\ record' \in [Keys -> [status: {"NONE", "IN_PROGRESS", "COMPLETED", "FAILED"}, id: Nat, answer: Nat]]
      /\ record'[call[c].key].id = record[call[c].key].id
      /\ record'[call[c].key].status = "COMPLETED"
      /\ record'[call[c].key].answer = call[c].id
      /\ \A j \in Keys \ {call[c].key} : record'[j] = record[j]
  <2> DEFINE R == [status: {"NONE", "IN_PROGRESS", "COMPLETED", "FAILED"}, id: Nat, answer: Nat]
             r == [record[call[c].key] EXCEPT !.status = "COMPLETED", !.answer = call[c].id]
  <2>1. record \in [Keys -> R]
    BY DEF IInv, TypeOK
  <2>2. r \in R /\ r.id = record[call[c].key].id /\ r.status = "COMPLETED" /\ r.answer = call[c].id
    BY <1>0, <2>1
  <2>3. record' = [record EXCEPT ![call[c].key] = r]
    BY DEF Completed
  <2> HIDE DEF R, r
  <2>4. /\ record' \in [Keys -> R] /\ record'[call[c].key] = r
        /\ \A j \in Keys \ {call[c].key} : record'[j] = record[j]
    BY <1>0, <2>1, <2>2, <2>3
  <2> QED BY <2>2, <2>4 DEF R
<1> QED BY <1>0, <1>1 DEF Ending

LEMMA CompleteSafe ==
  ASSUME IInv, NEW c \in Calls, Complete(c)
  PROVE  IInv'
<1> DEFINE k == call[c].key
<1>0. call[c].pc = "complete" /\ CallOK(c) /\ call[c].id \in Nat
  BY CallTyped DEF Complete, CallRecords
<1>1. Moves(c) /\ call'[c].pc = "idle"
  BY DoneMoves DEF Complete
<1>2. /\ k \in Keys
      /\ record' \in [Keys -> [status: {"NONE", "IN_PROGRESS", "COMPLETED", "FAILED"}, id: Nat, answer: Nat]]
      /\ record'[k].id = record[k].id /\ record'[k].status = "COMPLETED" /\ record'[k].answer = call[c].id
      /\ \A j \in Keys \ {k} : record'[j] = record[j]
      /\ \A j \in Keys : Ending(j) =>
            \/ record'[j].status = "COMPLETED"
            \/ \E d \in Calls \ {c} : call[d].pc = "complete" /\ call[d].key = j
  BY <1>0, CompletedFacts DEF Complete
<1>3. /\ UNCHANGED <<payment, refunded, charges, paidOut, applied, raced, cut, faults, started>>
      /\ Booked' = Booked
  BY DEF Complete, processor, Booked
<1>4. Others(c) /\ OneServes' /\ Finished'
  <2>1. call[c].pc \in Serving /\ call'[c].pc \notin Serving
    BY <1>0, <1>1 DEF Serving, Working
  <2> QED BY <1>0, <1>1, <1>2, <1>3, <2>1, LastUpdate
<1>5. \A j \in Keys : Ending(j) => Ending(j)'
  BY <1>1, <1>2 DEF Ending, Moves
<1>6. Keeps(c)
  BY <1>1, <1>3, <1>4, <1>5 DEF Keeps
<1>7. answers' = answers \cup (IF k = Create THEN {call[c].id} ELSE {})
  BY DEF Complete, Answer
<1>8. k = Create => Booked /\ call[c].id = payment.charge
  BY <1>0 DEF CallOK
<1>9. Creation'
  <2>1. Charged' = Charged
    BY <1>0, <1>1 DEF Charged, Moves
  <2>2. record'[Create].status = "COMPLETED" => Booked' /\ record'[Create].answer = payment'.charge
    BY <1>2, <1>3, <1>8, KeysFacts DEF IInv, Creation
  <2>3. answers' \subseteq {payment'.charge} /\ (answers' # {} => Booked')
    BY <1>3, <1>7, <1>8 DEF IInv, Creation
  <2> QED BY <1>3, <1>5, <2>1, <2>2, <2>3, KeysFacts DEF IInv, Creation
<1>10. Applications'
  BY <1>3, <1>6, ApplicationsKept
<1>11. Refunding'
  BY <1>0, <1>1, <1>3, RefundingKept DEF Held
<1>12. TypeOK'
  BY <1>0, <1>1, <1>2, <1>3, <1>7 DEF IInv, TypeOK, Moves, CallRecords
<1> QED BY <1>1, <1>4, <1>6, <1>9, <1>10, <1>11, <1>12, FreeOK, Safe

(* A record that was not completed, or that a fault let be undone. *)
LEMMA UndoSafe ==
  ASSUME IInv, NEW c \in Calls, Undo(c)
  PROVE  IInv'
<1> DEFINE k == call[c].key
<1>0. call[c].pc = "undo" /\ k \in Keys /\ call[c].pc \in Serving
  BY CallTyped DEF Undo, CallRecords, Serving
<1>1. Moves(c) /\ call'[c].pc = "idle"
  BY DoneMoves DEF Undo
<1>2. /\ record' \in [Keys -> [status: {"NONE", "IN_PROGRESS", "COMPLETED", "FAILED"}, id: Nat, answer: Nat]]
      /\ record'[k].id = record[k].id /\ record'[k].status = "FAILED"
      /\ \A j \in Keys \ {k} : record'[j] = record[j]
  BY <1>0 DEF Undo, IInv, TypeOK
<1>3. /\ UNCHANGED <<payment, refunded, charges, paidOut, answers, applied, raced, cut, faults, started>>
      /\ Booked' = Booked
  BY DEF Undo, processor, history, Booked
<1>4. Others(c) /\ OneServes' /\ Finished'
  <2>1. call'[c].pc \notin Serving
    BY <1>1 DEF Serving, Working
  <2> QED BY <1>0, <1>1, <1>2, <1>3, <2>1, LastUpdate
<1>5. "complete" \notin cut' => \A j \in Keys : Ending(j) => Ending(j)'
  <2> SUFFICES ASSUME "complete" \notin cut, NEW j \in Keys, Ending(j) PROVE Ending(j)'
    BY <1>3
  <2>1. record[k].status # "COMPLETED"
    BY <1>0 DEF IInv, Finished
  <2>2. CASE record[j].status = "COMPLETED"
    BY <1>2, <2>1, <2>2 DEF Ending
  <2>3. CASE \E d \in Calls : call[d].pc = "complete" /\ call[d].key = j
    BY <1>0, <1>1, <2>3 DEF Ending, Moves
  <2> QED BY <2>2, <2>3 DEF Ending
<1>6. Keeps(c)
  BY <1>1, <1>3, <1>4, <1>5 DEF Keeps
<1>7. Creation'
  <2>1. faults' = faults \/ faults' = faults + 1
    BY <1>3
  <2>2. record'[Create].status = "COMPLETED" =>
          record[Create].status = "COMPLETED" /\ record'[Create].answer = record[Create].answer
    BY <1>2, KeysFacts
  <2> QED BY <1>0, <1>3, <1>6, <2>1, <2>2, CreationKept
<1>8. Applications'
  BY <1>3, <1>6, ApplicationsKept
<1>9. Refunding'
  BY <1>0, <1>1, <1>3, RefundingKept DEF Held
<1>10. TypeOK'
  BY <1>1, <1>2, <1>3 DEF IInv, TypeOK, Moves, CallRecords
<1> QED BY <1>1, <1>4, <1>6, <1>7, <1>8, <1>9, <1>10, FreeOK, Safe

-----------------------------------------------------------------------------
(* Creation: the request that charges is the only one at its key, and      *)
(* nothing was charged before unless a fault hid it.                       *)

LEMMA AloneAtKey ==
  ASSUME IInv, NEW c \in Calls, call[c].pc \in Serving
  PROVE  \A d \in Calls \ {c} : call[d].key = call[c].key => call[d].pc \notin Serving
BY DEF IInv, OneServes

LEMMA NotEnding ==
  ASSUME IInv, NEW c \in Calls, call[c].pc \in Working \ {"complete"}
  PROVE  ~Ending(call[c].key)
<1>1. record[call[c].key].status = "IN_PROGRESS"
  BY CallTyped DEF CallOK
<1>2. \A d \in Calls \ {c} : call[d].key = call[c].key => call[d].pc \notin Serving
  BY AloneAtKey DEF Serving
<1> QED BY <1>1, <1>2 DEF Ending, Serving, Working

LEMMA ChargeSafe ==
  ASSUME IInv, NEW c \in Calls, Charge(c)
  PROVE  IInv'
<1>0. call[c].pc = "charge" /\ call[c].key = Create /\ CallOK(c) /\ charges \in Nat /\ faults \in Nat
  BY CallTyped, PaymentAssumption DEF Charge, CallOK, IInv, TypeOK
<1>1. /\ Moves(c) /\ call'[c].pc = "book" /\ call'[c].key = Create /\ call'[c].status # "NONE"
      /\ charges' = charges + 1
  BY <1>0, CallTyped DEF Charge, Moves, CallRecords, Points, InRun, Statuses, WEBHOOK_EVENT_TO_STATUS
<1>2. UNCHANGED <<record, payment, refunded, paidOut, answers, applied, raced, cut, faults, started>>
  BY DEF Charge, history
<1>3. Booked' = Booked
  BY <1>2 DEF Booked
<1>4. "complete" \notin cut' => \A k \in Keys : Ending(k) => Ending(k)'
  BY <1>0, <1>1, <1>2, EndingKept
<1>5. Keeps(c)
  BY <1>1, <1>2, <1>3, <1>4, OthersKept DEF Keeps
<1>6. CallOK(c)'
  <2>1. record[Create].status = "IN_PROGRESS"
    BY <1>0 DEF CallOK, Working
  <2> QED BY <1>1, <1>2, <2>1 DEF CallOK, Working
<1>7. OneServes' /\ Finished'
  <2>1. call[c].pc \in Serving /\ call'[c].key = call[c].key
    BY <1>0, <1>1 DEF Serving, Working
  <2> QED BY <1>1, <1>2, <2>1, OneServesKept, FinishedKept
<1>8. ~Ending(Create)
  BY <1>0, NotEnding DEF Working
<1>9. Charged = 0 /\ Charged' = 1
  <2>1. \A d \in Calls : call[d].pc # "book"
    <3> SUFFICES ASSUME NEW d \in Calls, call[d].pc = "book" PROVE FALSE
      OBVIOUS
    <3>1. call[d].key = Create /\ d # c
      BY <1>0, CallTyped DEF CallOK
    <3> QED BY <1>0, <3>1, AloneAtKey DEF Serving, Working
  <2> QED BY <1>1, <2>1 DEF Charged
<1>10. Creation'
  <2>1. "complete" \notin cut => ~Booked
    BY <1>8 DEF IInv, Creation
  <2>2. /\ "complete" \notin cut => charges <= faults + 0
        /\ cut \cap {"book", "complete"} = {} => charges <= 0
    BY <1>9, <2>1 DEF IInv, Creation
  <2>3. /\ "complete" \notin cut => charges' <= faults + 1
        /\ cut \cap {"book", "complete"} = {} => charges' <= 1
    BY <1>0, <1>1, <2>2
  <2>4. (IF Booked' THEN 1 ELSE Charged') = 1
    BY <1>9
  <2>5. "complete" \notin cut' /\ Booked' => Ending(Create)'
    BY <1>2, <1>3, <2>1
  <2> QED BY <1>2, <1>3, <2>3, <2>4, <2>5 DEF IInv, Creation
<1>11. Applications'
  BY <1>2, <1>5, ApplicationsKept
<1>12. Refunding'
  BY <1>0, <1>1, <1>2, RefundingKept DEF Held
<1>13. TypeOK'
  BY <1>0, <1>1, <1>2 DEF IInv, TypeOK, Moves, CallRecords
<1> QED BY <1>5, <1>6, <1>7, <1>10, <1>11, <1>12, <1>13, Safe

LEMMA BookSafe ==
  ASSUME IInv, NEW c \in Calls, Book(c)
  PROVE  IInv'
<1>0. /\ call[c].pc = "book" /\ call[c].key = Create /\ CallOK(c)
      /\ record[Create].status = "IN_PROGRESS" /\ call[c].pc \in Serving /\ call[c] \in CallRecords
      /\ charges \in Nat /\ faults \in Nat
  BY CallTyped, PaymentAssumption DEF Book, CallOK, Serving, Working, IInv, TypeOK
<1>1. UNCHANGED <<record, refunded, charges, paidOut, answers, applied, raced, cut, faults, started>>
  BY DEF Book, processor, history
<1>2. CASE Booked
  <2>1. Goto(c, "undo") /\ UNCHANGED payment
    BY <1>2 DEF Book, Booked
  <2>2. Moves(c) /\ call'[c].pc = "undo" /\ call'[c].key = Create
    BY <1>0, <2>1, GotoMoves DEF Points
  <2>3. CallOK(c)'
    BY <1>0, <1>1, <2>2 DEF CallOK, Working
  <2>4. TypeOK'
    BY <1>1, <2>1, <2>2 DEF IInv, TypeOK, Moves, CallRecords
  <2> QED BY <1>0, <1>1, <1>2, <2>1, <2>2, <2>3, <2>4, Quiet DEF Booked, Held
<1>3. CASE ~Booked
  <2>1. Goto(c, "complete") /\ payment' = [status |-> call[c].status, charge |-> call[c].id]
    BY <1>3 DEF Book, Booked
  <2>2. Moves(c) /\ call'[c].pc = "complete" /\ call'[c].key = Create /\ call'[c].id = call[c].id
    BY <1>0, <2>1, GotoMoves DEF Points, InRun
  <2>3. payment'.charge = call[c].id /\ Booked'
    <3>1. call[c].status # "NONE"
      BY <1>0 DEF CallOK
    <3> QED BY <2>1, <3>1 DEF Booked
  <2>4. CallOK(c)'
    BY <1>0, <1>1, <2>2, <2>3 DEF CallOK, Working
  <2>5. "complete" \notin cut' => \A k \in Keys : Ending(k) => Ending(k)'
    BY <1>0, <1>1, <2>2, EndingKept
  <2>6. Keeps(c)
    BY <1>1, <1>3, <2>2, <2>5, OthersKept DEF Keeps
  <2>7. OneServes' /\ Finished'
    BY <1>0, <1>1, <2>2, OneServesKept, FinishedKept
  <2>8. Creation'
    <3>1. Charged \in {0, 1} /\ (IF Booked' THEN 1 ELSE Charged') = 1 /\ (IF Booked THEN 1 ELSE Charged) = Charged
      BY <1>3, <2>3 DEF Charged
    <3>2. /\ "complete" \notin cut => charges <= faults + Charged
          /\ cut \cap {"book", "complete"} = {} => charges <= Charged
      BY <3>1 DEF IInv, Creation
    <3>3. /\ "complete" \notin cut' => charges' <= faults' + 1
          /\ cut' \cap {"book", "complete"} = {} => charges' <= 1
      BY <1>0, <1>1, <3>1, <3>2
    <3>4. Ending(Create)'
      BY <2>2 DEF Ending
    <3>5. answers = {} /\ record[Create].status # "COMPLETED"
      BY <1>0, <1>3 DEF IInv, Creation
    <3> QED BY <1>1, <3>1, <3>3, <3>4, <3>5 DEF Creation
  <2>9. Applications'
    BY <1>1, <2>6, ApplicationsKept
  <2>10. Refunding'
    BY <1>0, <1>1, <2>2, RefundingKept DEF Held
  <2>11. TypeOK'
    BY <1>0, <1>1, <2>1, <2>2 DEF IInv, TypeOK, Moves, CallRecords
  <2> QED BY <2>4, <2>6, <2>7, <2>8, <2>9, <2>10, <2>11, Safe
<1> QED BY <1>2, <1>3

-----------------------------------------------------------------------------
(* Events and refunds: a request that starts to hold the payment either is *)
(* alone with it or raced.                                                 *)

LEMMA AloneHolding ==
  ASSUME IInv, NEW c \in Calls, ~raced, "bookRefund" \notin cut, call[c].pc \in Held
  PROVE  \A d \in Calls \ {c} : call[d].pc \notin Held
BY DEF IInv, Refunding, Holding, Held

LEMMA Entering ==
  ASSUME IInv, NEW c \in Calls, Moves(c), Race(c), UNCHANGED <<refunded, paidOut, cut>>,
         call[c].pc \notin Held, call'[c].pc \in {"move", "payback"},
         call'[c].pc = "payback" => refunded + call'[c].amount <= Amount
  PROVE  Refunding'
<1> SUFFICES ASSUME ~raced', "bookRefund" \notin cut
             PROVE  Refunding'
  BY DEF Refunding
<1>1. ~raced /\ \A d \in Calls \ {c} : call[d].pc \notin Held
  BY DEF Race, Holding, Held
<1>2. \A d \in Calls : call[d].pc \notin Held
  BY <1>1
<1>3. refunded <= Amount /\ paidOut = refunded
  BY <1>1, <1>2 DEF IInv, Refunding, Held
<1>4. \A d \in Calls \ {c} : call'[d].pc \notin Held
  BY <1>1 DEF Moves
<1>5. Holding' \subseteq {c}
  BY <1>4 DEF Holding, Held
<1>6. \A d \in Calls : call'[d].pc # "bookRefund"
  BY <1>4 DEF Held
<1>7. \A d \in Calls : call'[d].pc = "payback" => refunded + call'[d].amount <= Amount
  BY <1>4 DEF Held
<1> QED BY <1>3, <1>5, <1>6, <1>7 DEF Refunding

LEMMA ReadForEventSafe ==
  ASSUME IInv, NEW c \in Calls, ReadForEvent(c)
  PROVE  IInv'
<1>0. /\ call[c].pc = "read" /\ CallOK(c) /\ call[c].pc \in Serving
      /\ record[call[c].key].status = "IN_PROGRESS"
  BY CallTyped DEF ReadForEvent, CallOK, Serving, Working
<1>1. UNCHANGED <<record, payment, refunded, charges, paidOut, answers, applied, cut, faults, started>>
  BY DEF ReadForEvent, processor
<1>2. CASE Goto(c, "undo") /\ UNCHANGED raced
  <2>1. Moves(c) /\ call'[c].pc = "undo" /\ call'[c].key = call[c].key
    BY <1>2, GotoMoves DEF Points
  <2>2. CallOK(c)'
    BY <1>0, <1>1, <2>1 DEF CallOK, Working
  <2>3. TypeOK'
    BY <1>1, <1>2, <2>1 DEF IInv, TypeOK, Moves, CallRecords
  <2> QED BY <1>0, <1>1, <1>2, <2>1, <2>2, <2>3, Quiet DEF Booked, Held
<1>3. CASE AssertTransition(payment.status, WEBHOOK_EVENT_TO_STATUS[call[c].key]) /\ Goto(c, "move") /\ Race(c)
  <2>1. Moves(c) /\ call'[c].pc = "move" /\ call'[c].key = call[c].key
    BY <1>3, GotoMoves DEF Points, InRun
  <2>2. Booked
    BY <1>3 DEF AssertTransition, PAYMENT_TRANSITIONS, Booked
  <2>3. Booked' = Booked
    BY <1>1 DEF Booked
  <2>4. CallOK(c)'
    BY <1>0, <1>1, <2>1, <2>2, <2>3 DEF CallOK, Working
  <2>5. TypeOK'
    <3>1. raced' \in BOOLEAN
      BY <1>3 DEF Race
    <3> QED BY <1>1, <2>1, <3>1 DEF IInv, TypeOK, Moves, CallRecords
  <2>6. "complete" \notin cut' => \A k \in Keys : Ending(k) => Ending(k)'
    BY <1>0, <1>1, <2>1, EndingKept
  <2>7. Keeps(c)
    BY <1>1, <2>1, <2>3, <2>6, OthersKept DEF Keeps
  <2>8. OneServes' /\ Finished'
    BY <1>0, <1>1, <2>1, OneServesKept, FinishedKept
  <2>9. Creation'
    BY <1>0, <1>1, <2>3, <2>7, CreationKept
  <2>10. Applications'
    BY <1>1, <2>7, ApplicationsKept
  <2>11. Refunding'
    BY <1>0, <1>1, <1>3, <2>1, Entering DEF Held
  <2> QED BY <2>4, <2>5, <2>7, <2>8, <2>9, <2>10, <2>11, Safe
<1> QED BY <1>2, <1>3 DEF ReadForEvent

LEMMA MoveByEventSafe ==
  ASSUME IInv, NEW c \in Calls, MoveByEvent(c)
  PROVE  IInv'
<1> DEFINE e == call[c].key
<1>0. /\ call[c].pc = "move" /\ CallOK(c) /\ call[c].pc \in Serving /\ e \in Events
      /\ record[e].status = "IN_PROGRESS" /\ Booked
  BY CallTyped DEF MoveByEvent, CallOK, Serving, Working, CallRecords, Keys
<1>1. /\ UNCHANGED <<record, refunded, charges, paidOut, answers, cut, raced, faults, started>>
      /\ applied' = [applied EXCEPT ![e] = @ + 1]
      /\ payment' = [payment EXCEPT !.status = WEBHOOK_EVENT_TO_STATUS[e]]
  BY DEF MoveByEvent, processor
<1>2. Moves(c) /\ call'[c].pc = "complete" /\ call'[c].key = e
  BY GotoMoves DEF MoveByEvent, Points, InRun
<1>3. WEBHOOK_EVENT_TO_STATUS[e] \in Statuses \ {"NONE"}
  BY <1>0, PaymentAssumption DEF Statuses, WEBHOOK_EVENT_TO_STATUS
<1>4. payment' \in [status: Statuses, charge: Nat] /\ payment'.charge = payment.charge /\ Booked'
  BY <1>1, <1>3 DEF IInv, TypeOK, Booked
<1>5. CallOK(c)'
  BY <1>0, <1>1, <1>2 DEF CallOK, Working
<1>6. TypeOK'
  BY <1>0, <1>1, <1>2, <1>4 DEF IInv, TypeOK, Moves, CallRecords
<1>7. "complete" \notin cut' => \A k \in Keys : Ending(k) => Ending(k)'
  BY <1>0, <1>1, <1>2, EndingKept
<1>8. Keeps(c)
  BY <1>1, <1>2, <1>4, <1>7, OthersKept DEF Keeps
<1>9. OneServes' /\ Finished'
  BY <1>0, <1>1, <1>2, OneServesKept, FinishedKept
<1>10. Creation'
  BY <1>0, <1>1, <1>8, CreationKept
<1>11. Applications'
  <2> SUFFICES ASSUME "complete" \notin cut, NEW f \in Events
               PROVE  applied'[f] <= 1 /\ (applied'[f] = 1 => Ending(f)')
    BY <1>1 DEF Applications
  <2>1. applied \in [Events -> Nat] /\ applied[f] <= 1 /\ (applied[f] = 1 => Ending(f))
    BY DEF IInv, TypeOK, Applications
  <2>2. CASE f = e
    <3>1. ~Ending(e)
      BY <1>0, NotEnding DEF Working
    <3>2. applied[e] = 0
      BY <2>1, <2>2, <3>1
    <3>3. Ending(e)'
      BY <1>2 DEF Ending
    <3>4. applied'[e] = applied[e] + 1
      BY <1>0, <1>1, <2>1
    <3>5. applied'[e] = 1
      BY <3>2, <3>4
    <3>6. applied'[f] = 1 /\ Ending(f)'
      BY <1>2, <2>2, <3>3, <3>5
    <3> QED BY <3>6
  <2>3. CASE f # e
    BY <1>1, <1>7, <2>1, <2>3, KeysFacts
  <2> QED BY <2>2, <2>3
<1>12. Refunding'
  BY <1>0, <1>1, <1>2, RefundingKept DEF Held
<1> QED BY <1>5, <1>6, <1>8, <1>9, <1>10, <1>11, <1>12, Safe

LEMMA RefundRecord ==
  ASSUME IInv, NEW a \in 0 .. Amount, NEW status \in Statuses, NEW balance \in 0 .. Amount
  PROVE  LET r == [Idle EXCEPT !.pc = "payback", !.amount = a, !.status = status, !.balance = balance]
         IN  r \in CallRecords /\ r.pc = "payback" /\ r.amount = a
<1>1. Idle \in CallRecords /\ "payback" \in Points
  BY KeysFacts, PaymentAssumption DEF CallRecords, Idle, Points, InRun, Statuses
<1> QED BY <1>1 DEF CallRecords

LEMMA RequestRefundSafe ==
  ASSUME IInv, NEW c \in Calls, NEW amount \in 1 .. Amount, RequestRefund(c, amount)
  PROVE  IInv'
<1>0. /\ call[c].pc = "idle" /\ Booked
      /\ refunded + amount <= Amount /\ refunded \in Nat /\ Amount \in Nat /\ amount \in 1 .. Amount
  BY CallTyped, PaymentAssumption DEF RequestRefund, Start, Exceeds, Booked, IInv, TypeOK
<1>1. /\ UNCHANGED <<record, payment, refunded, charges, paidOut, answers, applied, cut, faults>>
      /\ started' \in 0 .. MaxCalls
  BY PaymentAssumption DEF RequestRefund, Start, processor, IInv, TypeOK
<1>2. Moves(c) /\ call'[c].pc = "payback" /\ call'[c].amount = amount
  <2>1. Amount - refunded \in 0 .. Amount /\ payment.status \in Statuses /\ "payback" \in Points
    BY <1>0 DEF IInv, TypeOK, Points
  <2> DEFINE r == [Idle EXCEPT !.pc = "payback", !.amount = amount, !.status = payment.status,
                               !.balance = Amount - refunded]
  <2>2. r \in CallRecords /\ r.pc = "payback" /\ r.amount = amount
    <3>1. amount \in 0 .. Amount
      BY <1>0
    <3> QED BY <2>1, <3>1, RefundRecord
  <2>3. call' = [call EXCEPT ![c] = r]
    BY DEF RequestRefund
  <2> HIDE DEF r
  <2> QED BY <2>2, <2>3, CallTyped DEF Moves
<1>3. Booked' = Booked
  BY <1>1 DEF Booked
<1>4. CallOK(c)'
  BY <1>0, <1>2, <1>3 DEF CallOK, Working
<1>5. TypeOK'
  <2>1. raced' \in BOOLEAN
    BY DEF RequestRefund, Race
  <2> QED BY <1>1, <1>2, <2>1 DEF IInv, TypeOK, Moves, CallRecords
<1>6. "complete" \notin cut' => \A k \in Keys : Ending(k) => Ending(k)'
  BY <1>0, <1>1, <1>2, EndingKept
<1>7. Keeps(c)
  BY <1>1, <1>2, <1>3, <1>6, OthersKept DEF Keeps
<1>8. OneServes' /\ Finished'
  BY <1>1, <1>2, OneServesKept, FinishedKept DEF Serving, Working
<1>9. Creation'
  BY <1>0, <1>1, <1>3, <1>7, CreationKept
<1>10. Applications'
  BY <1>1, <1>7, ApplicationsKept
<1>11. Refunding'
  BY <1>0, <1>1, <1>2, Entering DEF RequestRefund, Held
<1> QED BY <1>4, <1>5, <1>7, <1>8, <1>9, <1>10, <1>11, Safe

(* Alone with the payment: what is paid out is what is about to be booked. *)
LEMMA PayBackSafe ==
  ASSUME IInv, NEW c \in Calls, PayBack(c)
  PROVE  IInv'
<1>0. /\ call[c].pc = "payback" /\ CallOK(c) /\ Booked /\ call[c].amount \in Nat /\ paidOut \in Nat /\ refunded \in Nat
  BY CallTyped, PaymentAssumption DEF PayBack, CallOK, CallRecords, IInv, TypeOK
<1>1. /\ UNCHANGED <<record, payment, refunded, charges, answers, applied, cut, raced, faults, started>>
      /\ Booked' = Booked
  BY DEF PayBack, history, Booked
<1>2. CASE UNCHANGED paidOut /\ Done(c)
  <2>1. Moves(c) /\ call'[c].pc = "idle"
    BY <1>2, DoneMoves
  <2>2. TypeOK'
    BY <1>1, <1>2, <2>1 DEF IInv, TypeOK, Moves, CallRecords
  <2> QED BY <1>0, <1>1, <1>2, <2>1, <2>2, FreeOK, Quiet DEF Serving, Working, Held
<1>3. CASE paidOut' = paidOut + call[c].amount /\ Goto(c, "bookRefund")
  <2>1. Moves(c) /\ call'[c].pc = "bookRefund" /\ call'[c].amount = call[c].amount
    BY <1>3, GotoMoves DEF Points
  <2>2. TypeOK'
    BY <1>0, <1>1, <1>3, <2>1 DEF IInv, TypeOK, Moves, CallRecords
  <2>3. CallOK(c)'
    BY <1>0, <1>1, <2>1 DEF CallOK, Working
  <2>4. "complete" \notin cut' => \A k \in Keys : Ending(k) => Ending(k)'
    BY <1>0, <1>1, <2>1, EndingKept
  <2>5. Keeps(c)
    BY <1>1, <2>1, <2>4, OthersKept DEF Keeps
  <2>6. OneServes' /\ Finished'
    BY <1>1, <2>1, OneServesKept, FinishedKept DEF Serving, Working
  <2>7. Creation'
    BY <1>0, <1>1, <2>5, CreationKept
  <2>8. Applications'
    BY <1>1, <2>5, ApplicationsKept
  <2>9. Refunding'
    <3> SUFFICES ASSUME ~raced, "bookRefund" \notin cut
                 PROVE  Refunding'
      BY <1>1 DEF Refunding
    <3>1. \A d \in Calls \ {c} : call[d].pc \notin Held /\ call'[d].pc \notin Held
      BY <1>0, <2>1, AloneHolding DEF Held, Moves
    <3>2. paidOut = refunded /\ refunded + call[c].amount <= Amount /\ refunded <= Amount
      BY <1>0, <3>1 DEF IInv, Refunding, Held
    <3>3. Holding' \subseteq {c}
      BY <3>1 DEF Holding, Held
    <3>4. ASSUME NEW d \in Calls
          PROVE  /\ call'[d].pc = "bookRefund" => paidOut' = refunded' + call'[d].amount
                 /\ call'[d].pc \in {"payback", "bookRefund"} => refunded' + call'[d].amount <= Amount
      <4>1. CASE d = c
        BY <1>1, <1>3, <2>1, <3>2, <4>1
      <4>2. CASE d # c
        BY <3>1, <4>2 DEF Held
      <4> QED BY <4>1, <4>2
    <3> QED BY <1>1, <2>1, <3>2, <3>3, <3>4 DEF Refunding
  <2> QED BY <2>2, <2>3, <2>5, <2>6, <2>7, <2>8, <2>9, Safe
<1> QED BY <1>2, <1>3 DEF PayBack

LEMMA BookRefundSafe ==
  ASSUME IInv, NEW c \in Calls, BookRefund(c)
  PROVE  IInv'
<1>0. /\ call[c].pc = "bookRefund" /\ CallOK(c) /\ Booked
      /\ call[c].amount \in Nat /\ paidOut \in Nat /\ refunded \in Nat
  BY CallTyped, PaymentAssumption DEF BookRefund, CallOK, CallRecords, IInv, TypeOK
<1>1. /\ UNCHANGED <<record, payment, paidOut, charges, answers, applied, cut, raced, faults, started>>
      /\ refunded' = refunded + call[c].amount
      /\ Booked' = Booked
  BY DEF BookRefund, processor, history, Booked
<1>2. Moves(c) /\ call'[c].pc \in {"reread", "idle"}
  <2>1. Goto(c, "reread") \/ Done(c)
    BY DEF BookRefund
  <2> QED BY <2>1, GotoMoves, DoneMoves DEF Points
<1>3. TypeOK'
  BY <1>0, <1>1, <1>2 DEF IInv, TypeOK, Moves, CallRecords
<1>4. CallOK(c)'
  BY <1>0, <1>1, <1>2 DEF CallOK, Working
<1>5. "complete" \notin cut' => \A k \in Keys : Ending(k) => Ending(k)'
  BY <1>0, <1>1, <1>2, EndingKept
<1>6. Keeps(c)
  BY <1>1, <1>2, <1>5, OthersKept DEF Keeps
<1>7. OneServes' /\ Finished'
  BY <1>1, <1>2, OneServesKept, FinishedKept DEF Serving, Working
<1>8. Creation'
  BY <1>0, <1>1, <1>6, CreationKept
<1>9. Applications'
  BY <1>1, <1>6, ApplicationsKept
<1>10. Refunding'
  <2> SUFFICES ASSUME ~raced, "bookRefund" \notin cut
               PROVE  Refunding'
    BY <1>1 DEF Refunding
  <2>1. \A d \in Calls \ {c} : call[d].pc \notin Held /\ call'[d].pc \notin Held
    BY <1>0, <1>2, AloneHolding DEF Held, Moves
  <2>2. paidOut = refunded + call[c].amount /\ refunded + call[c].amount <= Amount
    BY <1>0 DEF IInv, Refunding
  <2>3. \A d \in Calls : call'[d].pc \notin {"payback", "bookRefund"}
    BY <1>2, <2>1 DEF Held
  <2>4. Holding' \subseteq {c}
    BY <2>1 DEF Holding, Held
  <2> QED BY <1>1, <2>2, <2>3, <2>4 DEF Refunding
<1> QED BY <1>3, <1>4, <1>6, <1>7, <1>8, <1>9, <1>10, Safe

LEMMA RefundMovesSafe ==
  ASSUME IInv, NEW c \in Calls, ReadForRefund(c) \/ MoveByRefund(c)
  PROVE  IInv'
<1>0. call[c].pc \in {"reread", "moveRefund"} /\ Booked
  BY CallTyped DEF ReadForRefund, MoveByRefund, CallOK
<1>1. UNCHANGED <<record, refunded, paidOut, charges, answers, applied, cut, raced, faults, started>>
  BY DEF ReadForRefund, MoveByRefund, processor, history
<1>2. Moves(c) /\ call'[c].pc \in {"moveRefund", "idle"}
  <2>1. Goto(c, "moveRefund") \/ Done(c)
    BY DEF ReadForRefund, MoveByRefund
  <2> QED BY <2>1, GotoMoves, DoneMoves DEF Points
<1>3. payment' \in [status: Statuses, charge: Nat] /\ payment'.charge = payment.charge /\ Booked'
  BY <1>0 DEF ReadForRefund, MoveByRefund, RefundStatus, IInv, TypeOK, Statuses, Booked
<1>4. CallOK(c)'
  BY <1>2, <1>3 DEF CallOK, Working
<1>5. TypeOK'
  BY <1>1, <1>2, <1>3 DEF IInv, TypeOK, Moves, CallRecords
<1> QED BY <1>0, <1>1, <1>2, <1>3, <1>4, <1>5, Quiet DEF Serving, Working, Held

LEMMA FaultSafe ==
  ASSUME IInv, NEW c \in Calls, Fail(c) \/ Crash(c)
  PROVE  IInv'
<1>0. /\ call[c] \in CallRecords /\ CallOK(c) /\ faults \in Nat
  BY CallTyped, PaymentAssumption DEF IInv, TypeOK
<1>1. /\ UNCHANGED <<record, payment, refunded, paidOut, charges, answers, applied, raced, started>>
      /\ cut' = cut \cup {call[c].pc} /\ faults' = faults + 1 /\ faults' \in 0 .. MaxFaults
      /\ Booked' = Booked
  BY <1>0, PaymentAssumption DEF Fail, Crash, Fault, processor, Booked
<1>2. /\ Moves(c) /\ call'[c].pc \in {"undo", "idle"}
      /\ call'[c].pc = "undo" => call'[c].key = call[c].key /\ call[c].pc \in Working
  <2>1. (Goto(c, "undo") /\ call[c].pc \in Working) \/ Done(c)
    BY DEF Fail, Crash, InRun, Working
  <2> QED BY <2>1, GotoMoves, DoneMoves DEF Points
<1>3. CallOK(c)'
  BY <1>0, <1>1, <1>2 DEF CallOK, Working
<1>4. TypeOK'
  BY <1>0, <1>1, <1>2 DEF IInv, TypeOK, Moves, CallRecords
<1>5. /\ call'[c].pc \in Serving => call[c].pc \in Serving /\ call'[c].key = call[c].key
      /\ call'[c].pc \notin Held /\ call'[c].pc \notin {"payback", "bookRefund"}
      /\ call[c].pc = "complete" => "complete" \in cut'
      /\ call[c].pc = "book" => "book" \in cut' /\ faults' = faults + 1
      /\ call[c].pc = "bookRefund" => "bookRefund" \in cut'
      /\ cut \subseteq cut' /\ payment'.charge = payment.charge
  BY <1>1, <1>2 DEF Serving, Working, Held
<1> QED BY <1>1, <1>2, <1>3, <1>4, <1>5, Quiet

(* The update is made and taken for lost: it is undone later. *)
LEMMA LoseAnswerSafe ==
  ASSUME IInv, NEW c \in Calls, LoseAnswer(c)
  PROVE  IInv'
<1> DEFINE k == call[c].key
<1>0. call[c].pc = "complete" /\ CallOK(c) /\ call[c].id \in Nat /\ faults \in Nat
  BY CallTyped, PaymentAssumption DEF LoseAnswer, CallRecords, IInv, TypeOK
<1>1. Moves(c) /\ call'[c].pc = "undo" /\ call'[c].key = k
  BY GotoMoves DEF LoseAnswer, Points
<1>2. /\ k \in Keys
      /\ record' \in [Keys -> [status: {"NONE", "IN_PROGRESS", "COMPLETED", "FAILED"}, id: Nat, answer: Nat]]
      /\ record'[k].id = record[k].id /\ record'[k].status = "COMPLETED" /\ record'[k].answer = call[c].id
      /\ \A j \in Keys \ {k} : record'[j] = record[j]
  BY <1>0, CompletedFacts DEF LoseAnswer
<1>3. /\ UNCHANGED <<payment, refunded, charges, paidOut, answers, applied, raced, started>>
      /\ cut' = cut \cup {"complete"} /\ faults' = faults + 1 /\ faults' \in 0 .. MaxFaults
      /\ Booked' = Booked
  BY <1>0, PaymentAssumption DEF LoseAnswer, Fault, processor, Booked
<1>4. Others(c) /\ OneServes' /\ Finished'
  <2>1. call[c].pc \in Serving
    BY <1>0 DEF Serving, Working
  <2> QED BY <1>0, <1>1, <1>2, <1>3, <2>1, LastUpdate
<1>5. Keeps(c)
  BY <1>1, <1>3, <1>4 DEF Keeps
<1>6. CallOK(c)'
  BY <1>1, <1>2 DEF CallOK, Working
<1>7. TypeOK'
  BY <1>0, <1>1, <1>2, <1>3 DEF IInv, TypeOK, Moves, CallRecords, Points, InRun
<1>8. Creation'
  <2>1. record'[Create].status = "COMPLETED" => Booked' /\ record'[Create].answer = payment'.charge
    BY <1>0, <1>2, <1>3, KeysFacts DEF IInv, Creation, CallOK
  <2> QED BY <1>3, <2>1 DEF IInv, Creation
<1>9. Applications'
  BY <1>3 DEF Applications
<1>10. Refunding'
  BY <1>0, <1>1, <1>3, RefundingKept DEF Held
<1> QED BY <1>4, <1>5, <1>6, <1>7, <1>8, <1>9, <1>10, Safe

-----------------------------------------------------------------------------
(* The invariant.                                                          *)

LEMMA InitHolds == Init => IInv
<1> SUFFICES ASSUME Init PROVE IInv
  OBVIOUS
<1>1. \A c \in Calls : call[c].pc = "idle" /\ call[c].key = Create
  BY DEF Init, Idle
<1>2. \A k \in Keys : record[k].status = "NONE"
  BY DEF Init, NoRecord
<1>3. TypeOK
  <2>1. Idle \in [pc: Points, key: Keys, id: Nat, amount: 0 .. Amount, status: Statuses, balance: 0 .. Amount]
    BY KeysFacts, PaymentAssumption DEF Idle, Points, Statuses
  <2>2. NoRecord \in [status: {"NONE", "IN_PROGRESS", "COMPLETED", "FAILED"}, id: Nat, answer: Nat]
    BY DEF NoRecord
  <2>3. payment \in [status: Statuses, charge: Nat] /\ 0 \in 0 .. MaxCalls /\ 0 \in 0 .. MaxFaults
    BY PaymentAssumption DEF Init, Statuses
  <2> QED BY <2>1, <2>2, <2>3 DEF Init, TypeOK
<1>4. (\A c \in Calls : CallOK(c)) /\ OneServes /\ Finished
  BY <1>1 DEF CallOK, OneServes, Finished, Serving, Working
<1>5. Creation
  <2>1. ~Booked /\ Charged = 0 /\ answers = {} /\ charges = 0 /\ faults = 0
    BY <1>1 DEF Init, Booked, Charged
  <2> QED BY <1>2, <2>1, KeysFacts DEF Creation
<1>6. Applications
  BY DEF Init, Applications
<1>7. Refunding
  BY <1>1, PaymentAssumption DEF Init, Refunding, Holding
<1> QED BY <1>3, <1>4, <1>5, <1>6, <1>7 DEF IInv

LEMMA NextSafe == IInv /\ [Next]_vars => IInv'
<1> SUFFICES ASSUME IInv, [Next]_vars PROVE IInv'
  OBVIOUS
<1>1. CASE UNCHANGED vars
  BY <1>1 DEF vars, processor, history, IInv, TypeOK, CallOK, OneServes, Finished, Creation, Applications,
     Refunding, Booked, Charged, Ending, Holding
<1>2. ASSUME NEW c \in Calls, Run(c) \/ CreatePayment(c) PROVE IInv'
  BY <1>2, LookSafe, ClearSafe, ClaimSafe, CompleteSafe, UndoSafe, ChargeSafe, BookSafe DEF Run, CreatePayment
<1>3. ASSUME NEW c \in Calls, HandleWebhook(c) \/ RefundPayment(c) PROVE IInv'
  BY <1>3, ReadForEventSafe, MoveByEventSafe, PayBackSafe, BookRefundSafe, RefundMovesSafe
     DEF HandleWebhook, RefundPayment
<1>4. ASSUME NEW c \in Calls, Fail(c) \/ Crash(c) \/ LoseAnswer(c) PROVE IInv'
  BY <1>4, FaultSafe, LoseAnswerSafe
<1> QED BY <1>1, <1>2, <1>3, <1>4, RequestSafe, RequestRefundSafe DEF Next

THEOREM Invariance == Spec => []IInv
<1>1. Init => IInv
  BY InitHolds
<1>2. IInv /\ [Next]_vars => IInv'
  BY NextSafe
<1> QED BY <1>1, <1>2, PTL DEF Spec

-----------------------------------------------------------------------------
(* The results.                                                            *)

(* Records, requests and the payment keep the values the code gives them   *)
(* (idempotency.service.ts, payment.service.ts).                           *)
THEOREM TypeCorrect == Spec => []TypeOK
<1>1. IInv => TypeOK
  BY DEF IInv
<1> QED BY <1>1, Invariance, PTL

(* Any number of requests with one key charge once, but for faults between *)
(* the charge, the row and the answer (payment.service.ts:112-212).        *)
THEOREM OneKeyOneCharge == Spec => []ChargedOnce
<1>1. ASSUME IInv PROVE ChargedOnce
  <2>1. Charged \in {0, 1} /\ charges \in Nat /\ faults \in Nat
    BY <1>1, PaymentAssumption DEF Charged, IInv, TypeOK
  <2>2. (IF Booked THEN 1 ELSE Charged) \in {0, 1}
    BY <2>1
  <2>3. /\ "complete" \notin cut => charges <= faults + IF Booked THEN 1 ELSE Charged
        /\ cut \cap {"book", "complete"} = {} => charges <= IF Booked THEN 1 ELSE Charged
    BY <1>1 DEF IInv, Creation
  <2> QED BY <2>1, <2>2, <2>3 DEF ChargedOnce
<1> QED BY <1>1, Invariance, PTL

(* All answers to one key name the booked charge, whatever failed before   *)
(* (idempotency.service.ts:41-124).                                        *)
THEOREM OneKeyOneAnswer == Spec => []AnswersAgree
<1>1. IInv => AnswersAgree
  BY DEF IInv, Creation, AnswersAgree
<1> QED BY <1>1, Invariance, PTL

(* An event that is delivered again changes nothing, unless the answer to  *)
(* the record's last update was lost (payment.service.ts:263-323).         *)
THEOREM EventsOnce == Spec => []EventsApplyOnce
<1>1. IInv => EventsApplyOnce
  BY DEF IInv, Applications, EventsApplyOnce
<1> QED BY <1>1, Invariance, PTL

(* Refunds one after the other never exceed the payment, for any number of *)
(* them (payment.service.ts:325-421).                                      *)
THEOREM RefundsAreBounded == Spec => []RefundedWithinAmount
<1>1. ASSUME IInv PROVE RefundedWithinAmount
  <2> SUFFICES ASSUME ~raced, "bookRefund" \notin cut PROVE paidOut <= Amount
    BY DEF RefundedWithinAmount
  <2>1. CASE \A c \in Calls : call[c].pc # "bookRefund"
    BY <1>1, <2>1 DEF IInv, Refunding
  <2>2. CASE \E c \in Calls : call[c].pc = "bookRefund"
    BY <1>1, <2>2 DEF IInv, Refunding
  <2> QED BY <2>1, <2>2
<1> QED BY <1>1, Invariance, PTL

-----------------------------------------------------------------------------
(* What the status says of the refunds.  While one request at a time works *)
(* on the payment, what it read of it is still so when it writes: a refund *)
(* finds the balance and the status it started from, an event the status   *)
(* from which it leads.  Between a refund's row and its move the status is *)
(* behind the rows, and nobody else is there to see it.                    *)

Clean == ~raced /\ cut \cap {"bookRefund", "reread", "moveRefund"} = {}

Tells ==
    /\ payment.status = "REFUNDED" <=> refunded = Amount
    /\ payment.status = "PARTIALLY_REFUNDED" <=> refunded \in 1 .. Amount - 1

InHand(c) ==
    /\ call[c].pc = "move" => AssertTransition(payment.status, WEBHOOK_EVENT_TO_STATUS[call[c].key])
    /\ call[c].pc \in {"payback", "bookRefund", "reread", "moveRefund"} =>
          /\ call[c].amount >= 1
          /\ call[c].status = payment.status
          /\ payment.status \in {"SETTLED", "PARTIALLY_REFUNDED"}
    /\ call[c].pc \in {"payback", "bookRefund"} => call[c].balance = Amount - refunded
    /\ call[c].pc \in {"reread", "moveRefund"} =>
          /\ call[c].balance - call[c].amount = Amount - refunded
          /\ call[c].balance = call[c].amount \/ call[c].status = "SETTLED"

StatusInv ==
    /\ \A c \in Calls : call[c].pc = "book" => call[c].status \in {"AUTHORIZED", "FAILED"}
    /\ Clean =>
          /\ \A c \in Calls : InHand(c)
          /\ (\A c \in Calls : call[c].pc \notin {"reread", "moveRefund"}) => Tells

LEMMA CleanBefore ==
  ASSUME raced => raced', cut \subseteq cut', Clean'
  PROVE  Clean
BY DEF Clean

(* A step that writes neither the payment nor a row. *)
LEMMA ReadingKeepsStatus ==
  ASSUME IInv, StatusInv, NEW c \in Calls, Moves(c),
         UNCHANGED <<payment, refunded>>, raced => raced', cut \subseteq cut',
         call'[c].pc = "book" => call'[c].status \in {"AUTHORIZED", "FAILED"},
         Clean /\ Clean' => InHand(c)',
         Clean /\ Clean' /\ call[c].pc \in {"reread", "moveRefund"} =>
            call'[c].pc \in {"reread", "moveRefund"}
  PROVE  StatusInv'
<1>1. ASSUME NEW d \in Calls, call'[d].pc = "book" PROVE call'[d].status \in {"AUTHORIZED", "FAILED"}
  BY <1>1 DEF Moves, StatusInv
<1>2. ASSUME Clean', NEW d \in Calls PROVE InHand(d)'
  <2>1. Clean
    BY <1>2, CleanBefore
  <2>2. CASE d = c
    BY <1>2, <2>1, <2>2
  <2>3. CASE d # c
    <3>1. call'[d] = call[d]
      BY <2>3 DEF Moves
    <3>2. InHand(d)
      BY <2>1 DEF StatusInv
    <3> QED BY <3>1, <3>2 DEF InHand
  <2> QED BY <2>2, <2>3
<1>3. ASSUME Clean', \A d \in Calls : call'[d].pc \notin {"reread", "moveRefund"} PROVE Tells'
  <2>1. Clean
    BY <1>3, CleanBefore
  <2>2. \A d \in Calls : call[d].pc \notin {"reread", "moveRefund"}
    BY <1>3, <2>1 DEF Moves
  <2>3. Tells
    BY <2>1, <2>2 DEF StatusInv
  <2> QED BY <2>3 DEF Tells
<1> QED BY <1>1, <1>2, <1>3 DEF StatusInv

(* A step that writes is made by a request alone with the payment. *)
LEMMA WritingKeepsStatus ==
  ASSUME IInv, StatusInv, NEW c \in Calls, Moves(c),
         call'[c].pc # "book",
         Clean' => \A d \in Calls \ {c} : call[d].pc \notin Held,
         Clean' => InHand(c)',
         Clean' /\ call'[c].pc \notin {"reread", "moveRefund"} => Tells'
  PROVE  StatusInv'
<1>1. ASSUME NEW d \in Calls, call'[d].pc = "book" PROVE call'[d].status \in {"AUTHORIZED", "FAILED"}
  BY <1>1 DEF Moves, StatusInv
<1>2. ASSUME Clean', NEW d \in Calls PROVE InHand(d)'
  <2>1. CASE d = c
    BY <1>2, <2>1
  <2>2. CASE d # c
    <3>1. call'[d].pc \notin Held
      BY <1>2, <2>2 DEF Moves
    <3> QED BY <3>1 DEF InHand, Held
  <2> QED BY <2>1, <2>2
<1> QED BY <1>1, <1>2 DEF StatusInv

(* A request outside of its hold has nothing in hand. *)
LEMMA NothingInHand ==
  ASSUME NEW c \in Calls, call'[c].pc \notin Held
  PROVE  InHand(c)'
BY DEF InHand, Held

LEMMA StatusFacts ==
  ASSUME IInv
  PROVE  /\ refunded \in Nat /\ Amount \in Nat /\ Amount >= 1
         /\ payment \in [status: Statuses, charge: Nat]
         /\ Clean => refunded <= Amount
         /\ \A c \in Calls : call[c].amount \in 0 .. Amount /\ call[c].balance \in 0 .. Amount
BY CallTyped, PaymentAssumption DEF IInv, TypeOK, CallRecords, Refunding, Clean

LEMMA AloneWhenClean ==
  ASSUME IInv, NEW c \in Calls, Clean, call[c].pc \in Held
  PROVE  \A d \in Calls \ {c} : call[d].pc \notin Held
BY AloneHolding DEF Clean

(* Before anything is refunded the status says neither, and the rows none. *)
LEMMA TellsNothing ==
  ASSUME IInv, Clean, Tells, payment.status \notin {"REFUNDED", "PARTIALLY_REFUNDED"}
  PROVE  refunded = 0
<1>1. refunded # Amount /\ refunded \notin 1 .. Amount - 1
  BY DEF Tells
<1> QED BY <1>1, StatusFacts

-----------------------------------------------------------------------------
(* Again a lemma for each kind of action.                                  *)

(* Run's own steps hold nothing of the payment. *)
LEMMA RunKeepsStatus ==
  ASSUME IInv, StatusInv, NEW c \in Calls, Run(c)
  PROVE  StatusInv'
<1>1. /\ Moves(c) /\ call'[c].pc \notin Held \cup {"book"}
      /\ call[c].pc \notin {"reread", "moveRefund"}
      /\ UNCHANGED <<payment, refunded, raced, cut>>
  <2>1. CASE Look(c)
    <3>1. CASE call' = [call EXCEPT ![c].pc = "clear", ![c].id = record[call[c].key].id]
      <4>1. call[c].key \in Keys
        BY CallTyped DEF CallRecords
      <4>2. record[call[c].key].id \in Nat
        BY <4>1 DEF IInv, TypeOK
      <4> QED BY <2>1, <3>1, <4>2, CallTyped DEF Moves, CallRecords, Points, Held, Look
    <3>2. CASE Goto(c, "claim") \/ Done(c)
      BY <2>1, <3>2, GotoMoves, DoneMoves DEF Look, Points, Held
    <3> QED BY <2>1, <3>1, <3>2 DEF Look
  <2>2. CASE Clear(c)
    <3>1. Goto(c, "claim") \/ Done(c)
      BY <2>2 DEF Clear
    <3> QED BY <2>2, <3>1, GotoMoves, DoneMoves DEF Clear, Points, Held, history
  <2>3. CASE Claim(c)
    <3>1. Goto(c, "charge") \/ Goto(c, "read") \/ Done(c)
      BY <2>3 DEF Claim
    <3> QED BY <2>3, <3>1, GotoMoves, DoneMoves DEF Claim, Points, InRun, Held, history
  <2>4. CASE Complete(c)
    BY <2>4, DoneMoves DEF Complete, Held
  <2>5. CASE Undo(c)
    BY <2>5, DoneMoves DEF Undo, Held, history
  <2> QED BY <2>1, <2>2, <2>3, <2>4, <2>5 DEF Run
<1>2. InHand(c)'
  BY <1>1, NothingInHand
<1> QED BY <1>1, <1>2, ReadingKeepsStatus

LEMMA RequestKeepsStatus ==
  ASSUME IInv, StatusInv, NEW c \in Calls, NEW k \in Keys, Request(c, k)
  PROVE  StatusInv'
<1>1. /\ Moves(c) /\ call[c].pc = "idle" /\ call'[c].pc = "look"
      /\ UNCHANGED <<payment, refunded, raced, cut>>
  BY CallTyped DEF Request, Start, Moves, CallRecords, Points
<1>2. InHand(c)'
  BY <1>1, NothingInHand DEF Held
<1> QED BY <1>1, <1>2, ReadingKeepsStatus

LEMMA ChargeKeepsStatus ==
  ASSUME IInv, StatusInv, NEW c \in Calls, Charge(c)
  PROVE  StatusInv'
<1>1. /\ Moves(c) /\ call[c].pc = "charge"
      /\ call'[c].pc = "book" /\ call'[c].status \in {"AUTHORIZED", "FAILED"}
      /\ UNCHANGED <<payment, refunded, raced, cut>>
  <2>1. PICK status \in {"AUTHORIZED", "FAILED"} :
           call' = [call EXCEPT ![c].pc = "book", ![c].status = status, ![c].id = charges + 1]
    BY DEF Charge
  <2>2. charges + 1 \in Nat /\ status \in Statuses /\ "book" \in Points
    BY DEF IInv, TypeOK, Statuses, WEBHOOK_EVENT_TO_STATUS, Points, InRun
  <2>3. call'[c].pc = "book" /\ call'[c].status = status
    BY <2>1, CallTyped DEF CallRecords
  <2>4. Moves(c)
    BY <2>1, <2>2, CallTyped DEF Moves, CallRecords
  <2> QED BY <2>3, <2>4 DEF Charge, history
<1>2. InHand(c)'
  BY <1>1, NothingInHand DEF Held
<1> QED BY <1>1, <1>2, ReadingKeepsStatus

(* The row is new: nobody can hold anything of it. *)
LEMMA BookKeepsStatus ==
  ASSUME IInv, StatusInv, NEW c \in Calls, Book(c)
  PROVE  StatusInv'
<1>1. /\ Moves(c) /\ call[c].pc = "book" /\ call'[c].pc \in {"complete", "undo"}
      /\ UNCHANGED <<refunded, raced, cut>>
  BY GotoMoves DEF Book, Points, InRun, history
<1>2. InHand(c)'
  BY <1>1, NothingInHand DEF Held
<1>3. CASE UNCHANGED payment
  BY <1>1, <1>2, <1>3, ReadingKeepsStatus
<1>4. CASE payment.status = "NONE" /\ payment' = [status |-> call[c].status, charge |-> call[c].id]
  <2>1. \A d \in Calls : call[d].pc \notin Held
    BY <1>4 DEF IInv, CallOK, Booked, Held
  <2>2. payment'.status \in {"AUTHORIZED", "FAILED"}
    BY <1>1, <1>4 DEF StatusInv
  <2>3. ASSUME Clean' PROVE Tells'
    <3>1. Clean
      BY <1>1, <2>3, CleanBefore
    <3>2. Tells
      BY <2>1, <3>1 DEF StatusInv, Held
    <3>3. refunded' = 0
      BY <1>1, <1>4, <3>1, <3>2, TellsNothing
    <3> QED BY <2>2, <3>3, StatusFacts DEF Tells
  <2> QED BY <1>1, <1>2, <2>1, <2>3, WritingKeepsStatus
<1> QED BY <1>3, <1>4 DEF Book

LEMMA ReadForEventKeepsStatus ==
  ASSUME IInv, StatusInv, NEW c \in Calls, ReadForEvent(c)
  PROVE  StatusInv'
<1>1. /\ call[c].pc = "read" /\ UNCHANGED <<payment, refunded, cut>>
      /\ raced => raced'
  BY DEF ReadForEvent, Race
<1>2. /\ Moves(c) /\ call'[c].key = call[c].key
      /\ \/ call'[c].pc = "undo"
         \/ /\ call'[c].pc = "move"
            /\ AssertTransition(payment.status, WEBHOOK_EVENT_TO_STATUS[call[c].key])
  <2>1. \/ Goto(c, "undo")
        \/ Goto(c, "move") /\ AssertTransition(payment.status, WEBHOOK_EVENT_TO_STATUS[call[c].key])
    BY DEF ReadForEvent
  <2> QED BY <2>1, GotoMoves DEF Points, InRun
<1>3. InHand(c)'
  BY <1>1, <1>2 DEF InHand, AssertTransition
<1> QED BY <1>1, <1>2, <1>3, ReadingKeepsStatus

(* No event leads from or to a status that tells of refunds. *)
LEMMA EventsLeaveRefunds ==
  ASSUME NEW e \in Events, NEW from, AssertTransition(from, WEBHOOK_EVENT_TO_STATUS[e])
  PROVE  /\ from \notin {"REFUNDED", "PARTIALLY_REFUNDED"}
         /\ WEBHOOK_EVENT_TO_STATUS[e] \notin {"REFUNDED", "PARTIALLY_REFUNDED"}
<1>1. WEBHOOK_EVENT_TO_STATUS[e] \in
         {"PROCESSING", "SUCCEEDED", "SETTLED", "FAILED", "DISPUTED", "REVERSED"}
  BY PaymentAssumption DEF WEBHOOK_EVENT_TO_STATUS
<1> QED BY <1>1 DEF AssertTransition, PAYMENT_TRANSITIONS

LEMMA MoveByEventKeepsStatus ==
  ASSUME IInv, StatusInv, NEW c \in Calls, MoveByEvent(c)
  PROVE  StatusInv'
<1>1. /\ call[c].pc = "move" /\ call[c].pc \in Held /\ call[c].key \in Events
      /\ UNCHANGED <<refunded, raced, cut>>
      /\ payment' = [payment EXCEPT !.status = WEBHOOK_EVENT_TO_STATUS[call[c].key]]
  BY CallTyped DEF MoveByEvent, CallOK, CallRecords, Keys, Held
<1>2. Moves(c) /\ call'[c].pc = "complete"
  BY GotoMoves DEF MoveByEvent, Points, InRun
<1>3. InHand(c)'
  BY <1>2, NothingInHand DEF Held
<1>4. ASSUME Clean'
      PROVE  Clean /\ \A d \in Calls \ {c} : call[d].pc \notin Held
  BY <1>1, <1>4, CleanBefore, AloneWhenClean
<1>5. ASSUME Clean' PROVE Tells'
  <2>1. Clean /\ \A d \in Calls : call[d].pc \notin {"reread", "moveRefund"}
    BY <1>1, <1>4, <1>5 DEF Held
  <2>2. Tells /\ AssertTransition(payment.status, WEBHOOK_EVENT_TO_STATUS[call[c].key])
    BY <1>1, <2>1 DEF StatusInv, InHand
  <2>3. /\ payment.status \notin {"REFUNDED", "PARTIALLY_REFUNDED"}
        /\ WEBHOOK_EVENT_TO_STATUS[call[c].key] \notin {"REFUNDED", "PARTIALLY_REFUNDED"}
    BY <1>1, <2>2, EventsLeaveRefunds
  <2>4. refunded = 0
    BY <2>1, <2>2, <2>3, TellsNothing
  <2>5. payment'.status \notin {"REFUNDED", "PARTIALLY_REFUNDED"}
    BY <1>1, <2>3, StatusFacts
  <2> QED BY <1>1, <2>4, <2>5, StatusFacts DEF Tells
<1> QED BY <1>2, <1>3, <1>4, <1>5, WritingKeepsStatus

LEMMA RequestRefundKeepsStatus ==
  ASSUME IInv, StatusInv, NEW c \in Calls, NEW amount \in 1 .. Amount, RequestRefund(c, amount)
  PROVE  StatusInv'
<1>1. /\ call[c].pc = "idle" /\ UNCHANGED <<payment, refunded, cut>>
      /\ payment.status \in {"SETTLED", "PARTIALLY_REFUNDED"}
      /\ raced => raced'
  BY CallTyped DEF RequestRefund, Start, Race
<1>2. /\ refunded + amount <= Amount /\ amount \in 1 .. Amount
      /\ Amount - refunded \in 0 .. Amount
  BY StatusFacts DEF RequestRefund, Exceeds
<1>3. /\ Moves(c) /\ call'[c].pc = "payback" /\ call'[c].amount = amount
      /\ call'[c].status = payment.status /\ call'[c].balance = Amount - refunded
  <2> DEFINE r == [Idle EXCEPT !.pc = "payback", !.amount = amount, !.status = payment.status,
                               !.balance = Amount - refunded]
  <2>1. /\ r \in CallRecords /\ r.pc = "payback" /\ r.amount = amount
        /\ r.status = payment.status /\ r.balance = Amount - refunded
    <3>1. amount \in 0 .. Amount /\ payment.status \in Statuses
      BY <1>2, StatusFacts
    <3>2. r \in CallRecords /\ r.pc = "payback" /\ r.amount = amount
      BY <1>2, <3>1, RefundRecord
    <3>3. r.status = payment.status /\ r.balance = Amount - refunded
      BY DEF Idle
    <3> QED BY <3>2, <3>3
  <2>2. call' = [call EXCEPT ![c] = r]
    BY DEF RequestRefund
  <2> HIDE DEF r
  <2> QED BY <2>1, <2>2, CallTyped DEF Moves
<1>4. InHand(c)'
  BY <1>1, <1>2, <1>3 DEF InHand
<1> QED BY <1>1, <1>3, <1>4, ReadingKeepsStatus

LEMMA PayBackKeepsStatus ==
  ASSUME IInv, StatusInv, NEW c \in Calls, PayBack(c)
  PROVE  StatusInv'
<1>1. call[c].pc = "payback" /\ UNCHANGED <<payment, refunded, raced, cut>>
  BY DEF PayBack, history
<1>2. CASE Done(c)
  <2>1. Moves(c) /\ call'[c].pc = "idle"
    BY <1>2, DoneMoves
  <2>2. InHand(c)'
    BY <2>1, NothingInHand DEF Held
  <2> QED BY <1>1, <2>1, <2>2, ReadingKeepsStatus
<1>3. CASE Goto(c, "bookRefund")
  <2>1. /\ Moves(c) /\ call'[c].pc = "bookRefund" /\ call'[c].amount = call[c].amount
        /\ call'[c].status = call[c].status /\ call'[c].balance = call[c].balance
    BY <1>3, GotoMoves DEF Points
  <2>2. Clean => InHand(c)
    BY DEF StatusInv
  <2>3. Clean => InHand(c)'
    BY <1>1, <2>1, <2>2 DEF InHand
  <2> QED BY <1>1, <2>1, <2>3, ReadingKeepsStatus
<1> QED BY <1>2, <1>3 DEF PayBack

(* The row is booked: either the status has to follow, or a part was       *)
(* refunded before and a part is left.                                     *)
LEMMA BookRefundKeepsStatus ==
  ASSUME IInv, StatusInv, NEW c \in Calls, BookRefund(c)
  PROVE  StatusInv'
<1>1. /\ call[c].pc = "bookRefund" /\ call[c].pc \in Held
      /\ UNCHANGED <<payment, raced, cut>> /\ refunded' = refunded + call[c].amount
  BY DEF BookRefund, processor, history, Held
<1>2. /\ Moves(c)
      /\ \/ /\ call[c].balance = call[c].amount \/ call[c].status = "SETTLED"
            /\ call'[c].pc = "reread" /\ call'[c].amount = call[c].amount
            /\ call'[c].status = call[c].status /\ call'[c].balance = call[c].balance
         \/ /\ call[c].balance # call[c].amount /\ call[c].status # "SETTLED"
            /\ call'[c].pc = "idle"
  <2>1. CASE call[c].balance = call[c].amount \/ call[c].status = "SETTLED"
    <3>1. Goto(c, "reread")
      BY <2>1 DEF BookRefund
    <3> QED BY <2>1, <3>1, GotoMoves DEF Points
  <2>2. CASE ~(call[c].balance = call[c].amount \/ call[c].status = "SETTLED")
    <3>1. Done(c)
      BY <2>2 DEF BookRefund
    <3> QED BY <2>2, <3>1, DoneMoves
  <2> QED BY <2>1, <2>2
<1>3. ASSUME Clean'
      PROVE  Clean /\ \A d \in Calls \ {c} : call[d].pc \notin Held
  BY <1>1, <1>3, CleanBefore, AloneWhenClean
<1>4. ASSUME Clean'
      PROVE  /\ call[c].amount \in 1 .. Amount /\ call[c].status = payment.status
             /\ payment.status \in {"SETTLED", "PARTIALLY_REFUNDED"}
             /\ call[c].balance = Amount - refunded
             /\ refunded + call[c].amount <= Amount
             /\ Tells
  <2>1. InHand(c) /\ Clean /\ \A d \in Calls : call[d].pc \notin {"reread", "moveRefund"}
    BY <1>1, <1>3, <1>4 DEF StatusInv, Held
  <2>2. refunded + call[c].amount <= Amount
    BY <1>1, <2>1 DEF IInv, Refunding, Clean
  <2>3. Tells
    BY <2>1 DEF StatusInv
  <2> QED BY <1>1, <2>1, <2>2, <2>3, StatusFacts DEF InHand
<1>5. ASSUME Clean' PROVE InHand(c)'
  <2>1. CASE call'[c].pc = "idle"
    BY <2>1, NothingInHand DEF Held
  <2>2. CASE call'[c].pc = "reread"
    <3>1. /\ call'[c].amount = call[c].amount /\ call'[c].status = call[c].status
          /\ call'[c].balance = call[c].balance
          /\ call'[c].balance = call'[c].amount \/ call'[c].status = "SETTLED"
      BY <1>2, <2>2
    <3>2. call'[c].amount >= 1 /\ call'[c].balance - call'[c].amount = Amount - refunded'
      BY <1>1, <1>4, <1>5, <3>1, StatusFacts
    <3>3. call'[c].status = payment'.status /\ payment'.status \in {"SETTLED", "PARTIALLY_REFUNDED"}
      BY <1>1, <1>4, <1>5, <3>1
    <3> QED BY <2>2, <3>1, <3>2, <3>3 DEF InHand
  <2> QED BY <1>2, <2>1, <2>2
<1>6. ASSUME Clean', call'[c].pc \notin {"reread", "moveRefund"} PROVE Tells'
  <2>1. payment.status = "PARTIALLY_REFUNDED" /\ call[c].balance # call[c].amount
    BY <1>2, <1>4, <1>6
  <2>2. refunded \in 1 .. Amount - 1
    BY <1>4, <1>6, <2>1 DEF Tells
  <2>3. refunded' \in 1 .. Amount - 1
    BY <1>1, <1>4, <1>6, <2>1, <2>2, StatusFacts
  <2> QED BY <1>1, <2>1, <2>3, StatusFacts DEF Tells
<1> QED BY <1>2, <1>3, <1>5, <1>6, WritingKeepsStatus

(* The refund's own transition is always allowed: the status is the one it *)
(* started from.                                                           *)
LEMMA ReadForRefundKeepsStatus ==
  ASSUME IInv, StatusInv, NEW c \in Calls, ReadForRefund(c)
  PROVE  StatusInv'
<1>1. call[c].pc = "reread" /\ UNCHANGED <<payment, refunded, raced, cut>>
  BY DEF ReadForRefund, history
<1>2. CASE Clean
  <2>1. InHand(c)
    BY <1>2 DEF StatusInv
  <2>2. AssertTransition(payment.status, RefundStatus(c))
    BY <1>1, <2>1 DEF InHand, AssertTransition, PAYMENT_TRANSITIONS, RefundStatus
  <2>3. Goto(c, "moveRefund")
    BY <2>2 DEF ReadForRefund
  <2>4. /\ Moves(c) /\ call'[c].pc = "moveRefund" /\ call'[c].amount = call[c].amount
        /\ call'[c].status = call[c].status /\ call'[c].balance = call[c].balance
    BY <2>3, GotoMoves DEF Points
  <2>5. InHand(c)'
    BY <1>1, <2>1, <2>4 DEF InHand
  <2> QED BY <1>1, <2>4, <2>5, ReadingKeepsStatus
<1>3. CASE ~Clean
  <2>1. Moves(c) /\ call'[c].pc # "book"
    <3>1. Goto(c, "moveRefund") \/ Done(c)
      BY DEF ReadForRefund
    <3> QED BY <3>1, GotoMoves, DoneMoves DEF Points
  <2> QED BY <1>1, <1>3, <2>1, ReadingKeepsStatus
<1> QED BY <1>2, <1>3

(* With its move the status has caught up with the rows. *)
LEMMA MoveByRefundKeepsStatus ==
  ASSUME IInv, StatusInv, NEW c \in Calls, MoveByRefund(c)
  PROVE  StatusInv'
<1>1. /\ call[c].pc = "moveRefund" /\ call[c].pc \in Held
      /\ UNCHANGED <<refunded, raced, cut>>
      /\ payment' = [payment EXCEPT !.status = RefundStatus(c)]
  BY DEF MoveByRefund, history, Held
<1>2. Moves(c) /\ call'[c].pc = "idle"
  BY DoneMoves DEF MoveByRefund
<1>3. InHand(c)'
  BY <1>2, NothingInHand DEF Held
<1>4. ASSUME Clean'
      PROVE  Clean /\ \A d \in Calls \ {c} : call[d].pc \notin Held
  BY <1>1, <1>4, CleanBefore, AloneWhenClean
<1>5. ASSUME Clean' PROVE Tells'
  <2>1. InHand(c) /\ Clean
    BY <1>4, <1>5 DEF StatusInv
  <2>2. /\ call[c].amount >= 1
        /\ call[c].balance - call[c].amount = Amount - refunded
    BY <1>1, <2>1 DEF InHand
  <2>3. payment'.status = RefundStatus(c)
    BY <1>1, StatusFacts
  <2>4. CASE call[c].balance = call[c].amount
    <3>1. payment'.status = "REFUNDED"
      BY <2>3, <2>4 DEF RefundStatus
    <3>2. refunded' = Amount
      BY <1>1, <2>2, <2>4, StatusFacts
    <3> QED BY <3>1, <3>2, StatusFacts DEF Tells
  <2>5. CASE call[c].balance # call[c].amount
    <3>1. payment'.status = "PARTIALLY_REFUNDED"
      BY <2>3, <2>5 DEF RefundStatus
    <3>2. refunded <= Amount /\ call[c].balance <= Amount
      BY <2>1, StatusFacts
    <3>3. refunded' \in 1 .. Amount - 1
      BY <1>1, <2>2, <2>5, <3>2, StatusFacts
    <3> QED BY <3>1, <3>3, StatusFacts DEF Tells
  <2> QED BY <2>4, <2>5
<1> QED BY <1>2, <1>3, <1>4, <1>5, WritingKeepsStatus

LEMMA FaultKeepsStatus ==
  ASSUME IInv, StatusInv, NEW c \in Calls, Fail(c) \/ Crash(c) \/ LoseAnswer(c)
  PROVE  StatusInv'
<1>1. /\ UNCHANGED <<payment, refunded, raced>> /\ cut' = cut \cup {call[c].pc}
  BY DEF Fail, Crash, LoseAnswer, Fault
<1>2. Moves(c) /\ call'[c].pc \in {"undo", "idle"}
  <2>1. Goto(c, "undo") \/ Done(c)
    BY DEF Fail, Crash, LoseAnswer
  <2> QED BY <2>1, GotoMoves, DoneMoves DEF Points
<1>3. InHand(c)'
  BY <1>2, NothingInHand DEF Held
<1>4. Clean' => call[c].pc \notin {"reread", "moveRefund"}
  BY <1>1 DEF Clean
<1> QED BY <1>1, <1>2, <1>3, <1>4, ReadingKeepsStatus

LEMMA StatusNext == IInv /\ StatusInv /\ [Next]_vars => StatusInv'
<1> SUFFICES ASSUME IInv, StatusInv, [Next]_vars PROVE StatusInv'
  OBVIOUS
<1>1. CASE UNCHANGED vars
  BY <1>1 DEF vars, history, StatusInv, Clean, Tells, InHand, AssertTransition
<1>2. ASSUME NEW c \in Calls, Run(c) \/ CreatePayment(c) \/ HandleWebhook(c) \/ RefundPayment(c)
      PROVE  StatusInv'
  BY <1>2, RunKeepsStatus, ChargeKeepsStatus, BookKeepsStatus, ReadForEventKeepsStatus,
     MoveByEventKeepsStatus, PayBackKeepsStatus, BookRefundKeepsStatus, ReadForRefundKeepsStatus,
     MoveByRefundKeepsStatus DEF CreatePayment, HandleWebhook, RefundPayment
<1> QED BY <1>1, <1>2, RequestKeepsStatus, RequestRefundKeepsStatus, FaultKeepsStatus DEF Next

LEMMA StatusInit == Init => StatusInv
<1> SUFFICES ASSUME Init PROVE StatusInv
  OBVIOUS
<1>1. \A c \in Calls : call[c].pc = "idle"
  BY DEF Init, Idle
<1>2. Tells
  BY PaymentAssumption DEF Init, Tells
<1> QED BY <1>1, <1>2 DEF StatusInv, InHand

(* Where refunds and events came one after the other and no fault hit      *)
(* between a payout and the move of the status, the status of the payment  *)
(* says whether nothing, a part or all of it was paid back                 *)
(* (payment.service.ts:325-421).                                           *)
THEOREM StatusTells == Spec => []StatusTellsRefunds
<1>1. Init => IInv /\ StatusInv
  BY InitHolds, StatusInit
<1>2. IInv /\ StatusInv /\ [Next]_vars => (IInv /\ StatusInv)'
  BY NextSafe, StatusNext
<1>3. ASSUME IInv, StatusInv PROVE StatusTellsRefunds
  <2> SUFFICES ASSUME \A c \in Calls : call[c] = Idle, Clean
               PROVE  refunded = paidOut /\ Tells
    BY DEF StatusTellsRefunds, Clean, Tells
  <2>1. \A c \in Calls : call[c].pc = "idle"
    BY DEF Idle
  <2>2. refunded = paidOut
    BY <1>3, <2>1 DEF IInv, Refunding, Clean
  <2>3. Tells
    BY <1>3, <2>1 DEF StatusInv
  <2> QED BY <2>2, <2>3
<1> QED BY <1>1, <1>2, <1>3, PTL DEF Spec
=============================================================================
