-------------------------- MODULE AtLeastOnceDelivery --------------------------
(***************************************************************************)
(* What the outbox, the topic and the inbox promise together: an event     *)
(* takes effect only after the transaction that wrote it committed, and    *)
(* every deliverable event takes effect in the end.  Nothing is promised   *)
(* about repetitions or order.                                             *)
(***************************************************************************)
CONSTANTS
    Events,
    Undeliverable  \* events the broker refuses

VARIABLES
    written,   \* events whose transaction committed
    effective  \* events whose handler has done all its writes at least once

vars == <<written, effective>>

Init == written = {} /\ effective = {}

Write(e) ==
    /\ e \notin written
    /\ written' = written \cup {e}
    /\ UNCHANGED effective

TakeEffect(e) ==
    /\ e \in written \ effective
    /\ effective' = effective \cup {e}
    /\ UNCHANGED written

Next == \E e \in Events : Write(e) \/ TakeEffect(e)

(* What may happen, and what must. *)
Safety == Init /\ [][Next]_vars

Fairness == \A e \in Events \ Undeliverable : WF_vars(TakeEffect(e))

Spec == Safety /\ Fairness
=============================================================================
