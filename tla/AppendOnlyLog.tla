--------------------------- MODULE AppendOnlyLog ---------------------------
(***************************************************************************)
(* What the evidence ledger promises ("per-tenant append-only hash chain", *)
(* evidence-ledger.service.ts:8-14): each tenant has a log of its own, a   *)
(* log only ever grows at its end, and no item is in two places.           *)
(***************************************************************************)
EXTENDS Naturals, Sequences

CONSTANTS Owners, Items

VARIABLE log

Entries(o) == {log[o][i] : i \in DOMAIN log[o]}

Init == log = [o \in Owners |-> << >>]

Append1(o, item) ==
    /\ \A other \in Owners : item \notin Entries(other)
    /\ log' = [log EXCEPT ![o] = Append(@, item)]

Next == \E o \in Owners, item \in Items : Append1(o, item)

Spec == Init /\ [][Next]_log
=============================================================================
