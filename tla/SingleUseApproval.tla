-------------------------- MODULE SingleUseApproval --------------------------
(***************************************************************************)
(* What a dual-custody approval promises, with no database, no tasks and   *)
(* no clock: somebody opens it, somebody else countersigns it, it is       *)
(* claimed at most once, and only a claimed approval lets the one action   *)
(* it covers happen.                                                       *)
(***************************************************************************)
EXTENDS Naturals

CONSTANTS Approvals, People, Nobody

VARIABLES
    phase,          \* of each approval
    opener,         \* who opened it
    countersigner,  \* who countersigned it
    uses            \* how many times its action happened

vars == <<phase, opener, countersigner, uses>>

Init ==
    /\ phase = [a \in Approvals |-> "absent"]
    /\ opener = [a \in Approvals |-> Nobody]
    /\ countersigner = [a \in Approvals |-> Nobody]
    /\ uses = [a \in Approvals |-> 0]

Open(a, p) ==
    /\ phase[a] = "absent"
    /\ phase' = [phase EXCEPT ![a] = "open"]
    /\ opener' = [opener EXCEPT ![a] = p]
    /\ UNCHANGED <<countersigner, uses>>

Countersign(a, p) ==
    /\ phase[a] = "open"
    /\ p # opener[a]
    /\ phase' = [phase EXCEPT ![a] = "approved"]
    /\ countersigner' = [countersigner EXCEPT ![a] = p]
    /\ UNCHANGED <<opener, uses>>

Claim(a) ==
    /\ phase[a] = "approved"
    /\ phase' = [phase EXCEPT ![a] = "claimed"]
    /\ UNCHANGED <<opener, countersigner, uses>>

Use(a) ==
    /\ phase[a] = "claimed"
    /\ uses[a] = 0
    /\ uses' = [uses EXCEPT ![a] = 1]
    /\ UNCHANGED <<phase, opener, countersigner>>

Lapse(a) ==
    /\ phase[a] \in {"open", "approved"}
    /\ phase' = [phase EXCEPT ![a] = "lapsed"]
    /\ UNCHANGED <<opener, countersigner, uses>>

Next ==
    \E a \in Approvals :
        \/ \E p \in People : Open(a, p) \/ Countersign(a, p)
        \/ Claim(a) \/ Use(a) \/ Lapse(a)

Spec == Init /\ [][Next]_vars
=============================================================================
