--------------------------- MODULE ResponseProposal ---------------------------
(***************************************************************************)
(* Response proposals and freezes of one tenant, as shield-core keeps them *)
(* (modules/response-proposal/services/response-proposal.service.ts).      *)
(* A proposal is approved by a task that reads it, awaits an authorization *)
(* decision and then writes; the write does not look at the row again.     *)
(* Freezes are also created by shield-action, in the same table.           *)
(***************************************************************************)
EXTENDS Naturals, FiniteSets

CONSTANTS
    Proposals,    \* ActionProposal ids
    Users,
    Actions,      \* action types
    Connectors,   \* connectors a freeze can name
    Approvers,    \* in-flight approve requests
    None,         \* the null of a column
    ProposalTTL,  \* PROPOSAL_TTL_MS
    ApprovalTTL,  \* APPROVAL_TTL_MS
    Durations,    \* durationMinutes of a timed freeze
    MaxFreezes,   \* bound on the freezes created
    MaxTime       \* bound on the clock

ASSUME ProposalAssumption ==
    /\ {ProposalTTL, ApprovalTTL} \subseteq Nat \ {0}
    /\ Durations \subseteq Nat \ {0}
    /\ {MaxFreezes, MaxTime} \subseteq Nat
    /\ None \notin Users \cup Actions \cup Connectors \cup Proposals \cup Nat

VARIABLES
    now,        \* Date.now() and the database's now()
    proposal,   \* the ActionProposal table
    approvals,  \* the ActionApproval table
    freezes,    \* the Freeze table
    approve     \* what each approve request holds while it awaits

proposalVars == <<now, proposal, approvals, freezes, approve>>

Time == Nat

Approval == [proposal: Proposals, approver: Users,
             approvedAt: Time, expiresAt: Time]

Freeze == [scope: {"GLOBAL", "TENANT", "ACTION_TYPE", "CONNECTOR"},
           ref: Actions \cup Connectors \cup {None},
           from: Time, until: Time \cup {None}]

NoProposal == [status |-> "NONE", requestedBy |-> None, action |-> None,
               expiresAt |-> 0]
Idle == [pc |-> "idle", proposal |-> None, user |-> None, expiresAt |-> 0]

ProposalInit ==
    /\ now = 0
    /\ proposal = [p \in Proposals |-> NoProposal]
    /\ approvals = {}
    /\ freezes = {}
    /\ approve = [t \in Approvers |-> Idle]

-----------------------------------------------------------------------------
CreateProposal(p, u, a) ==
    /\ proposal[p] = NoProposal
    /\ proposal' = [proposal EXCEPT ![p] =
          [status |-> "PROPOSED", requestedBy |-> u, action |-> a,
           expiresAt |-> now + ProposalTTL]]
    /\ UNCHANGED <<now, approvals, freezes, approve>>

ApprovableByProposer(p, u) ==  \* deviation: no four-eyes check
    proposal[p].status = "PROPOSED"

(* The checks approve makes on the row it read; expires_at is not one.     *)
Approvable(p, u) == proposal[p].status = "PROPOSED" /\ proposal[p].requestedBy # u

ApproveRead(t, p, u) ==
    /\ approve[t] = Idle
    /\ Approvable(p, u)
    /\ approve' = [approve EXCEPT ![t] =
          [pc |-> "authorize", proposal |-> p, user |-> u, expiresAt |-> 0]]
    /\ UNCHANGED <<now, proposal, approvals, freezes>>

(* The authorization decision comes back: PERMIT, and the approval's       *)
(* expiry is fixed, or anything else, and the request fails.               *)
ApproveAuthorized(t) ==
    /\ approve[t].pc = "authorize"
    /\ \/ approve' = [approve EXCEPT ![t].pc = "write",
                                     ![t].expiresAt = now + ApprovalTTL]
       \/ approve' = [approve EXCEPT ![t] = Idle]
    /\ UNCHANGED <<now, proposal, approvals, freezes>>

ApproveWrite(t) ==
    LET p == approve[t].proposal
    IN  /\ approve[t].pc = "write"
        /\ approvals' = approvals \cup
              {[proposal |-> p, approver |-> approve[t].user,
                approvedAt |-> now, expiresAt |-> approve[t].expiresAt]}
        /\ proposal' = [proposal EXCEPT ![p].status = "APPROVED"]
        /\ approve' = [approve EXCEPT ![t] = Idle]
        /\ UNCHANGED <<now, freezes>>

(* reject reads the row only to find it, then writes unconditionally. *)
Reject(p) ==
    /\ proposal[p] # NoProposal
    /\ proposal' = [proposal EXCEPT ![p].status = "REJECTED"]
    /\ UNCHANGED <<now, approvals, freezes, approve>>

-----------------------------------------------------------------------------
(* Freezes *)

Active(f, time) ==
    /\ f.from <= time
    /\ f.until = None \/ f.until > time

(* freezeTenant: an active TENANT freeze is returned instead of a new one. *)
FreezeTenant ==
    /\ Cardinality(freezes) < MaxFreezes
    /\ ~\E f \in freezes : f.scope = "TENANT" /\ Active(f, now)
    /\ freezes' = freezes \cup
          {[scope |-> "TENANT", ref |-> None, from |-> now, until |-> None]}
    /\ UNCHANGED <<now, proposal, approvals, approve>>

(* unfreezeTenant: ends the active freezes of scope TENANT, and only them. *)
UnfreezeTenant ==
    LET ended == {f \in freezes : f.scope = "TENANT" /\ Active(f, now)}
    IN  /\ ended # {}
        /\ freezes' = (freezes \ ended) \cup {[f EXCEPT !.until = now] : f \in ended}
        /\ UNCHANGED <<now, proposal, approvals, approve>>

(* createFreeze of shield-action: any scope, with or without a duration.   *)
CreateFreeze(scope, ref, duration) ==
    /\ Cardinality(freezes) < MaxFreezes
    /\ freezes' = freezes \cup
          {[scope |-> scope, ref |-> ref, from |-> now,
            until |-> IF duration = None THEN None ELSE now + duration]}
    /\ UNCHANGED <<now, proposal, approvals, approve>>

AnyCreateFreeze ==
    \E d \in Durations \cup {None} :
        \/ \E scope \in {"GLOBAL", "TENANT"} : CreateFreeze(scope, None, d)
        \/ \E a \in Actions : CreateFreeze("ACTION_TYPE", a, d)
        \/ \E c \in Connectors : CreateFreeze("CONNECTOR", c, d)

(* The service instance serving t dies. *)
ApproverCrash(t) ==
    /\ approve[t] # Idle
    /\ approve' = [approve EXCEPT ![t] = Idle]
    /\ UNCHANGED <<now, proposal, approvals, freezes>>

Tick ==
    /\ now < MaxTime
    /\ now' = now + 1
    /\ UNCHANGED <<proposal, approvals, freezes, approve>>

ProposalNext ==
    \/ Tick
    \/ FreezeTenant \/ UnfreezeTenant \/ AnyCreateFreeze
    \/ \E p \in Proposals :
          \/ Reject(p)
          \/ \E u \in Users, a \in Actions : CreateProposal(p, u, a)
          \/ \E u \in Users, t \in Approvers : ApproveRead(t, p, u)
    \/ \E t \in Approvers :
          ApproveAuthorized(t) \/ ApproveWrite(t) \/ ApproverCrash(t)
=============================================================================
