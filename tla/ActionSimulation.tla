--------------------------- MODULE ActionSimulation ---------------------------
(***************************************************************************)
(* shield-action simulates approved proposals (simulation.service.ts):     *)
(* each simulation fetches the authorization context from shield-core (two *)
(* reads there), re-checks policy and approval, then the freezes, then the *)
(* rate ceiling, and last commits an ActionCommand.  Each of these awaits, *)
(* and nothing read earlier is read again at the commit.                   *)
(***************************************************************************)
EXTENDS ResponseProposal

CONSTANTS
    Sims,     \* in-flight simulations, over all instances and triggers
    Maximum,  \* the rate ceiling of an action type
    Window    \* its window

ASSUME SimulationAssumption ==
    /\ {Maximum, Window} \subseteq Nat \ {0}
    /\ Actions \cap Connectors = {}
    /\ IsFiniteSet(Sims)

VARIABLES
    sim,      \* what each simulation holds
    commands  \* the ActionCommand table

simVars == <<now, proposal, approvals, freezes, approve, sim, commands>>

NoApproval == [proposal |-> None, approver |-> None, approvedAt |-> 0,
               expiresAt |-> 0]
NoSim == [pc |-> "idle", proposal |-> None, status |-> "NONE", action |-> None,
          approval |-> NoApproval, since |-> 0]

Init ==
    /\ ProposalInit
    /\ sim = [s \in Sims |-> NoSim]
    /\ commands = {}

End(s) == sim' = [sim EXCEPT ![s] = NoSim]
Go(s, label) == sim' = [sim EXCEPT ![s].pc = label]

-----------------------------------------------------------------------------
(* getAuthorizationContext, first read: the proposal row *)
FetchProposal(s, p) ==
    /\ sim[s] = NoSim
    /\ proposal[p] # NoProposal
    /\ sim' = [sim EXCEPT ![s] =
          [pc |-> "approval", proposal |-> p, status |-> proposal[p].status,
           action |-> proposal[p].action, approval |-> NoApproval, since |-> now]]
    /\ UNCHANGED <<proposalVars, commands>>

ApprovalsOf(p) == {a \in approvals : a.proposal = p}

LatestApprovals(p) ==
    {a \in ApprovalsOf(p) : \A b \in ApprovalsOf(p) : b.approvedAt <= a.approvedAt}

(* Second read: a latest approval of the proposal; equal times tie. *)
FetchApproval(s) ==
    /\ sim[s].pc = "approval"
    /\ \/ /\ LatestApprovals(sim[s].proposal) = {}
          /\ Go(s, "check")
       \/ \E a \in LatestApprovals(sim[s].proposal) :
              sim' = [sim EXCEPT ![s].pc = "check", ![s].approval = a]
    /\ UNCHANGED <<proposalVars, commands>>

ReauthorizedByApproval(s) ==  \* deviation: the proposal's status is not checked
    /\ sim[s].approval # NoApproval
    /\ sim[s].approval.expiresAt > now

ReauthorizedExpired(s) ==  \* deviation: the approval's expiry is not checked
    /\ sim[s].status = "APPROVED"
    /\ sim[s].approval # NoApproval

(* PolicyReauthorizationService and ApprovalReauthorizationService.  The   *)
(* material hash covers columns nothing rewrites, so it always matches.    *)
Reauthorized(s) ==
    /\ sim[s].status = "APPROVED"
    /\ sim[s].approval # NoApproval
    /\ sim[s].approval.expiresAt > now

(* The response arrives with an entitlement that is PERMIT or not. *)
Reauthorize(s) ==
    /\ sim[s].pc = "check"
    /\ \/ Reauthorized(s) /\ Go(s, "freeze")
       \/ End(s)
    /\ UNCHANGED <<proposalVars, commands>>

FreezesAll(f, a) ==  \* deviation: ACTION_TYPE freezes are not looked at
    f.scope \in {"GLOBAL", "TENANT"}

(* isFrozen: the context names no connector, so scope CONNECTOR is never   *)
(* compared.                                                               *)
Freezes(f, a) ==
    \/ f.scope \in {"GLOBAL", "TENANT"}
    \/ f.scope = "ACTION_TYPE" /\ f.ref = a

FrozenFor(a) == \E f \in freezes : Freezes(f, a) /\ Active(f, now)

CheckFreeze(s) ==
    /\ sim[s].pc = "freeze"
    /\ IF FrozenFor(sim[s].action) THEN End(s) ELSE Go(s, "rate")
    /\ UNCHANGED <<proposalVars, commands>>

(* Commands of action type a created in the window that ends now *)
InWindow(a) ==
    {c \in commands : c.action = a /\ c.createdAt + Window >= now}

AtCeiling(a) == Cardinality(InWindow(a)) <= Maximum  \* deviation: off by one

UnderCeiling(a) == Cardinality(InWindow(a)) < Maximum

CheckRate(s) ==
    /\ sim[s].pc = "rate"
    /\ IF UnderCeiling(sim[s].action) THEN Go(s, "commit") ELSE End(s)
    /\ UNCHANGED <<proposalVars, commands>>

(* The transaction: command, receipt and outbox event. *)
CommitCommand(s) ==
    /\ sim[s].pc = "commit"
    /\ commands' = commands \cup
          {[id |-> Cardinality(commands) + 1, proposal |-> sim[s].proposal,
            action |-> sim[s].action, approval |-> sim[s].approval,
            since |-> sim[s].since, createdAt |-> now]}
    /\ End(s)
    /\ UNCHANGED proposalVars

SimCrash(s) ==
    /\ sim[s] # NoSim
    /\ End(s)
    /\ UNCHANGED <<proposalVars, commands>>

SimStep(s) ==
    \/ FetchApproval(s) \/ Reauthorize(s) \/ CheckFreeze(s)
    \/ CheckRate(s) \/ CommitCommand(s)

Next ==
    \/ ProposalNext /\ UNCHANGED <<sim, commands>>
    \/ \E s \in Sims : \/ \E p \in Proposals : FetchProposal(s, p)
                       \/ SimStep(s) \/ SimCrash(s)

Spec == Init /\ [][Next]_simVars

-----------------------------------------------------------------------------
(* Every variable keeps its type. *)
TypeOK ==
    /\ now \in 0 .. MaxTime
    /\ proposal \in [Proposals ->
          [status: {"PROPOSED", "APPROVED", "REJECTED"}, requestedBy: Users,
           action: Actions, expiresAt: Time] \cup {NoProposal}]
    /\ approvals \subseteq Approval
    /\ freezes \subseteq Freeze
    /\ approve \in [Approvers ->
          [pc: {"authorize", "write"}, proposal: Proposals, user: Users,
           expiresAt: Time] \cup {Idle}]
    /\ sim \in [Sims ->
          [pc: {"approval", "check", "freeze", "rate", "commit"},
           proposal: Proposals, status: {"PROPOSED", "APPROVED", "REJECTED"},
           action: Actions, approval: Approval \cup {NoApproval}, since: Time]
          \cup {NoSim}]
    /\ \A c \in commands : c.id \in 1 .. Cardinality(commands)

(* Every command rests on an approval of its own proposal by somebody who  *)
(* did not ask for it, whatever reads and writes interleave on the way     *)
(* (simulation re-fetches the context and never trusts the trigger).       *)
CommandsAreApproved ==
    \A c \in commands :
        /\ c.approval \in approvals
        /\ c.approval.proposal = c.proposal
        /\ c.approval.approver # proposal[c.proposal].requestedBy
        /\ c.action = proposal[c.proposal].action

(* A simulation that begins after its approval expired yields no command,  *)
(* however long the context takes to arrive.                               *)
CommandsUseCurrentApproval ==
    \A c \in commands : c.since < c.approval.expiresAt

(* No command comes out of a simulation that began while a freeze covered  *)
(* its action and lasted until the command: a freeze stops every           *)
(* simulation that starts after it, if not those already past the check.   *)
FreezeStopsLaterSimulations ==
    \A c \in commands, f \in freezes :
        ~ /\ f.scope \in {"GLOBAL", "TENANT"} \/ f.ref = c.action
          /\ f.from < c.since
          /\ f.until = None \/ f.until > c.createdAt

(* The ceiling is read before it is used, so simultaneous simulations can  *)
(* overshoot it, but by no more than all of them but one.                  *)
CeilingOvershootIsBounded ==
    \A a \in Actions : Cardinality(InWindow(a)) <= Maximum + Cardinality(Sims) - 1

(* A proposal nobody is approving, rejected, with no simulation under way  *)
(* that saw it approved, stays without effect for good.                    *)
Settled(p) ==
    /\ proposal[p].status = "REJECTED"
    /\ \A t \in Approvers : approve[t].proposal # p
    /\ \A s \in Sims : ~(sim[s].proposal = p /\ sim[s].status = "APPROVED")

CommandsOf(p) == {c \in commands : c.proposal = p}

RejectionSticks ==
    [][\A p \in Proposals :
          Settled(p) => Settled(p)' /\ CommandsOf(p)' = CommandsOf(p)]_simVars
=============================================================================
